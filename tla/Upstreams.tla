----------------------------- MODULE Upstreams -----------------------------
(***************************************************************************)
(* The API keys of the upstreams.  Table upstream_configs keeps each key   *)
(* encrypted under the secret that is in force when it is written: that of *)
(* the environment, else upstream_key_secret of config.json, else the JWT  *)
(* secret (src/src/utils/secrets.rs).  Who writes them:                    *)
(*   - administrators, whose handlers end with a reload of the cache       *)
(*     (src/src/admin/upstreams.rs, src/src/store/mod.rs);                 *)
(*   - the service, which encrypts plaintext keys at its start and         *)
(*     replaces an unsafe JWT secret (src/src/main.rs);                    *)
(*   - the commands migrate-upstream-secrets, rotate-secrets and init,     *)
(*     processes of their own that nothing keeps apart from the service.   *)
(* No statement covers several rows, or a row and the configuration.       *)
(* One tenant; the reload goes map by map (UserCache goes user by user).   *)
(***************************************************************************)
EXTENDS Integers, FiniteSets

CONSTANTS
  Upstreams,
  Keys,           \* upstream API keys
  Admins,         \* administrator requests at work
  Main,           \* the service's own reload, at its start
  NoKey,          \* the empty key
  Plain,          \* in place of a secret: the key is not encrypted
  Blank,          \* an upstream_key_secret of blanks
  None,
  Installed,      \* configuration files and environments to begin with
  MaxWrites,      \* bound: administrator requests per behavior
  MaxBoots,       \* bound: starts of the service
  MaxCommands     \* bound: commands per behavior

MaxGen == 1 + MaxBoots + MaxCommands
Secrets == {"jwt", "upstream", "env"} \X (0 .. MaxGen)
Weak == <<"jwt", 0>>     \* the JWT secret is blank or the insecure default
Tasks == Admins \cup {Main}
Workers == {"service", "command"}
Reload == {"fetch", "decrypt", "fill", "unlist", "list"}

\* A secret that is there before the first start.
OldSecrets == {"jwt", "upstream", "env"} \X {0, 1}

Rows == [key : Keys \cup {NoKey}, under : Secrets \cup {Plain}, active : BOOLEAN]
Edits == [op : {"create", "update", "status", "delete"}, up : Upstreams,
          key : Keys \cup {NoKey}, under : Secrets \cup {Plain}]
Configs == [jwt : Secrets, upstream : Secrets \cup {None, Blank}]

ASSUME UpstreamsAssumption ==
  /\ Main \notin Admins /\ NoKey \notin Keys
  /\ None \notin Rows \cup Edits \cup Keys \cup {NoKey}
  /\ {None, Plain, Blank} \cap Secrets = {}
  /\ Plain # None /\ Plain # Blank /\ Blank # None
  /\ Installed \subseteq
       [cfg : [jwt : OldSecrets, upstream : OldSecrets \cup {None, Blank}],
        env : OldSecrets \cup {None}]
  /\ MaxWrites \in Nat /\ MaxBoots \in Nat /\ MaxCommands \in Nat

VARIABLES
  row,      \* row[u]: the row of u in upstream_configs
  given,    \* history: the key an administrator last gave u; ids do not return
  cfg,      \* config.json
  env,      \* the secret in the environment, if any
  gen,      \* secrets generated so far
  stage,    \* the service: "down", "boot", "load", "up"
  pc,       \* where the handler of task t is
  edit,     \* edit[t]: the request t serves; its key is encrypted already
  snap,     \* snap[t]: rows t's reload fetched and has not decrypted
  entry,    \* entry[t]: cache entries t's reload has made
  cache,    \* StoreManager.upstreams: the key of each cached upstream
  listed,   \* StoreManager.tenant_upstreams
  job,      \* job[w]: the migration or rotation w is at
  writes, boots, commands,
  mishaps,  \* history: what may have cost a key
  crossed,  \* history: t's reload overlapped another one or a rotation
  hazy      \* history: no reload has run alone since one was crossed or failed

tables == <<row, given>>
settings == <<cfg, env, gen>>
caches == <<cache, listed>>
reloads == <<snap, entry, crossed>>
counters == <<writes, boots, commands>>
vars == <<row, given, cfg, env, gen, stage, pc, edit, snap, entry, cache, listed,
          job, writes, boots, commands, mishaps, crossed, hazy>>

NoRows == [u \in Upstreams |-> None]
Jobs == [op : {"none", "migrate", "rotate"}, left : [Upstreams -> Rows \cup {None}],
         old : Secrets \cup {None, Blank}, gen : 0 .. MaxGen, wrote : BOOLEAN]
NoJob == [op |-> "none", left |-> NoRows, old |-> None, gen |-> 0, wrote |-> FALSE]

TypeOK ==
  /\ row \in [Upstreams -> Rows \cup {None}]
  /\ given \in [Upstreams -> Keys \cup {NoKey, None}]
  /\ cfg \in Configs /\ env \in Secrets \cup {None} /\ gen \in 0 .. (1 + boots + commands)
  /\ stage \in {"down", "boot", "load", "up"}
  /\ pc \in [Tasks -> {"idle", "write"} \cup Reload]
  /\ edit \in [Tasks -> Edits \cup {None}]
  /\ snap \in [Tasks -> [Upstreams -> Rows \cup {None}]]
  /\ entry \in [Tasks -> [Upstreams -> Keys \cup {NoKey, None}]]
  /\ cache \in [Upstreams -> Keys \cup {NoKey, None}]
  /\ listed \in SUBSET Upstreams
  /\ job \in [Workers -> Jobs]
  /\ writes \in 0 .. MaxWrites /\ boots \in 0 .. MaxBoots
  /\ commands \in 0 .. MaxCommands
  /\ mishaps \in SUBSET {"torn", "overlap", "init", "blank", "env", "weak"}
  /\ crossed \in [Tasks -> BOOLEAN]
  /\ hazy \in BOOLEAN
-----------------------------------------------------------------------------
(* Secrets. *)

\* load_upstream_encryption_key.
InForce(c) ==
  IF env # None THEN env
  ELSE IF c.upstream \notin {None, Blank} THEN c.upstream ELSE c.jwt

\* Mutant of Sealed: no other secret takes the place of upstream_key_secret.
SealedByUpstream(key) == IF key = NoKey THEN Plain ELSE cfg.upstream

\* What encryption leaves in the row: nothing for an empty key.
Sealed(key) == IF key = NoKey THEN Plain ELSE InForce(cfg)

\* decrypt_upstream_api_key; a key that cannot be decrypted is cleared, and a
\* plaintext one is taken as it is.
Opened(r) == IF r.under \in {Plain, InForce(cfg)} THEN r.key ELSE NoKey

Encrypted == {u \in Upstreams : row[u] # None /\ row[u].under # Plain}

\* What a reload would cache if it ran alone.
Visible == [u \in Upstreams |->
              IF row[u] # None /\ row[u].active THEN given[u] ELSE None]

Present(f) == {u \in Upstreams : f[u] # None}
Quiet == \A t \in Tasks : pc[t] = "idle"
Rotating == job["command"].op = "rotate"
Editing == {t \in Tasks : pc[t] = "write" /\ edit[t].key # NoKey}

\* The database may be that of an older version, with plaintext keys.
Init ==
  /\ \E i \in Installed : cfg = i.cfg /\ env = i.env
  /\ gen = 1
  /\ row \in [Upstreams -> [key : Keys, under : {Plain, InForce(cfg)}, active : {TRUE}]
                             \cup {None}]
  /\ given = [u \in Upstreams |-> IF row[u] = None THEN None ELSE row[u].key]
  /\ stage = "down"
  /\ pc = [t \in Tasks |-> "idle"]
  /\ edit = [t \in Tasks |-> None]
  /\ snap = [t \in Tasks |-> NoRows]
  /\ entry = [t \in Tasks |-> NoRows]
  /\ cache = NoRows
  /\ listed = {}
  /\ job = [w \in Workers |-> NoJob]
  /\ writes = 0 /\ boots = 0 /\ commands = 0
  /\ mishaps = {}
  /\ crossed = [t \in Tasks |-> FALSE]
  /\ hazy = FALSE

-----------------------------------------------------------------------------
(* The administrator's handlers. *)

\* find_by_id and the tenant check, and the encryption of a new key.
Ask(t) ==
  /\ stage = "up" /\ pc[t] = "idle" /\ writes < MaxWrites
  /\ \E op \in {"create", "update", "status", "delete"}, u \in Upstreams,
        key \in Keys \cup {NoKey} :
       /\ key # NoKey => op \in {"create", "update"}
       /\ IF op = "create"
          THEN given[u] = None /\ \A o \in Admins : edit[o] # None => edit[o].up # u
          ELSE row[u] # None
       /\ edit' = [edit EXCEPT ![t] =
                     [op |-> op, up |-> u, key |-> key, under |-> Sealed(key)]]
       /\ mishaps' = IF key # NoKey /\ job["command"].op # "none"
                     THEN mishaps \cup {"overlap"} ELSE mishaps
  /\ pc' = [pc EXCEPT ![t] = "write"]
  /\ writes' = writes + 1
  /\ UNCHANGED <<tables, settings, stage, caches, reloads, job, boots, commands, hazy>>

\* The row after the statement; a column that is not given keeps its value.
Edited(e, r) ==
  CASE e.op = "create" -> [key |-> e.key, under |-> e.under, active |-> TRUE]
    [] e.op = "update" /\ e.key # NoKey -> [r EXCEPT !.key = e.key, !.under = e.under]
    [] e.op = "status" -> [r EXCEPT !.active = ~@]
    [] e.op = "delete" -> None
    [] OTHER -> r

\* The statement.  update and delete of a row that is gone end with NotFound,
\* before the reload.
Write(t) ==
  LET e == edit[t]
      gone == e.op # "create" /\ row[e.up] = None
  IN
  /\ pc[t] = "write"
  /\ row' = IF gone THEN row ELSE [row EXCEPT ![e.up] = Edited(e, @)]
  /\ given' = IF ~gone /\ (e.op = "create" \/ e.key # NoKey)
              THEN [given EXCEPT ![e.up] = e.key] ELSE given
  /\ pc' = [pc EXCEPT ![t] = IF gone /\ e.op # "status" THEN "idle" ELSE "fetch"]
  /\ edit' = [edit EXCEPT ![t] = None]
  /\ UNCHANGED <<settings, stage, caches, reloads, job, counters, mishaps, hazy>>

\* The statement fails, as a delete does while model settings refer to u.
WriteFails(t) ==
  /\ pc[t] = "write"
  /\ pc' = [pc EXCEPT ![t] = "idle"]
  /\ edit' = [edit EXCEPT ![t] = None]
  /\ UNCHANGED <<tables, settings, stage, caches, reloads, job, counters, mishaps, hazy>>

-----------------------------------------------------------------------------
(* reload_upstreams. *)

Crossing(t) == {o \in Tasks \ {t} : pc[o] \in Reload \ {"fetch"}}

\* SELECT ... WHERE status = 'active'
Fetch(t) ==
  /\ pc[t] = "fetch"
  /\ snap' = [snap EXCEPT ![t] =
                [u \in Upstreams |-> IF row[u] # None /\ row[u].active
                                     THEN row[u] ELSE None]]
  /\ crossed' = [o \in Tasks |-> IF o = t THEN Crossing(t) # {} \/ Rotating
                                 ELSE crossed[o] \/ o \in Crossing(t)]
  /\ hazy' = (hazy \/ crossed'[t])
  /\ pc' = [pc EXCEPT ![t] = "decrypt"]
  /\ UNCHANGED <<tables, settings, stage, edit, entry, caches, job, counters, mishaps>>

\* The statement fails; at the start of the service this ends it (Stop).
FetchFails(t) ==
  /\ pc[t] = "fetch" /\ t # Main
  /\ pc' = [pc EXCEPT ![t] = "idle"]
  /\ crossed' = [o \in Tasks |-> crossed[o] \/ o \in Crossing(t)]
  /\ hazy' = TRUE
  /\ UNCHANGED <<tables, settings, stage, edit, snap, entry, caches, job, counters,
                 mishaps>>

\* The secret is looked up again for each row.
Decrypt(t) ==
  /\ pc[t] = "decrypt"
  /\ \E u \in Present(snap[t]) :
       /\ entry' = [entry EXCEPT ![t][u] = Opened(snap[t][u])]
       /\ snap' = [snap EXCEPT ![t][u] = None]
  /\ UNCHANGED <<tables, settings, stage, pc, edit, caches, job, counters, mishaps,
                 crossed, hazy>>

Clear(t) ==
  /\ pc[t] = "decrypt" /\ Present(snap[t]) = {}
  /\ cache' = NoRows
  /\ pc' = [pc EXCEPT ![t] = "fill"]
  /\ UNCHANGED <<tables, settings, stage, edit, reloads, listed, job, counters,
                 mishaps, hazy>>

Fill(t) ==
  /\ pc[t] = "fill"
  /\ cache' = [u \in Upstreams |-> IF entry[t][u] # None THEN entry[t][u] ELSE cache[u]]
  /\ pc' = [pc EXCEPT ![t] = "unlist"]
  /\ UNCHANGED <<tables, settings, stage, edit, reloads, listed, job, counters,
                 mishaps, hazy>>

\* Mutant of Unlist: the lists of tenants without upstreams stay.
UnlistNothing(t) ==
  /\ pc[t] = "unlist"
  /\ pc' = [pc EXCEPT ![t] = "list"]
  /\ UNCHANGED <<tables, settings, stage, edit, reloads, caches, job, counters,
                 mishaps, hazy>>

Unlist(t) ==
  /\ pc[t] = "unlist"
  /\ listed' = {}
  /\ pc' = [pc EXCEPT ![t] = "list"]
  /\ UNCHANGED <<tables, settings, stage, edit, reloads, cache, job, counters,
                 mishaps, hazy>>

\* A tenant without rows has no list to insert.
List(t) ==
  /\ pc[t] = "list"
  /\ listed' = IF Present(entry[t]) = {} THEN listed ELSE Present(entry[t])
  /\ pc' = [pc EXCEPT ![t] = "idle"]
  /\ stage' = IF t = Main THEN "up" ELSE stage
  /\ entry' = [entry EXCEPT ![t] = NoRows]
  /\ crossed' = [crossed EXCEPT ![t] = FALSE]
  /\ hazy' = (hazy /\ crossed[t])
  /\ UNCHANGED <<tables, settings, edit, snap, cache, job, counters, mishaps>>

-----------------------------------------------------------------------------
(* Migration and rotation, row by row from what one SELECT found. *)

\* Mutant of Select: rows of the new format only.
SelectEncrypted ==
  [u \in Upstreams |-> IF u \in Encrypted THEN row[u] ELSE None]

Select == [u \in Upstreams |-> IF row[u] # None /\ row[u].key # NoKey THEN row[u] ELSE None]

\* The secret the row gets, None when it is passed over: a migration leaves
\* encrypted rows alone, a rotation plaintext ones and those that the old
\* secret does not open.
Converted(w, r) ==
  CASE job[w].op = "migrate" /\ r.under = Plain -> InForce(cfg)
    [] job[w].op = "rotate" /\ r.under = job[w].old -> <<"upstream", job[w].gen>>
    [] OTHER -> None

Turned(j, u, written) ==
  [j EXCEPT !.left = [@ EXCEPT ![u] = None], !.wrote = IF written THEN TRUE ELSE @]

\* One turn of the loop: UPDATE ... WHERE id = ?, with the key that was read.
Convert(w) ==
  \E u \in Present(job[w].left) :
    LET r == job[w].left[u]
        new == Converted(w, r)
    IN
    /\ row' = IF new # None /\ row[u] # None
              THEN [row EXCEPT ![u].key = r.key, ![u].under = new] ELSE row
    /\ job' = [job EXCEPT ![w] = Turned(@, u, new # None)]
    /\ UNCHANGED <<given, settings, stage, pc, edit, caches, reloads, counters,
                   mishaps, hazy>>

\* The command crashes, or a statement of it fails.
Abort ==
  /\ job["command"].op # "none"
  /\ mishaps' = IF Rotating /\ job["command"].wrote
                THEN mishaps \cup {"torn"} ELSE mishaps
  /\ job' = [job EXCEPT !["command"] = NoJob]
  /\ UNCHANGED <<tables, settings, stage, pc, edit, caches, reloads, counters, hazy>>

-----------------------------------------------------------------------------
(* The commands. *)

Command ==
  /\ job["command"].op = "none" /\ commands < MaxCommands
  /\ commands' = commands + 1

\* The key of a row changes outside of the command while it runs.
Overlap == IF stage = "boot" \/ Editing # {} THEN {"overlap"} ELSE {}

\* migrate-upstream-secrets.
Migrate ==
  /\ Command
  /\ job' = [job EXCEPT !["command"] = [@ EXCEPT !.op = "migrate", !.left = Select]]
  /\ mishaps' = mishaps \cup (IF Editing # {} THEN {"overlap"} ELSE {})
  /\ UNCHANGED <<tables, settings, stage, pc, edit, caches, reloads, writes, boots, hazy>>

\* Mutant of Rotate: the old secret is taken to be the JWT secret.
RotateFromJwt ==
  /\ Command
  /\ gen' = gen + 1
  /\ job' = [job EXCEPT !["command"] =
               [op |-> "rotate", left |-> Select, gen |-> gen + 1, wrote |-> FALSE,
                old |-> cfg.jwt]]
  /\ mishaps' = mishaps \cup Overlap
  /\ UNCHANGED <<tables, cfg, env, stage, pc, edit, caches, reloads, writes, boots, hazy>>

\* rotate-secrets loads the configuration and the rows.  It takes no notice of
\* the environment, nor that an upstream_key_secret of blanks is not in force.
Rotate ==
  /\ Command
  /\ gen' = gen + 1
  /\ job' = [job EXCEPT !["command"] =
               [op |-> "rotate", left |-> Select, gen |-> gen + 1, wrote |-> FALSE,
                old |-> IF cfg.upstream # None THEN cfg.upstream ELSE cfg.jwt]]
  /\ mishaps' = mishaps \cup Overlap
  /\ crossed' = [t \in Tasks |-> crossed[t] \/ pc[t] \in Reload \ {"fetch"}]
  /\ hazy' = (hazy \/ crossed' # crossed)
  /\ UNCHANGED <<tables, cfg, env, stage, pc, edit, caches, snap, entry, writes, boots>>

\* The command ends; a rotation saves its copy of the configuration.
Finish ==
  LET j == job["command"] IN
  /\ j.op # "none" /\ Present(j.left) = {}
  /\ cfg' = IF Rotating
            THEN [jwt |-> <<"jwt", j.gen>>, upstream |-> <<"upstream", j.gen>>] ELSE cfg
  /\ mishaps' = mishaps
       \cup (IF Rotating /\ j.old = Blank /\ env = None /\ Encrypted # {}
             THEN {"blank"} ELSE {})
       \cup (IF Rotating /\ env # None /\ j.wrote THEN {"env"} ELSE {})
  /\ job' = [job EXCEPT !["command"] = NoJob]
  /\ UNCHANGED <<tables, env, gen, stage, pc, edit, caches, reloads, counters, hazy>>

\* init writes a new configuration, whether or not there are rows.
Initialize ==
  /\ Command
  /\ gen' = gen + 1
  /\ cfg' = [jwt |-> <<"jwt", gen + 1>>, upstream |-> <<"upstream", gen + 1>>]
  /\ mishaps' = mishaps \cup Overlap \cup
                  (IF env = None /\ Encrypted # {} THEN {"init"} ELSE {})
  /\ UNCHANGED <<tables, env, stage, pc, edit, caches, reloads, job, writes, boots, hazy>>

-----------------------------------------------------------------------------
(* The service. *)

\* main: an unsafe JWT secret is replaced, the keys to migrate are selected.
Boot ==
  LET safe == [jwt |-> <<"jwt", gen + 1>>,
               upstream |-> IF cfg.upstream = None THEN <<"upstream", gen + 1>>
                            ELSE cfg.upstream]
  IN
  /\ stage = "down" /\ boots < MaxBoots
  /\ stage' = "boot" /\ boots' = boots + 1
  /\ IF cfg.jwt = Weak
     THEN cfg' = safe /\ gen' = gen + 1
     ELSE UNCHANGED <<cfg, gen>>
  /\ job' = [job EXCEPT !["service"] = [@ EXCEPT !.op = "migrate", !.left = Select]]
  /\ mishaps' = mishaps \cup (IF Rotating THEN {"overlap"} ELSE {})
                  \cup (IF InForce(cfg') # InForce(cfg) /\ Encrypted # {}
                        THEN {"weak"} ELSE {})
  /\ UNCHANGED <<tables, env, pc, edit, caches, reloads, writes, commands, hazy>>

\* init_from_sqlite, once the migration is through.
Load ==
  /\ stage = "boot" /\ Present(job["service"].left) = {}
  /\ stage' = "load"
  /\ job' = [job EXCEPT !["service"] = NoJob]
  /\ pc' = [pc EXCEPT ![Main] = "fetch"]
  /\ UNCHANGED <<tables, settings, edit, caches, reloads, counters, mishaps, hazy>>

\* Shutdown, a crash, or an error of main.
Stop ==
  /\ stage # "down"
  /\ stage' = "down"
  /\ job' = [job EXCEPT !["service"] = NoJob]
  /\ pc' = [t \in Tasks |-> "idle"]
  /\ edit' = [t \in Tasks |-> None]
  /\ snap' = [t \in Tasks |-> NoRows]
  /\ entry' = [t \in Tasks |-> NoRows]
  /\ cache' = NoRows /\ listed' = {}
  /\ crossed' = [t \in Tasks |-> FALSE]
  /\ hazy' = FALSE
  /\ UNCHANGED <<tables, settings, counters, mishaps>>

Next ==
  \/ \E t \in Admins : Ask(t) \/ Write(t) \/ WriteFails(t)
  \/ \E t \in Tasks : \/ Fetch(t) \/ FetchFails(t) \/ Decrypt(t) \/ Clear(t)
                      \/ Fill(t) \/ Unlist(t) \/ List(t)
  \/ \E w \in Workers : Convert(w)
  \/ Abort \/ Migrate \/ Rotate \/ Finish \/ Initialize
  \/ Boot \/ Load \/ Stop

Spec == Init /\ [][Next]_vars

-----------------------------------------------------------------------------
(* Properties. *)

\* Between commands every key an administrator gave can be decrypted and is
\* the one he gave last, through migrations, rotations, restarts, and edits
\* that leave the key alone; except for six mishaps: a rotation that fails half
\* way, a key given while a command or a start is at work, init over an old
\* database, a rotation of blanks, one of a secret that the environment has too
\* and keeps in force, a weak secret replaced under its rows.
KeysKept ==
  mishaps = {} /\ job["command"].op = "none" =>
    \A u \in Upstreams : row[u] # None => Opened(row[u]) = given[u]

\* With no handler at work the cached upstreams are the active ones with their
\* keys, and the tenant's list names them all, unless a reload was crossed by
\* another one or by a rotation, or failed, and none has run alone since.
Agrees ==
  stage = "up" /\ Quiet /\ ~hazy /\ mishaps = {} =>
    cache = Visible /\ listed = Present(cache)

\* A service that is loading or up has no plaintext key in its database,
\* however its start was interleaved with commands.
NoPlaintext ==
  stage \in {"load", "up"} =>
    \A u \in Upstreams \ Encrypted : row[u] = None \/ row[u].key = NoKey

=============================================================================
