-------------------------- MODULE UpstreamsProofs --------------------------
(***************************************************************************)
(* Upstreams for every number of upstreams, keys, administrators, starts   *)
(* and commands: types, that a running service has no plaintext keys, and  *)
(* that keys outlive migrations, rotations and restarts.                   *)
(***************************************************************************)
EXTENDS Upstreams, TLAPS

-----------------------------------------------------------------------------
(* Types. *)

LEMMA Bounds ==
  ASSUME TypeOK
  PROVE  /\ MaxWrites \in Nat /\ MaxBoots \in Nat /\ MaxCommands \in Nat
         /\ gen \in 0 .. MaxGen
BY UpstreamsAssumption DEF TypeOK, MaxGen

LEMMA InForceType ==
  ASSUME TypeOK
  PROVE  InForce(cfg) \in Secrets
BY DEF TypeOK, InForce, Configs

LEMMA InitTypes == Init => TypeOK
<1> SUFFICES ASSUME Init PROVE TypeOK
  OBVIOUS
<1>1. PICK i \in Installed : cfg = i.cfg /\ env = i.env
  BY DEF Init
<1>2. OldSecrets \subseteq Secrets
  BY UpstreamsAssumption DEF OldSecrets, Secrets, MaxGen
<1>3. cfg \in Configs /\ env \in Secrets \cup {None}
  BY <1>1, <1>2, UpstreamsAssumption DEF Configs
<1>4. InForce(cfg) \in Secrets
  BY <1>3 DEF InForce, Configs
<1>5. row \in [Upstreams -> Rows \cup {None}]
  BY <1>4 DEF Init, Rows
<1>6. given \in [Upstreams -> Keys \cup {NoKey, None}]
  BY <1>5 DEF Init, Rows
<1>7. /\ gen \in 0 .. (1 + boots + commands)
      /\ writes \in 0 .. MaxWrites /\ boots \in 0 .. MaxBoots /\ commands \in 0 .. MaxCommands
  BY UpstreamsAssumption DEF Init
<1>8. job \in [Workers -> Jobs]
  BY UpstreamsAssumption DEF Init, Jobs, NoJob, NoRows, MaxGen
<1> QED BY <1>3, <1>5, <1>6, <1>7, <1>8 DEF Init, TypeOK, NoRows, Tasks

\* The request that a handler takes up.
LEMMA AskEdit ==
  ASSUME TypeOK, NEW t \in Admins, Ask(t)
  PROVE  \E e \in Edits :
           /\ edit' = [edit EXCEPT ![t] = e]
           /\ e.under = Sealed(e.key)
           /\ e.key # NoKey => e.op \in {"create", "update"}
           /\ e.op = "create" =>
                given[e.up] = None /\ \A o \in Admins : edit[o] # None => edit[o].up # e.up
           /\ e.op # "create" => row[e.up] # None
           /\ e.key # NoKey /\ job["command"].op # "none" => "overlap" \in mishaps'
<1>1. \A key \in Keys \cup {NoKey} : Sealed(key) \in Secrets \cup {Plain}
  BY InForceType DEF Sealed
<1>2. PICK op \in {"create", "update", "status", "delete"}, u \in Upstreams,
           key \in Keys \cup {NoKey} :
        /\ key # NoKey => op \in {"create", "update"}
        /\ IF op = "create"
           THEN given[u] = None /\ \A o \in Admins : edit[o] # None => edit[o].up # u
           ELSE row[u] # None
        /\ edit' = [edit EXCEPT ![t] = [op |-> op, up |-> u, key |-> key, under |-> Sealed(key)]]
        /\ mishaps' = IF key # NoKey /\ job["command"].op # "none"
                      THEN mishaps \cup {"overlap"} ELSE mishaps
  BY DEF Ask
<1> DEFINE e == [op |-> op, up |-> u, key |-> key, under |-> Sealed(key)]
<1>3. e \in Edits
  BY <1>1 DEF Edits
<1>4. e.op = op /\ e.up = u /\ e.key = key /\ e.under = Sealed(key)
  OBVIOUS
<1>5. edit' = [edit EXCEPT ![t] = e]
  BY <1>2
<1>6. key # NoKey /\ job["command"].op # "none" => "overlap" \in mishaps'
  BY <1>2
<1> HIDE DEF e
<1> QED BY <1>2, <1>3, <1>4, <1>5, <1>6

LEMMA AskTypes ==
  ASSUME TypeOK, NEW t \in Admins, Ask(t)
  PROVE  TypeOK'
<1>1. edit' \in [Tasks -> Edits \cup {None}]
  BY AskEdit DEF TypeOK
<1>2. mishaps' \in SUBSET {"torn", "overlap", "init", "blank", "env", "weak"}
  BY DEF Ask, TypeOK
<1> QED BY <1>1, <1>2, Bounds DEF Ask, TypeOK, tables, settings, caches, reloads

LEMMA EditedType ==
  ASSUME NEW e \in Edits, NEW r \in Rows
  PROVE  Edited(e, r) \in Rows \cup {None}
<1>1. CASE e.op = "create"
  BY <1>1 DEF Edited, Edits, Rows
<1>2. CASE e.op = "update"
  BY <1>2 DEF Edited, Edits, Rows
<1>3. CASE e.op = "status"
  BY <1>3 DEF Edited, Edits, Rows
<1>4. CASE e.op = "delete"
  BY <1>4 DEF Edited, Edits, Rows
<1> QED BY <1>1, <1>2, <1>3, <1>4 DEF Edits

LEMMA CreatedType ==
  ASSUME NEW e \in Edits, e.op = "create", NEW r
  PROVE  Edited(e, r) \in Rows
BY DEF Edited, Edits, Rows

\* Handlers run while the service is up, the service's own migration before its
\* first reload, and this before it is up.
Started ==
  /\ \A t \in Admins : pc[t] = "write" => edit[t] # None
  /\ \A t \in Admins : edit[t] # None => pc[t] = "write"
  /\ stage # "up" => \A t \in Admins : pc[t] = "idle"
  /\ stage # "load" => pc[Main] = "idle"
  /\ job["service"].op = IF stage = "boot" THEN "migrate" ELSE "none"
  /\ stage # "boot" => job["service"].left = NoRows

LEMMA WriteTypes ==
  ASSUME TypeOK, Started, NEW t \in Admins, Write(t) \/ WriteFails(t)
  PROVE  TypeOK'
<1> USE DEF TypeOK, settings, caches, reloads, counters, tables
<1>1. CASE WriteFails(t)
  BY <1>1 DEF WriteFails
<1>2. CASE Write(t)
  <2>1. edit[t] \in Edits /\ t \in Tasks
    BY <1>2 DEF Started, Write, Tasks
  <2>2. edit[t].up \in Upstreams /\ edit[t].key \in Keys \cup {NoKey}
    BY <2>1 DEF Edits
  <2>3. edit[t].op = "create" \/ row[edit[t].up] # None =>
          Edited(edit[t], row[edit[t].up]) \in Rows \cup {None}
    <3>1. CASE edit[t].op = "create"
      BY <2>1, <3>1, CreatedType
    <3>2. CASE row[edit[t].up] # None
      BY <2>1, <2>2, <3>2, EditedType
    <3> QED BY <3>1, <3>2
  <2>4. row' \in [Upstreams -> Rows \cup {None}]
    BY <1>2, <2>2, <2>3 DEF Write
  <2>5. given' \in [Upstreams -> Keys \cup {NoKey, None}]
    BY <1>2, <2>2 DEF Write
  <2>6. pc' \in [Tasks -> {"idle", "write"} \cup Reload] /\ edit' \in [Tasks -> Edits \cup {None}]
    BY <1>2 DEF Write, Reload
  <2> QED BY <1>2, <2>4, <2>5, <2>6 DEF Write
<1> QED BY <1>1, <1>2

LEMMA OpenedType ==
  ASSUME NEW r \in Rows
  PROVE  Opened(r) \in Keys \cup {NoKey}
BY DEF Opened, Rows

LEMMA ReloadTypes ==
  ASSUME TypeOK, NEW t \in Tasks,
         \/ Fetch(t) \/ FetchFails(t) \/ Decrypt(t) \/ Clear(t)
         \/ Fill(t) \/ Unlist(t) \/ List(t)
  PROVE  TypeOK'
<1> USE DEF TypeOK, settings, caches, reloads, counters, tables
<1>1. CASE Fetch(t)
  <2>1. snap' \in [Tasks -> [Upstreams -> Rows \cup {None}]]
    BY <1>1 DEF Fetch
  <2>2. crossed' \in [Tasks -> BOOLEAN]
    BY <1>1 DEF Fetch
  <2> QED BY <1>1, <2>1, <2>2 DEF Fetch, Reload
<1>2. CASE FetchFails(t)
  <2>1. crossed' \in [Tasks -> BOOLEAN]
    BY <1>2 DEF FetchFails
  <2> QED BY <1>2, <2>1 DEF FetchFails
<1>3. CASE Decrypt(t)
  <2>1. PICK u \in Present(snap[t]) :
          /\ entry' = [entry EXCEPT ![t][u] = Opened(snap[t][u])]
          /\ snap' = [snap EXCEPT ![t][u] = None]
    BY <1>3 DEF Decrypt
  <2>2. u \in Upstreams /\ snap[t][u] \in Rows
    BY <2>1 DEF Present
  <2>3. Opened(snap[t][u]) \in Keys \cup {NoKey}
    BY <2>2, OpenedType
  <2> QED BY <1>3, <2>1, <2>2, <2>3 DEF Decrypt
<1>4. CASE Clear(t)
  BY <1>4 DEF Clear, NoRows, Reload
<1>5. CASE Fill(t)
  BY <1>5 DEF Fill, Reload
<1>6. CASE Unlist(t)
  BY <1>6 DEF Unlist, Reload
<1>7. CASE List(t)
  <2>1. listed' \in SUBSET Upstreams
    BY <1>7 DEF List, Present
  <2>2. entry' \in [Tasks -> [Upstreams -> Keys \cup {NoKey, None}]]
    BY <1>7 DEF List, NoRows
  <2> QED BY <1>7, <2>1, <2>2 DEF List
<1> QED BY <1>1, <1>2, <1>3, <1>4, <1>5, <1>6, <1>7

LEMMA SelectType ==
  ASSUME TypeOK
  PROVE  Select \in [Upstreams -> Rows \cup {None}]
BY DEF TypeOK, Select

\* A secret, or nothing.
LEMMA ConvertedType ==
  ASSUME TypeOK, NEW w \in Workers, NEW r \in Rows
  PROVE  Converted(w, r) \in Secrets \cup {None}
<1>1. <<"upstream", job[w].gen>> \in Secrets
  BY DEF TypeOK, Secrets, Jobs
<1> QED BY <1>1, InForceType DEF Converted

LEMMA Begun ==
  ASSUME NEW j \in Jobs, NEW rows \in [Upstreams -> Rows \cup {None}]
  PROVE  [j EXCEPT !.op = "migrate", !.left = rows] \in Jobs
BY DEF Jobs

LEMMA TurnedType ==
  ASSUME NEW j \in Jobs, NEW u \in Upstreams, NEW b \in BOOLEAN
  PROVE  Turned(j, u, b) \in Jobs
<1> DEFINE left == [j.left EXCEPT ![u] = None]
<1>1. left \in [Upstreams -> Rows \cup {None}]
  BY DEF Jobs
<1>2. (IF b THEN TRUE ELSE j.wrote) \in BOOLEAN
  BY DEF Jobs
<1> HIDE DEF left
<1>3. ASSUME NEW c \in BOOLEAN
      PROVE  [j EXCEPT !.left = left, !.wrote = c] \in Jobs
  BY <1>1 DEF Jobs
<1> QED BY <1>2, <1>3 DEF Turned, left

LEMMA ConvertTypes ==
  ASSUME TypeOK, NEW w \in Workers, Convert(w)
  PROVE  TypeOK'
<1> USE DEF TypeOK, settings, caches, reloads, counters, tables
<1>1. PICK u \in Present(job[w].left) :
        /\ row' = IF Converted(w, job[w].left[u]) # None /\ row[u] # None
                  THEN [row EXCEPT ![u].key = job[w].left[u].key,
                                   ![u].under = Converted(w, job[w].left[u])] ELSE row
        /\ job' = [job EXCEPT ![w] =
                     Turned(@, u, Converted(w, job[w].left[u]) # None)]
  BY DEF Convert
<1> DEFINE r == job[w].left[u]
<1>2. u \in Upstreams /\ r \in Rows
  BY <1>1 DEF Present, Jobs
<1>3. Converted(w, r) \in Secrets \cup {None}
  BY <1>2, ConvertedType
<1>4. row' \in [Upstreams -> Rows \cup {None}]
  BY <1>1, <1>2, <1>3 DEF Rows
<1>5. job' \in [Workers -> Jobs]
  <2>1. Turned(job[w], u, Converted(w, r) # None) \in Jobs
    BY <1>2, TurnedType DEF Jobs
  <2> QED BY <1>1, <2>1
<1> QED BY <1>4, <1>5 DEF Convert

LEMMA NoJobType ==
  ASSUME TypeOK
  PROVE  NoJob \in Jobs
BY Bounds DEF Jobs, NoJob, NoRows, MaxGen

LEMMA NewGen ==
  ASSUME TypeOK, \/ commands < MaxCommands \/ boots < MaxBoots
  PROVE  /\ gen + 1 \in 0 .. (2 + boots + commands) /\ gen + 1 \in 0 .. MaxGen
         /\ <<"jwt", gen + 1>> \in Secrets /\ <<"upstream", gen + 1>> \in Secrets
<1>1. /\ gen + 1 \in 0 .. (2 + boots + commands) /\ gen + 1 \in 0 .. MaxGen
  BY Bounds DEF TypeOK, MaxGen
<1> QED BY <1>1 DEF Secrets

LEMMA CommandTypes ==
  ASSUME TypeOK, Abort \/ Migrate \/ Rotate \/ Finish \/ Initialize
  PROVE  TypeOK'
<1> USE Bounds DEF TypeOK, settings, caches, reloads, counters, tables
<1>1. CASE Abort
  BY <1>1, NoJobType DEF Abort
<1>2. CASE Migrate
  <2>1. job' = [job EXCEPT !["command"] = [@ EXCEPT !.op = "migrate", !.left = Select]]
    BY <1>2 DEF Migrate
  <2>2. job' \in [Workers -> Jobs]
    BY <2>1, SelectType, Begun
  <2>3. mishaps' \in SUBSET {"torn", "overlap", "init", "blank", "env", "weak"}
    BY <1>2 DEF Migrate
  <2> QED BY <1>2, <2>2, <2>3 DEF Migrate, Command
<1>3. CASE Rotate
  <2>1. gen + 1 \in 0 .. (2 + boots + commands) /\ gen + 1 \in 0 .. MaxGen
    BY <1>3, NewGen DEF Rotate, Command
  <2>2. [op |-> "rotate", left |-> Select, gen |-> gen + 1, wrote |-> FALSE,
         old |-> IF cfg.upstream # None THEN cfg.upstream ELSE cfg.jwt]
           \in Jobs
    BY <2>1, SelectType DEF Jobs, Configs
  <2>3. job' \in [Workers -> Jobs]
    BY <1>3, <2>2 DEF Rotate
  <2>4. mishaps' \in SUBSET {"torn", "overlap", "init", "blank", "env", "weak"}
    BY <1>3 DEF Rotate, Overlap
  <2>5. crossed' \in [Tasks -> BOOLEAN] /\ hazy' \in BOOLEAN
    BY <1>3 DEF Rotate
  <2>6. gen' \in 0 .. (1 + boots' + commands') /\ commands' \in 0 .. MaxCommands
    BY <1>3, <2>1 DEF Rotate, Command
  <2> QED BY <1>3, <2>3, <2>4, <2>5, <2>6 DEF Rotate
<1>4. CASE Finish
  <2>1. <<"jwt", job["command"].gen>> \in Secrets /\ <<"upstream", job["command"].gen>> \in Secrets
    BY DEF Secrets, Workers, Jobs
  <2>2. cfg' \in Configs
    BY <1>4, <2>1 DEF Finish, Configs
  <2>3. mishaps' \in SUBSET {"torn", "overlap", "init", "blank", "env", "weak"}
    BY <1>4 DEF Finish
  <2> QED BY <1>4, <2>2, <2>3, NoJobType DEF Finish
<1>5. CASE Initialize
  <2>1. cfg' \in Configs
    BY <1>5, NewGen DEF Initialize, Command, Configs
  <2>2. gen' \in 0 .. (1 + boots' + commands') /\ commands' \in 0 .. MaxCommands
    BY <1>5, NewGen DEF Initialize, Command
  <2>3. mishaps' \in SUBSET {"torn", "overlap", "init", "blank", "env", "weak"}
    BY <1>5 DEF Initialize, Overlap
  <2> QED BY <1>5, <2>1, <2>2, <2>3 DEF Initialize
<1> QED BY <1>1, <1>2, <1>3, <1>4, <1>5

LEMMA ServiceTypes ==
  ASSUME TypeOK, Boot \/ Load \/ Stop
  PROVE  TypeOK'
<1> USE Bounds DEF TypeOK, settings, caches, reloads, counters, tables
<1>1. CASE Boot
  <2>1. /\ gen + 1 \in 0 .. (2 + boots + commands)
        /\ <<"jwt", gen + 1>> \in Secrets /\ <<"upstream", gen + 1>> \in Secrets
    BY <1>1, NewGen DEF Boot
  <2>6. \/ UNCHANGED <<cfg, gen>>
        \/ /\ gen' = gen + 1
           /\ cfg' = [jwt |-> <<"jwt", gen + 1>>,
                      upstream |-> IF cfg.upstream = None THEN <<"upstream", gen + 1>>
                                   ELSE cfg.upstream]
    BY <1>1 DEF Boot
  <2>7. cfg' \in Configs
    <3>1. ASSUME NEW secret \in Secrets,
                 cfg' = [jwt |-> <<"jwt", gen + 1>>,
                         upstream |-> IF cfg.upstream = None THEN secret ELSE cfg.upstream]
          PROVE  cfg' \in Configs
      BY <2>1, <3>1 DEF Configs
    <3>2. CASE UNCHANGED <<cfg, gen>>
      BY <3>2
    <3> QED BY <2>1, <2>6, <3>1, <3>2
  <2>8. gen' \in 0 .. (2 + boots + commands)
    BY <2>1, <2>6
  <2>2. job' = [job EXCEPT !["service"] = [@ EXCEPT !.op = "migrate", !.left = Select]]
    BY <1>1 DEF Boot
  <2>3. job' \in [Workers -> Jobs]
    BY <2>2, SelectType, Begun
  <2>4. mishaps' \in SUBSET {"torn", "overlap", "init", "blank", "env", "weak"}
    BY <1>1 DEF Boot
  <2>5. boots' = boots + 1 /\ boots' \in 0 .. MaxBoots
    BY <1>1 DEF Boot
  <2> QED BY <1>1, <2>3, <2>4, <2>5, <2>7, <2>8 DEF Boot
<1>2. CASE Load
  BY <1>2, NoJobType DEF Load, Reload
<1>3. CASE Stop
  BY <1>3, NoJobType DEF Stop, NoRows
<1> QED BY <1>1, <1>2, <1>3

LEMMA TypeStep ==
  ASSUME TypeOK, Started, [Next]_vars
  PROVE  TypeOK'
<1>1. CASE UNCHANGED vars
  BY <1>1 DEF vars, TypeOK
<1>2. CASE Next
  BY <1>2, AskTypes, WriteTypes, ReloadTypes, ConvertTypes, CommandTypes, ServiceTypes DEF Next
<1> QED BY <1>1, <1>2

LEMMA StartedStep ==
  ASSUME TypeOK, Started, [Next]_vars
  PROVE  Started'
<1> USE UpstreamsAssumption DEF TypeOK, Started, Tasks, Workers
<1>1. CASE UNCHANGED vars
  BY <1>1 DEF vars
<1>2. ASSUME NEW t \in Admins, Ask(t)
      PROVE  Started'
  <2>1. PICK e \in Edits : edit' = [edit EXCEPT ![t] = e]
    BY <1>2, AskEdit
  <2>2. pc' = [pc EXCEPT ![t] = "write"] /\ stage = "up" /\ stage' = "up" /\ job' = job
    BY <1>2 DEF Ask
  <2> QED BY <2>1, <2>2
<1>3. ASSUME NEW t \in Admins, Write(t) \/ WriteFails(t)
      PROVE  Started'
  <2>1. /\ edit' = [edit EXCEPT ![t] = None] /\ pc[t] = "write"
        /\ stage' = stage /\ job' = job
        /\ \/ pc' = [pc EXCEPT ![t] = "idle"]
           \/ pc' = [pc EXCEPT ![t] = "fetch"]
    BY <1>3 DEF Write, WriteFails
  <2> QED BY <2>1
<1>4. ASSUME NEW t \in Tasks,
             \/ Fetch(t) \/ FetchFails(t) \/ Decrypt(t) \/ Clear(t) \/ Fill(t) \/ Unlist(t)
      PROVE  Started'
  <2>1. /\ UNCHANGED <<edit, stage, job>> /\ pc[t] \in Reload
        /\ \E l \in Reload \cup {"idle"} : pc' = [pc EXCEPT ![t] = l]
    BY <1>4 DEF Fetch, FetchFails, Decrypt, Clear, Fill, Unlist, Reload
  <2> QED BY <2>1 DEF Reload
<1>5. ASSUME NEW t \in Tasks, List(t)
      PROVE  Started'
  <2>1. /\ UNCHANGED <<edit, job>> /\ pc[t] = "list" /\ pc' = [pc EXCEPT ![t] = "idle"]
        /\ stage' = IF t = Main THEN "up" ELSE stage
    BY <1>5 DEF List
  <2> QED BY <2>1
<1>6. ASSUME NEW w \in Workers, Convert(w)
      PROVE  Started'
  <2>1. PICK u \in Present(job[w].left), b \in BOOLEAN : job' = [job EXCEPT ![w] = Turned(@, u, b)]
    BY <1>6 DEF Convert
  <2>2. UNCHANGED <<edit, stage, pc>>
    BY <1>6 DEF Convert
  <2>3. Turned(job[w], u, b).op = job[w].op
    BY DEF Turned, Jobs
  <2>4. w = "service" => stage = "boot"
    BY <2>1 DEF Present, NoRows
  <2> QED BY <2>1, <2>2, <2>3, <2>4
<1>7. CASE Abort \/ Migrate \/ Rotate \/ Finish \/ Initialize
  <2>1. job'["service"] = job["service"] /\ UNCHANGED <<edit, stage, pc>>
    BY <1>7 DEF Abort, Migrate, Rotate, Finish, Initialize
  <2> QED BY <2>1
<1>8. CASE Boot
  <2>1. /\ UNCHANGED <<edit, pc>> /\ stage = "down" /\ stage' = "boot"
        /\ job' = [job EXCEPT !["service"] = [@ EXCEPT !.op = "migrate", !.left = Select]]
    BY <1>8 DEF Boot
  <2>2. job'["service"].op = "migrate"
    BY <2>1 DEF Jobs
  <2> QED BY <2>1, <2>2
<1>9. CASE Load
  BY <1>9 DEF Load, NoJob, NoRows
<1>10. CASE Stop
  BY <1>10 DEF Stop, NoJob, NoRows
<1> QED BY <1>1, <1>2, <1>3, <1>4, <1>5, <1>6, <1>7, <1>8, <1>9, <1>10 DEF Next

LEMMA InitStarted == Init => Started
BY DEF Init, Started, NoJob, NoRows, Tasks, Workers

\* All variables keep their types; a key or a secret that a task has read may be
\* out of date, but is never without a form.
THEOREM TypeCorrect == Spec => [](TypeOK /\ Started)
<1>1. Init => TypeOK /\ Started
  BY InitTypes, InitStarted
<1>2. (TypeOK /\ Started) /\ [Next]_vars => (TypeOK /\ Started)'
  BY TypeStep, StartedStep
<1> QED BY <1>1, <1>2, PTL DEF Spec

-----------------------------------------------------------------------------
(* No plaintext keys. *)

\* A request holds its key encrypted; a row with a plaintext key is there only
\* while the service is down, or among those its migration has still to turn to.
Sealing ==
  /\ \A t \in Admins : edit[t] # None /\ edit[t].key # NoKey => edit[t].under # Plain
  /\ \A u \in Upstreams :
       row[u] # None /\ row[u].under = Plain /\ row[u].key # NoKey =>
         /\ stage \in {"down", "boot"}
         /\ stage = "boot" => /\ job["service"].left[u] # None
                              /\ job["service"].left[u].under = Plain

LEMMA InitSealing == Init => Sealing
BY DEF Init, Sealing, Tasks

LEMMA AskSealing ==
  ASSUME TypeOK, Started, Sealing, NEW t \in Admins, Ask(t)
  PROVE  Sealing'
<1>1. PICK e \in Edits : edit' = [edit EXCEPT ![t] = e] /\ e.under = Sealed(e.key)
  BY AskEdit
<1>2. e.key # NoKey => e.under # Plain
  BY <1>1, InForceType, UpstreamsAssumption DEF Sealed
<1>3. UNCHANGED <<row, stage, job>>
  BY DEF Ask, tables
<1>4. edit \in [Tasks -> Edits \cup {None}]
  BY DEF TypeOK
<1> QED BY <1>1, <1>2, <1>3, <1>4 DEF Sealing, Tasks

LEMMA WriteSealing ==
  ASSUME TypeOK, Started, Sealing, NEW t \in Admins, Write(t) \/ WriteFails(t)
  PROVE  Sealing'
<1>1. edit' = [edit EXCEPT ![t] = None] /\ UNCHANGED <<stage, job>>
  BY DEF Write, WriteFails
<1>2. edit[t] \in Edits /\ stage = "up"
  BY DEF TypeOK, Started, Write, WriteFails, Tasks
<1>3. ASSUME NEW u \in Upstreams, row'[u] # None, row'[u].under = Plain
      PROVE  row'[u].key = NoKey
  <2>1. CASE row'[u] = row[u]
    BY <1>2, <1>3, <2>1 DEF Sealing
  <2>2. CASE row'[u] # row[u]
    <3>1. Write(t) /\ row' = [row EXCEPT ![edit[t].up] = Edited(edit[t], @)]
      BY <2>2 DEF Write, WriteFails, tables
    <3>2. u = edit[t].up /\ row'[u] = Edited(edit[t], row[u])
      BY <2>2, <3>1, <1>2 DEF TypeOK, Edits
    <3>3. edit[t].op = "create" \/ row[u] # None
      BY <2>2, <3>1, <3>2 DEF Write
    <3>4. row[u] \in Rows \cup {None}
      BY DEF TypeOK
    <3>5. row[u] # None /\ row[u].under = Plain => row[u].key = NoKey
      BY <1>2 DEF Sealing
    <3>6. edit[t].key # NoKey => edit[t].under # Plain
      BY <1>2, UpstreamsAssumption DEF Sealing
    <3>7. CASE edit[t].op = "create"
      BY <3>2, <3>6, <3>7, <1>3 DEF Edited
    <3>8. CASE row[u] # None
      <4> DEFINE r == row[u]
                 e == edit[t]
      <4>1. r \in Rows /\ e \in Edits
        BY <3>4, <3>8, <1>2
      <4>2. row'[u] = Edited(e, r) /\ (e.key # NoKey => e.under # Plain)
               /\ (r.under = Plain => r.key = NoKey)
        BY <3>2, <3>5, <3>6, <3>8
      <4> HIDE DEF r, e
      <4> QED BY <4>1, <4>2, <1>3 DEF Edited, Rows, Edits
    <3> QED BY <3>3, <3>7, <3>8
  <2> QED BY <2>1, <2>2
<1>4. edit \in [Tasks -> Edits \cup {None}]
  BY DEF TypeOK
<1> QED BY <1>1, <1>3, <1>4 DEF Sealing, Tasks

\* What Convert leaves of rows and jobs.
LEMMA ConvertShape ==
  ASSUME TypeOK, NEW w \in Workers, Convert(w)
  PROVE  \E u \in Present(job[w].left), new \in Secrets \cup {None} :
           /\ new = Converted(w, job[w].left[u])
           /\ job[w].left[u] \in Rows
           /\ \A v \in Upstreams \ {u} : row'[v] = row[v]
           /\ new = None \/ row[u] = None => row'[u] = row[u]
           /\ new # None /\ row[u] # None =>
                /\ row'[u] # None
                /\ row'[u].key = job[w].left[u].key /\ row'[u].under = new
           /\ job'[w].left = [job[w].left EXCEPT ![u] = None]
           /\ job'[w].wrote = (job[w].wrote \/ new # None)
           /\ job'[w].op = job[w].op /\ job'[w].old = job[w].old /\ job'[w].gen = job[w].gen
           /\ \A o \in Workers \ {w} : job'[o] = job[o]
<1>1. PICK u \in Present(job[w].left) :
        /\ row' = IF Converted(w, job[w].left[u]) # None /\ row[u] # None
                  THEN [row EXCEPT ![u].key = job[w].left[u].key,
                                   ![u].under = Converted(w, job[w].left[u])] ELSE row
        /\ job' = [job EXCEPT ![w] =
                     Turned(@, u, Converted(w, job[w].left[u]) # None)]
  BY DEF Convert
<1>2. u \in Upstreams /\ job[w].left[u] \in Rows /\ job[w] \in Jobs
  BY <1>1 DEF Present, Jobs, TypeOK
<1>3. PICK new \in Secrets \cup {None} : new = Converted(w, job[w].left[u])
  BY <1>2, ConvertedType
<1>4. PICK r : r = job[w].left[u]
  OBVIOUS
<1>5. row' = IF new # None /\ row[u] # None
             THEN [row EXCEPT ![u] = [@ EXCEPT !.key = r.key, !.under = new]] ELSE row
  BY <1>1, <1>3, <1>4
<1>6. row \in [Upstreams -> Rows \cup {None}] /\ r \in Rows
  BY <1>2, <1>4 DEF TypeOK
<1>7. /\ \A v \in Upstreams \ {u} : row'[v] = row[v]
      /\ new = None \/ row[u] = None => row'[u] = row[u]
  BY <1>2, <1>5, <1>6
<1>8. ASSUME new # None, row[u] # None
      PROVE  row'[u] # None /\ row'[u].key = r.key /\ row'[u].under = new
  <2>1. row[u] \in Rows /\ row'[u] = [row[u] EXCEPT !.key = r.key, !.under = new]
    BY <1>2, <1>5, <1>6, <1>8
  <2>2. [row[u] EXCEPT !.key = r.key, !.under = new] \in Rows
    BY <2>1, <1>6, <1>8 DEF Rows
  <2>3. row'[u] # None
    BY <2>1, <2>2, UpstreamsAssumption
  <2> QED BY <2>1, <2>3 DEF Rows
<1>9. PICK b \in BOOLEAN : b = (new # None)
  OBVIOUS
<1>10. job' = [job EXCEPT ![w] = Turned(@, u, b)] /\ job \in [Workers -> Jobs]
  BY <1>1, <1>3, <1>9 DEF TypeOK
<1>11. PICK j \in Jobs : j = job[w]
  BY <1>2
<1>12. job'[w] = Turned(j, u, b) /\ \A o \in Workers \ {w} : job'[o] = job[o]
  BY <1>10, <1>11
<1>13. /\ Turned(j, u, b).left = [j.left EXCEPT ![u] = None]
       /\ Turned(j, u, b).op = j.op /\ Turned(j, u, b).old = j.old
       /\ Turned(j, u, b).gen = j.gen
       /\ Turned(j, u, b).wrote = IF b THEN TRUE ELSE j.wrote
  BY <1>11 DEF Turned, Jobs
<1>14. (IF b THEN TRUE ELSE j.wrote) = (j.wrote \/ new # None)
  BY <1>9, <1>11 DEF Jobs
<1>15. /\ job'[w].left = [job[w].left EXCEPT ![u] = None]
       /\ job'[w].op = job[w].op /\ job'[w].old = job[w].old /\ job'[w].gen = job[w].gen
  BY <1>11, <1>12, <1>13
<1>16. job'[w].wrote = (job[w].wrote \/ new # None)
  BY <1>11, <1>12, <1>13, <1>14
<1>17. \A o \in Workers \ {w} : job'[o] = job[o]
  BY <1>12
<1>18. new # None /\ row[u] # None =>
         row'[u] # None /\ row'[u].key = job[w].left[u].key /\ row'[u].under = new
  BY <1>4, <1>8
<1>19. u \in Present(job[w].left) /\ job[w].left[u] \in Rows
  BY <1>1, <1>2
<1> QED BY ONLY <1>3, <1>7, <1>15, <1>16, <1>17, <1>18, <1>19

LEMMA ConvertSealing ==
  ASSUME TypeOK, Started, Sealing, NEW w \in Workers, Convert(w)
  PROVE  Sealing'
<1>1. PICK u \in Present(job[w].left), new \in Secrets \cup {None} :
        /\ new = Converted(w, job[w].left[u])
        /\ \A v \in Upstreams \ {u} : row'[v] = row[v]
        /\ new = None \/ row[u] = None => row'[u] = row[u]
        /\ new # None /\ row[u] # None => row'[u] # None /\ row'[u].under = new
        /\ job'[w].left = [job[w].left EXCEPT ![u] = None]
        /\ \A o \in Workers \ {w} : job'[o] = job[o]
  BY ConvertShape
<1>2. u \in Upstreams /\ job[w].left[u] # None /\ new # Plain /\ UNCHANGED <<edit, stage>>
  BY <1>1, UpstreamsAssumption DEF Present, Convert
<1>3. job[w].left \in [Upstreams -> Rows \cup {None}]
  BY DEF TypeOK, Jobs
<1>4. \A v \in Upstreams \ {u} : job'["service"].left[v] = job["service"].left[v]
  BY <1>1, <1>2, <1>3 DEF Workers
<1>5. \A t \in Admins : edit'[t] # None /\ edit'[t].key # NoKey => edit'[t].under # Plain
  BY <1>2 DEF Sealing
<1>6. ASSUME NEW v \in Upstreams,
             row'[v] # None, row'[v].under = Plain, row'[v].key # NoKey
      PROVE  /\ stage' \in {"down", "boot"}
             /\ stage' = "boot" => /\ job'["service"].left[v] # None
                                   /\ job'["service"].left[v].under = Plain
  <2>1. row'[v] = row[v]
    BY <1>1, <1>2, <1>6
  <2>2. /\ stage \in {"down", "boot"}
        /\ stage = "boot" => /\ job["service"].left[v] # None
                             /\ job["service"].left[v].under = Plain
    BY <1>6, <2>1 DEF Sealing
  <2>3. CASE v # u
    BY <1>2, <1>4, <2>2, <2>3
  <2>4. CASE v = u /\ w # "service"
    BY <1>1, <1>2, <2>2, <2>4 DEF Workers
  <2>5. CASE v = u /\ w = "service"
    <3>1. stage # "boot"
      <4> SUFFICES ASSUME stage = "boot" PROVE FALSE
        OBVIOUS
      <4>1. Converted(w, job[w].left[u]) = InForce(cfg)
        BY <2>2, <2>5 DEF Started, Converted
      <4>2. new # None
        BY <1>1, <4>1, InForceType, UpstreamsAssumption
      <4> QED BY <1>1, <1>2, <1>6, <2>1, <2>5, <4>2
    <3> QED BY <1>2, <2>2, <3>1
  <2> QED BY <2>3, <2>4, <2>5
<1> QED BY <1>5, <1>6 DEF Sealing

LEMMA SealingStep ==
  ASSUME TypeOK, Started, Sealing, [Next]_vars
  PROVE  Sealing'
<1>1. CASE UNCHANGED vars
  BY <1>1 DEF vars, Sealing
<1>2. ASSUME NEW t \in Admins, Ask(t) \/ Write(t) \/ WriteFails(t)
      PROVE  Sealing'
  BY <1>2, AskSealing, WriteSealing
<1>3. ASSUME NEW t \in Tasks,
             \/ Fetch(t) \/ FetchFails(t) \/ Decrypt(t) \/ Clear(t) \/ Fill(t) \/ Unlist(t)
      PROVE  Sealing'
  <2>1. UNCHANGED <<row, edit, stage, job>>
    BY <1>3 DEF Fetch, FetchFails, Decrypt, Clear, Fill, Unlist, tables
  <2> QED BY <2>1 DEF Sealing
<1>4. ASSUME NEW t \in Tasks, List(t)
      PROVE  Sealing'
  <2>1. UNCHANGED <<row, edit, job>> /\ stage' = IF t = Main THEN "up" ELSE stage
    BY <1>4 DEF List, tables
  <2>2. t = Main => stage = "load"
    BY <1>4 DEF List, Started
  <2> QED BY <2>1, <2>2 DEF Sealing
<1>5. ASSUME NEW w \in Workers, Convert(w)
      PROVE  Sealing'
  BY <1>5, ConvertSealing
<1>6. CASE Abort \/ Migrate \/ Rotate \/ Finish \/ Initialize
  <2>1. UNCHANGED <<row, edit, stage>> /\ job'["service"] = job["service"]
    BY <1>6 DEF Abort, Migrate, Rotate, Finish, Initialize, tables, TypeOK, Workers
  <2> QED BY <2>1 DEF Sealing
<1>7. CASE Boot
  <2>1. /\ UNCHANGED <<row, edit>> /\ stage' = "boot"
        /\ job' = [job EXCEPT !["service"] = [@ EXCEPT !.op = "migrate", !.left = Select]]
    BY <1>7 DEF Boot, tables
  <2>2. job'["service"].left = Select
    BY <2>1 DEF TypeOK, Jobs, Workers
  <2>3. \A u \in Upstreams : row[u] # None /\ row[u].key # NoKey => Select[u] = row[u]
    BY DEF Select
  <2> QED BY <2>1, <2>2, <2>3 DEF Sealing
<1>8. CASE Load
  <2>1. UNCHANGED <<row, edit>> /\ stage = "boot" /\ stage' = "load"
    BY <1>8 DEF Load, tables
  <2>2. \A u \in Upstreams : job["service"].left[u] = None
    BY <1>8 DEF Load, Present
  <2> QED BY <2>1, <2>2 DEF Sealing
<1>9. CASE Stop
  <2>1. UNCHANGED row /\ stage' = "down" /\ \A t \in Admins : edit'[t] = None
    BY <1>9 DEF Stop, tables, Tasks
  <2> QED BY <2>1 DEF Sealing
<1> QED BY <1>1, <1>2, <1>3, <1>4, <1>5, <1>6, <1>7, <1>8, <1>9 DEF Next

\* A service that is loading or up has no plaintext key in its database: its
\* migration has turned to every one, commands write encrypted keys only, and
\* its handlers encrypt a key before they write it.
THEOREM NoPlaintextSafe == Spec => []NoPlaintext
<1>1. Init => TypeOK /\ Started /\ Sealing
  BY InitTypes, InitStarted, InitSealing
<1>2. (TypeOK /\ Started /\ Sealing) /\ [Next]_vars => (TypeOK /\ Started /\ Sealing)'
  BY TypeStep, StartedStep, SealingStep
<1>3. TypeOK /\ Started /\ Sealing => NoPlaintext
  BY DEF Sealing, NoPlaintext, Encrypted
<1> QED BY <1>1, <1>2, <1>3, PTL DEF Spec

-----------------------------------------------------------------------------
(* Keys are kept, as long as no mishap happens. *)

Stored(u) == row[u] # None /\ row[u].key # NoKey

\* A request with a key has it under the secret in force, and none is there
\* while a command runs; a request that creates has its upstream for itself.
Pending ==
  \A t \in Admins : edit[t] # None =>
    /\ edit[t].key # NoKey => /\ edit[t].op \in {"create", "update"}
                              /\ edit[t].under = InForce(cfg)
                              /\ job["command"].op = "none"
    /\ edit[t].op = "create" =>
         /\ given[edit[t].up] = None
         /\ \A o \in Admins \ {t} : edit[o] # None => edit[o].up # edit[t].up

\* The row, and what a migration or rotation has read of it, has the key that
\* was given last.
Current ==
  \A u \in Upstreams :
    /\ row[u] # None => row[u].key = given[u]
    /\ \A w \in Workers : job[w].left[u] # None => job[w].left[u].key = given[u]

\* Before a rotation has written anything, and without one, no key is under a
\* secret that is not in force.
Openable ==
  ~ Rotating \/ ~ job["command"].wrote =>
    \A u \in Upstreams : Stored(u) => row[u].under \in {Plain, InForce(cfg)}

\* A rotation knows the secret in force, and has still to turn to every key
\* that is not under its new one; unless the environment has the secret, or it
\* takes blanks for one.
Rotation ==
  Rotating =>
    /\ stage # "boot"
    /\ env = None =>
         /\ job["command"].old \in {Blank, InForce(cfg)}
         /\ job["command"].old = Blank => ~ job["command"].wrote
         /\ job["command"].old # Blank => \A u \in Upstreams : Stored(u) =>
              \/ row[u].under \in {Plain, <<"upstream", job["command"].gen>>}
              \/ /\ job["command"].left[u] # None
                 /\ job["command"].left[u].under = job["command"].old

Kept ==
  /\ job["command"].op = "none" => job["command"].left = NoRows
  /\ mishaps = {} => Pending /\ Current /\ Openable /\ Rotation

LEMMA InitKept == Init => Kept
<1> SUFFICES ASSUME Init PROVE Kept
  OBVIOUS
<1>1. /\ \A u \in Upstreams : row[u] # None => row[u].key = given[u]
      /\ \A u \in Upstreams : row[u] # None => row[u].under \in {Plain, InForce(cfg)}
  <2>1. row \in [Upstreams -> [key : Keys, under : {Plain, InForce(cfg)}, active : {TRUE}]
                             \cup {None}]
    BY DEF Init
  <2> QED BY <2>1 DEF Init
<1>2. job["command"] = NoJob /\ job["service"] = NoJob
  BY DEF Init, Workers
<1>3. \A t \in Admins : edit[t] = None
  BY DEF Init, Tasks
<1> QED BY <1>1, <1>2, <1>3 DEF Kept, Pending, Current, Openable, Rotation, Rotating, NoJob,
     NoRows, Workers, Stored

\* A row that is there has had a key given, if only the empty one.
LEMMA Given ==
  ASSUME TypeOK, Current, NEW u \in Upstreams, row[u] # None
  PROVE  given[u] # None
<1>1. row[u] \in Rows /\ row[u].key = given[u]
  BY DEF TypeOK, Current
<1> QED BY <1>1, UpstreamsAssumption DEF Rows

LEMMA AskKept ==
  ASSUME TypeOK, Started, Kept, NEW t \in Admins, Ask(t)
  PROVE  Kept'
<1>1. PICK e \in Edits :
        /\ edit' = [edit EXCEPT ![t] = e]
        /\ e.under = Sealed(e.key)
        /\ e.key # NoKey => e.op \in {"create", "update"}
        /\ e.op = "create" =>
             given[e.up] = None /\ \A o \in Admins : edit[o] # None => edit[o].up # e.up
        /\ e.op # "create" => row[e.up] # None
        /\ e.key # NoKey /\ job["command"].op # "none" => "overlap" \in mishaps'
  BY AskEdit
<1>2. UNCHANGED <<row, given, cfg, env, stage, job>> /\ (mishaps' = {} => mishaps = {})
  BY DEF Ask, tables, settings
<1>3. ASSUME mishaps' = {}
      PROVE  (Pending /\ Current /\ Openable /\ Rotation)'
  <2>1. Pending /\ Current /\ Openable /\ Rotation
    BY <1>2, <1>3 DEF Kept
  <2>2. e.key # NoKey => /\ e.op \in {"create", "update"}
                         /\ e.under = InForce(cfg) /\ job["command"].op = "none"
    BY <1>1, <1>3 DEF Sealed
  <2>3. e.up \in Upstreams /\ (e.op # "create" => given[e.up] # None)
    BY <1>1, <2>1, Given DEF Edits
  <2>4. InForce(cfg)' = InForce(cfg)
    BY <1>2 DEF InForce
  <2>5. \A o \in Admins : edit'[o] = IF o = t THEN e ELSE edit[o]
    BY <1>1 DEF TypeOK, Tasks
  <2>6. ASSUME NEW o \in Admins, edit'[o] # None
        PROVE  /\ edit'[o].key # NoKey => /\ edit'[o].op \in {"create", "update"}
                                          /\ edit'[o].under = InForce(cfg)
                                          /\ job["command"].op = "none"
               /\ edit'[o].op = "create" =>
                    /\ given[edit'[o].up] = None
                    /\ \A p \in Admins \ {o} : edit'[p] # None => edit'[p].up # edit'[o].up
    <3>1. CASE o = t
      BY <1>1, <2>2, <2>5, <3>1
    <3>2. CASE o # t
      <4>1. edit'[o] = edit[o] /\ edit[o] # None
        BY <2>5, <2>6, <3>2
      <4>2. /\ edit[o].key # NoKey => /\ edit[o].op \in {"create", "update"}
                                      /\ edit[o].under = InForce(cfg)
                                      /\ job["command"].op = "none"
            /\ edit[o].op = "create" =>
                 /\ given[edit[o].up] = None
                 /\ \A p \in Admins \ {o} : edit[p] # None => edit[p].up # edit[o].up
        BY <2>1, <4>1 DEF Pending
      <4>3. edit[o].op = "create" => e.up # edit[o].up
        BY <1>1, <2>3, <4>1, <4>2
      <4> QED BY <2>5, <4>1, <4>2, <4>3
    <3> QED BY <3>1, <3>2
  <2>7. Pending'
    BY <1>2, <2>4, <2>6 DEF Pending
  <2> QED BY <1>2, <2>1, <2>4, <2>7 DEF Current, Openable, Rotation, Rotating, Stored
<1> QED BY <1>2, <1>3 DEF Kept

\* A request's statement changes one row and, where it has a key, what is given.
LEMMA WriteShape ==
  ASSUME TypeOK, Started, NEW t \in Admins, Write(t) \/ WriteFails(t)
  PROVE  \E e \in Edits :
           /\ e = edit[t] /\ edit' = [edit EXCEPT ![t] = None] /\ stage = "up"
           /\ UNCHANGED <<cfg, env, stage, job, mishaps>>
           /\ \A u \in Upstreams \ {e.up} : row'[u] = row[u] /\ given'[u] = given[u]
           /\ \/ row'[e.up] = row[e.up] /\ given'[e.up] = given[e.up]
              \/ /\ e.op = "create" /\ given'[e.up] = e.key
                 /\ row'[e.up].key = e.key /\ row'[e.up].under = e.under
              \/ /\ e.op # "create" /\ row[e.up] # None
                 /\ \/ row'[e.up] = None /\ e.op = "delete"
                    \/ /\ e.op = "update" /\ e.key # NoKey
                       /\ row'[e.up].key = e.key /\ row'[e.up].under = e.under
                    \/ /\ e.op # "update" \/ e.key = NoKey
                       /\ row'[e.up].key = row[e.up].key /\ row'[e.up].under = row[e.up].under
                 /\ given'[e.up] = IF e.key # NoKey THEN e.key ELSE given[e.up]
<1>1. PICK e \in Edits : e = edit[t]
  BY DEF TypeOK, Started, Write, WriteFails, Tasks
<1>2. /\ edit' = [edit EXCEPT ![t] = None] /\ stage = "up"
      /\ UNCHANGED <<cfg, env, stage, job, mishaps>>
  BY DEF Write, WriteFails, Started, settings
<1>3. e.up \in Upstreams /\ row[e.up] \in Rows \cup {None}
  BY DEF Edits, TypeOK
<1>4. CASE UNCHANGED <<row, given>>
  BY <1>1, <1>2, <1>4
<1>5. CASE ~ UNCHANGED <<row, given>>
  <2>1. /\ e.op = "create" \/ row[e.up] # None
        /\ row' = [row EXCEPT ![e.up] = Edited(e, @)]
        /\ given' = IF e.op = "create" \/ e.key # NoKey
                    THEN [given EXCEPT ![e.up] = e.key] ELSE given
    BY <1>1, <1>5 DEF Write, WriteFails, tables
  <2>2. /\ row'[e.up] = Edited(e, row[e.up])
        /\ given'[e.up] = IF e.op = "create" \/ e.key # NoKey THEN e.key ELSE given[e.up]
        /\ \A u \in Upstreams \ {e.up} : row'[u] = row[u] /\ given'[u] = given[u]
    BY <1>3, <2>1 DEF TypeOK
  <2>3. CASE e.op = "create"
    BY <1>1, <1>2, <2>2, <2>3 DEF Edited
  <2>4. CASE e.op # "create"
    <3>1. PICK r \in Rows : r = row[e.up]
      BY <1>3, <2>1, <2>4
    <3>2. /\ e.op \in {"update", "status", "delete"}
          /\ row'[e.up] = Edited(e, r)
      BY <2>2, <2>4, <3>1 DEF Edits
    <3>6. \/ row'[e.up] = None /\ e.op = "delete"
          \/ /\ e.op = "update" /\ e.key # NoKey
             /\ row'[e.up].key = e.key /\ row'[e.up].under = e.under
          \/ /\ e.op # "update" \/ e.key = NoKey
             /\ row'[e.up].key = r.key /\ row'[e.up].under = r.under
      BY <3>2 DEF Edited, Rows
    <3> QED BY <1>1, <1>2, <2>1, <2>2, <2>4, <3>1, <3>6
  <2> QED BY <2>3, <2>4
<1> QED BY <1>4, <1>5

LEMMA WriteKept ==
  ASSUME TypeOK, Started, Kept, NEW t \in Admins, Write(t) \/ WriteFails(t)
  PROVE  Kept'
<1>1. PICK e \in Edits :
        /\ e = edit[t] /\ edit' = [edit EXCEPT ![t] = None] /\ stage = "up"
        /\ UNCHANGED <<cfg, env, stage, job, mishaps>>
        /\ \A u \in Upstreams \ {e.up} : row'[u] = row[u] /\ given'[u] = given[u]
        /\ \/ row'[e.up] = row[e.up] /\ given'[e.up] = given[e.up]
           \/ /\ e.op = "create" /\ given'[e.up] = e.key
              /\ row'[e.up].key = e.key /\ row'[e.up].under = e.under
           \/ /\ e.op # "create" /\ row[e.up] # None
              /\ \/ row'[e.up] = None /\ e.op = "delete"
                 \/ /\ e.op = "update" /\ e.key # NoKey
                    /\ row'[e.up].key = e.key /\ row'[e.up].under = e.under
                 \/ /\ e.op # "update" \/ e.key = NoKey
                    /\ row'[e.up].key = row[e.up].key /\ row'[e.up].under = row[e.up].under
              /\ given'[e.up] = IF e.key # NoKey THEN e.key ELSE given[e.up]
  BY WriteShape
<1>2. ASSUME mishaps' = {}
      PROVE  (Pending /\ Current /\ Openable /\ Rotation)'
  <2>1. Pending /\ Current /\ Openable /\ Rotation
    BY <1>1, <1>2 DEF Kept
  <2>2. /\ e.key # NoKey => /\ e.op \in {"create", "update"}
                            /\ e.under = InForce(cfg) /\ job["command"].op = "none"
        /\ e.op = "create" =>
             /\ given[e.up] = None
             /\ \A o \in Admins \ {t} : edit[o] # None => edit[o].up # e.up
    BY <1>1, <2>1, UpstreamsAssumption DEF Pending
  <2>3. e.up \in Upstreams /\ InForce(cfg)' = InForce(cfg)
    BY <1>1 DEF Edits, InForce
  <2>4. e.op # "create" /\ row[e.up] # None => given[e.up] # None
    BY <2>1, <2>3, Given
  <2>5. Pending'
    <3>1. ASSUME NEW o \in Admins, edit'[o] # None
          PROVE  /\ o # t /\ edit'[o] = edit[o]
                 /\ edit[o].op = "create" => given'[edit[o].up] = None
      <4>1. o # t /\ edit'[o] = edit[o]
        BY <1>1, <3>1 DEF TypeOK, Tasks
      <4>2. edit[o].op = "create" =>
              given[edit[o].up] = None /\ edit[o].up # e.up /\ edit[o].up \in Upstreams
        <5>1. edit[o] \in Edits
          BY <3>1, <4>1 DEF TypeOK, Tasks
        <5>2. edit[t] # None
          BY <1>1, UpstreamsAssumption
        <5> QED BY <1>1, <2>1, <3>1, <4>1, <5>1, <5>2 DEF Pending, Edits
      <4> QED BY <1>1, <4>1, <4>2
    <3>2. \A o \in Admins : edit'[o] # None => edit'[o] = edit[o] /\ edit[o] # None
      BY <3>1
    <3> QED BY <1>1, <2>1, <2>3, <3>1, <3>2 DEF Pending
  <2>6. Current'
    <3>1. ASSUME NEW u \in Upstreams
          PROVE  /\ row'[u] # None => row'[u].key = given'[u]
                 /\ \A w \in Workers : job[w].left[u] # None => job[w].left[u].key = given'[u]
      <4>1. CASE row'[u] = row[u] /\ given'[u] = given[u]
        BY <2>1, <4>1 DEF Current
      <4>2. CASE ~ (row'[u] = row[u] /\ given'[u] = given[u])
        <5>1. u = e.up
          BY <1>1, <4>2
        <5>2. row[u] # None => row[u].key = given[u]
          BY <2>1 DEF Current
        <5>3. row'[u] # None => row'[u].key = given'[u]
          BY <1>1, <2>2, <4>2, <5>1, <5>2
        <5>4. given'[u] = given[u] \/ given[u] = None
                \/ (job["command"].left = NoRows /\ job["service"].left = NoRows)
          BY <1>1, <2>2, <4>2, <5>1 DEF Kept, Started
        <5>5. ASSUME NEW w \in Workers, job[w].left[u] # None
              PROVE  job[w].left[u].key = given'[u]
          <6>1. job[w].left[u] \in Rows /\ job[w].left[u].key = given[u]
            BY <2>1, <5>5 DEF Current, TypeOK, Jobs
          <6>2. given[u] # None
            BY <6>1, UpstreamsAssumption DEF Rows
          <6>3. ~ (job["command"].left = NoRows /\ job["service"].left = NoRows)
            BY <5>5 DEF Workers, NoRows
          <6> QED BY <5>4, <6>1, <6>2, <6>3
        <5> QED BY <5>3, <5>5
      <4> QED BY <4>1, <4>2
    <3> QED BY <1>1, <3>1 DEF Current
  \* A stored row either was one already or is under the secret in force.
  <2>7. ASSUME NEW u \in Upstreams, Stored(u)'
        PROVE  \/ Stored(u) /\ row'[u].under = row[u].under
               \/ row'[u].under = InForce(cfg) /\ job["command"].op = "none"
    <3>1. row'[u] # None /\ row'[u].key # NoKey
      BY <2>7 DEF Stored
    <3>2. CASE row'[u] = row[u]
      BY <3>1, <3>2 DEF Stored
    <3>3. CASE row'[u] # row[u]
      <4>1. u = e.up
        BY <1>1, <3>3
      <4> QED BY <1>1, <2>2, <3>1, <3>3, <4>1 DEF Stored
    <3> QED BY <3>2, <3>3
  <2>8. Openable' /\ Rotation'
    BY <1>1, <2>1, <2>3, <2>7 DEF Openable, Rotation, Rotating
  <2> QED BY <2>5, <2>6, <2>8
<1> QED BY <1>1, <1>2 DEF Kept

\* The service migrates only while it boots, and no rotation is under way then.
LEMMA ConvertKept ==
  ASSUME TypeOK, Started, Kept, NEW w \in Workers, Convert(w)
  PROVE  Kept'
<1>1. PICK u \in Present(job[w].left), new \in Secrets \cup {None} :
        /\ new = Converted(w, job[w].left[u])
        /\ job[w].left[u] \in Rows
        /\ \A v \in Upstreams \ {u} : row'[v] = row[v]
        /\ new = None \/ row[u] = None => row'[u] = row[u]
        /\ new # None /\ row[u] # None =>
             /\ row'[u] # None
             /\ row'[u].key = job[w].left[u].key /\ row'[u].under = new
        /\ job'[w].left = [job[w].left EXCEPT ![u] = None]
        /\ job'[w].wrote = (job[w].wrote \/ new # None)
        /\ job'[w].op = job[w].op /\ job'[w].old = job[w].old /\ job'[w].gen = job[w].gen
        /\ \A o \in Workers \ {w} : job'[o] = job[o]
  BY ConvertShape
<1>2. /\ u \in Upstreams /\ job[w].left[u] # None
      /\ UNCHANGED <<given, cfg, env, edit, stage, mishaps>>
  BY <1>1 DEF Present, Convert, settings
<1>3. job[w].left \in [Upstreams -> Rows \cup {None}]
  BY DEF TypeOK, Jobs
<1>4. job'["command"].op = job["command"].op /\ InForce(cfg)' = InForce(cfg)
  BY <1>1, <1>2 DEF Workers, InForce
<1>5. job["command"].op = "none" => w = "service" /\ job'["command"].left = NoRows
  BY <1>1, <1>2 DEF Kept, Workers, NoRows
<1>6. ASSUME mishaps' = {}
      PROVE  (Pending /\ Current /\ Openable /\ Rotation)'
  <2>1. Pending /\ Current /\ Openable /\ Rotation
    BY <1>2, <1>6 DEF Kept
  <2>2. Pending'
    BY <1>2, <1>4, <2>1 DEF Pending
  <2>3. Current'
    <3>1. ASSUME NEW v \in Upstreams
          PROVE  row'[v] # None => row'[v].key = given[v]
      <4>1. CASE row'[v] = row[v]
        BY <2>1, <4>1 DEF Current
      <4>2. CASE row'[v] # row[v]
        BY <1>1, <1>2, <2>1, <4>2 DEF Current
      <4> QED BY <4>1, <4>2
    <3>2. ASSUME NEW v \in Upstreams, NEW o \in Workers, job'[o].left[v] # None
          PROVE  job'[o].left[v].key = given[v]
      <4>1. job'[o].left[v] = job[o].left[v]
        BY <1>1, <1>2, <1>3, <3>2
      <4> QED BY <2>1, <3>2, <4>1 DEF Current
    <3> QED BY <1>2, <3>1, <3>2 DEF Current
  <2>4. Rotating => w = "command" /\ Rotating'
    <3>1. Rotating => stage # "boot"
      BY <2>1 DEF Rotation
    <3>2. w = "service" => stage = "boot"
      BY <1>2 DEF Started, NoRows
    <3> QED BY <1>4, <3>1, <3>2 DEF Workers, Rotating
  <2>5. Rotating' => Rotating
    BY <1>4 DEF Rotating
  <2>6. ASSUME NEW v \in Upstreams, Stored(v)'
        PROVE  \/ Stored(v) /\ row'[v] = row[v]
               \/ /\ new # None /\ v = u /\ row'[v].under = new
    <3>1. row'[v] # None /\ row'[v].key # NoKey
      BY <2>6 DEF Stored
    <3> QED BY <1>1, <3>1 DEF Stored
  <2>7. Openable'
    <3> SUFFICES ASSUME ~ Rotating' \/ ~ job'["command"].wrote,
                        NEW v \in Upstreams, Stored(v)'
                 PROVE  row'[v].under \in {Plain, InForce(cfg)}
      BY <1>4 DEF Openable
    <3>1. CASE Rotating
      <4>1. ~ job["command"].wrote /\ new = None
        BY <1>1, <2>4, <3>1
      <4> QED BY <2>1, <2>6, <4>1 DEF Openable
    <3>2. CASE ~ Rotating
      <4>1. new \in {InForce(cfg), None}
        <5>1. w = "service" => job[w].op # "rotate"
          BY DEF Started
        <5>2. job[w].op # "rotate"
          BY <3>2, <5>1 DEF Rotating, Workers
        <5> QED BY <1>1, <5>2 DEF Converted
      <4> QED BY <2>1, <2>6, <3>2, <4>1 DEF Openable
    <3> QED BY <3>1, <3>2
  <2>8. Rotation'
    <3> SUFFICES ASSUME Rotating' PROVE Rotation'
      BY DEF Rotation
    <3>1. Rotating /\ w = "command" /\ stage' # "boot"
      BY <1>2, <2>1, <2>4, <2>5 DEF Rotation
    <3>2. CASE env # None
      BY <1>2, <3>1, <3>2 DEF Rotation
    <3>3. CASE env = None
      <4> DEFINE old == job["command"].old
                 next == <<"upstream", job["command"].gen>>
      <4>1. /\ old \in {Blank, InForce(cfg)}
            /\ old = Blank => ~ job["command"].wrote
            /\ old # Blank => \A v \in Upstreams : Stored(v) =>
                 \/ row[v].under \in {Plain, next}
                 \/ /\ job["command"].left[v] # None
                    /\ job["command"].left[v].under = old
        BY <2>1, <3>1, <3>3 DEF Rotation
      <4>2. new = IF job[w].left[u].under = old THEN next ELSE None
        BY <1>1, <3>1 DEF Converted, Rotating
      <4>3. job[w].left[u].under # Blank
        <5>1. job[w].left[u].under \in Secrets \cup {Plain}
          BY <1>1 DEF Rows
        <5> QED BY <5>1, UpstreamsAssumption
      <4>4. old = Blank => ~ job'["command"].wrote
        BY <1>1, <3>1, <4>1, <4>2, <4>3
      <4>5. ASSUME old # Blank, NEW v \in Upstreams, Stored(v)'
            PROVE  \/ row'[v].under \in {Plain, next}
                   \/ /\ job'["command"].left[v] # None
                      /\ job'["command"].left[v].under = old
        <5>1. CASE row'[v].under = next
          BY <5>1
        <5>2. CASE row'[v].under # next
          <6>1. Stored(v) /\ row'[v] = row[v]
            BY <2>6, <4>2, <4>5, <5>2
          <6>2. \/ row[v].under = Plain
                \/ /\ job["command"].left[v] # None
                   /\ job["command"].left[v].under = old
            BY <4>1, <4>5, <5>2, <6>1
          <6>3. CASE v # u
            BY <1>1, <1>2, <1>3, <3>1, <6>1, <6>2, <6>3
          <6>4. CASE v = u
            <7>1. next # None
              BY UpstreamsAssumption DEF TypeOK, Jobs, Secrets, Workers
            <7>2. row[v].under = Plain
              <8>1. CASE job["command"].left[v].under = old
                <9>1. new = next
                  BY <3>1, <4>2, <6>4, <8>1
                <9> QED BY <1>1, <5>2, <6>1, <6>4, <7>1, <9>1 DEF Stored
              <8> QED BY <6>2, <8>1
            <7> QED BY <6>1, <7>2
          <6> QED BY <6>3, <6>4
        <5> QED BY <5>1, <5>2
      <4>6. job'["command"].old = old /\ <<"upstream", job'["command"].gen>> = next
        BY <1>1, <3>1
      <4> HIDE DEF old, next
      <4> QED BY <1>2, <1>4, <3>1, <3>3, <4>1, <4>4, <4>5, <4>6 DEF Rotation
    <3> QED BY <3>2, <3>3
  <2> QED BY <2>2, <2>3, <2>7, <2>8
<1> QED BY <1>2, <1>4, <1>5, <1>6 DEF Kept

\* What a migration or rotation begins with.
LEMMA Selected ==
  ASSUME TypeOK, Current, NEW u \in Upstreams
  PROVE  /\ Select[u] # None => Select[u].key = given[u]
         /\ Stored(u) => Select[u] = row[u] /\ Select[u] # None
BY DEF Select, Current, Stored

LEMMA CommandKept ==
  ASSUME TypeOK, Started, Kept, Abort \/ Migrate \/ Rotate \/ Initialize
  PROVE  Kept'
<1>1. UNCHANGED <<row, given, env, edit, stage, pc>> /\ job'["service"] = job["service"]
  BY DEF Abort, Migrate, Rotate, Initialize, tables, settings, TypeOK, Workers
<1>2. mishaps \subseteq mishaps'
  BY DEF Abort, Migrate, Rotate, Initialize
<1>3. job'["command"].op = "none" => job'["command"].left = NoRows
  <2>1. CASE Abort
    BY <2>1 DEF Abort, NoJob, TypeOK, Workers
  <2>2. CASE Migrate
    <3>1. job' = [job EXCEPT !["command"] = [@ EXCEPT !.op = "migrate", !.left = Select]]
      BY <2>2 DEF Migrate
    <3>2. job'["command"].op = "migrate"
      BY <3>1 DEF TypeOK, Workers, Jobs
    <3> QED BY <3>2
  <2>4. CASE Rotate
    <3>1. job'["command"].op = "rotate"
      BY <2>4 DEF Rotate, TypeOK, Workers
    <3> QED BY <3>1
  <2>3. CASE Initialize
    BY <2>3 DEF Initialize, Kept
  <2> QED BY <2>1, <2>2, <2>3, <2>4
<1> SUFFICES ASSUME mishaps' = {}
             PROVE  (Pending /\ Current /\ Openable /\ Rotation)'
  BY <1>3 DEF Kept
<1>4. Pending /\ Current /\ Openable /\ Rotation
  BY <1>2 DEF Kept
<1>5. ASSUME Editing = {}, NEW t \in Admins, edit[t] # None
      PROVE  edit[t].key = NoKey
  BY <1>5 DEF Started, Editing, Tasks
<1>6. ASSUME \A w \in Workers : job'[w].left \in {job[w].left, Select, NoRows}
      PROVE  Current'
  <2>1. ASSUME NEW u \in Upstreams, NEW w \in Workers, job'[w].left[u] # None
        PROVE  job'[w].left[u].key = given[u]
    <3>1. job'[w].left \in {job[w].left, Select}
      BY <1>6, <2>1 DEF NoRows
    <3> QED BY <1>4, <2>1, <3>1, Selected DEF Current
  <2> QED BY <1>1, <1>4, <2>1 DEF Current
<1>7. CASE Abort
  <2>1. job'["command"] = NoJob /\ InForce(cfg)' = InForce(cfg)
    BY <1>7 DEF Abort, TypeOK, Workers, settings, InForce
  <2>2. ~ Rotating \/ ~ job["command"].wrote
    BY <1>7 DEF Abort
  <2>3. Current'
    BY <1>1, <1>6, <2>1 DEF NoJob, Workers
  <2>4. Pending'
    BY <1>1, <1>4, <2>1 DEF Pending, NoJob
  <2> QED BY <1>1, <1>4, <2>1, <2>2, <2>3, <2>4 DEF Openable, Rotation, Rotating, NoJob, Stored
<1>8. CASE Migrate
  <2>1. /\ job'["command"].op = "migrate" /\ job'["command"].left = Select
        /\ InForce(cfg)' = InForce(cfg) /\ Editing = {} /\ ~ Rotating
    BY <1>8 DEF Migrate, Command, TypeOK, Workers, Jobs, settings, InForce, Rotating
  <2>2. Current'
    BY <1>1, <1>6, <2>1 DEF Workers
  <2>3. Pending'
    BY <1>1, <1>4, <1>5, <2>1 DEF Pending
  <2> QED BY <1>1, <1>4, <2>1, <2>2, <2>3 DEF Openable, Rotation, Rotating, Stored
<1>9. CASE Rotate
  <2>1. /\ job'["command"] =
             [op |-> "rotate", left |-> Select, gen |-> gen + 1, wrote |-> FALSE,
              old |-> IF cfg.upstream # None THEN cfg.upstream ELSE cfg.jwt]
        /\ InForce(cfg)' = InForce(cfg) /\ Editing = {} /\ stage # "boot" /\ ~ Rotating
    BY <1>9 DEF Rotate, Command, TypeOK, Workers, settings, InForce, Rotating, Overlap
  <2>2. Current'
    BY <1>1, <1>6, <2>1 DEF Workers
  <2>3. Pending'
    BY <1>1, <1>4, <1>5, <2>1 DEF Pending
  <2>4. ASSUME NEW u \in Upstreams, Stored(u)
        PROVE  row[u].under \in {Plain, InForce(cfg)} /\ Select[u] = row[u] /\ Select[u] # None
    BY <1>4, <2>1, <2>4, Selected DEF Openable
  <2>5. Openable'
    BY <1>1, <2>1, <2>4 DEF Openable, Stored
  <2>6. env = None => job'["command"].old \in {Blank, InForce(cfg)}
    BY <2>1 DEF InForce
  <2>7. ASSUME env = None, job'["command"].old # Blank, NEW u \in Upstreams, Stored(u)
        PROVE  \/ row[u].under = Plain
               \/ /\ job'["command"].left[u] # None
                  /\ job'["command"].left[u].under = job'["command"].old
    BY <2>1, <2>4, <2>6, <2>7
  <2>8. Rotation'
    BY <1>1, <2>1, <2>6, <2>7 DEF Rotation, Stored
  <2> QED BY <2>2, <2>3, <2>5, <2>8
<1>10. CASE Initialize
  <2>1. /\ job' = job /\ Editing = {} /\ ~ Rotating /\ (env = None => Encrypted = {})
    BY <1>10 DEF Initialize, Command, Rotating, Overlap
  <2>2. env # None => InForce(cfg)' = InForce(cfg)
    BY <1>1 DEF InForce
  <2>3. Current'
    BY <1>6, <2>1
  <2>4. Pending'
    BY <1>1, <1>4, <1>5, <2>1 DEF Pending
  <2>5. ASSUME NEW u \in Upstreams, Stored(u)
        PROVE  row[u].under \in {Plain, InForce(cfg)'}
    BY <1>4, <2>1, <2>2, <2>5 DEF Openable, Encrypted, Stored
  <2>6. Openable'
    BY <1>1, <2>5 DEF Openable, Stored
  <2> QED BY <2>1, <2>3, <2>4, <2>6 DEF Rotation, Rotating
<1> QED BY <1>7, <1>8, <1>9, <1>10

LEMMA FinishKept ==
  ASSUME TypeOK, Started, Kept, Finish
  PROVE  Kept'
<1>1. /\ UNCHANGED <<row, given, env, edit, stage>> /\ job'["service"] = job["service"]
      /\ job'["command"] = NoJob /\ mishaps \subseteq mishaps'
      /\ Present(job["command"].left) = {}
  BY DEF Finish, tables, TypeOK, Workers
<1> SUFFICES ASSUME mishaps' = {}
             PROVE  (Pending /\ Current /\ Openable /\ Rotation)'
  BY <1>1 DEF Kept, NoJob
<1>2. Pending /\ Current /\ Openable /\ Rotation
  BY <1>1 DEF Kept
<1>3. Current'
  BY <1>1, <1>2 DEF Current, NoJob, NoRows, Workers
<1>4. Pending'
  <2>1. job["command"].op # "none"
    BY DEF Finish
  <2> QED BY <1>1, <1>2, <2>1 DEF Pending
<1>5. ASSUME NEW u \in Upstreams, Stored(u)
      PROVE  row[u].under \in {Plain, InForce(cfg)'}
  <2>1. CASE ~ Rotating
    BY <1>1, <1>2, <1>5, <2>1 DEF Finish, Openable, InForce
  <2>2. CASE Rotating /\ env # None
    BY <1>1, <1>2, <1>5, <2>2 DEF Finish, Openable, InForce
  <2>3. CASE Rotating /\ env = None
    <3>1. CASE job["command"].old = Blank
      BY <1>5, <2>3, <3>1 DEF Finish, Encrypted, Stored
    <3>2. CASE job["command"].old # Blank
      <4>1. row[u].under \in {Plain, <<"upstream", job["command"].gen>>}
        BY <1>1, <1>2, <1>5, <2>3, <3>2 DEF Rotation, Present
      <4>2. cfg'.upstream = <<"upstream", job["command"].gen>>
        BY <2>3 DEF Finish
      <4>3. <<"upstream", job["command"].gen>> \notin {None, Blank}
        BY UpstreamsAssumption DEF TypeOK, Jobs, Secrets, Workers
      <4>4. env' = None
        BY <1>1, <2>3
      <4>5. InForce(cfg)' = cfg'.upstream
        BY <4>2, <4>3, <4>4 DEF InForce
      <4> QED BY <4>1, <4>2, <4>5
    <3> QED BY <3>1, <3>2
  <2> QED BY <2>1, <2>2, <2>3
<1>6. Openable'
  BY <1>1, <1>5 DEF Openable, Stored
<1>7. Rotation'
  BY <1>1 DEF Rotation, Rotating, NoJob
<1> QED BY <1>3, <1>4, <1>6, <1>7

LEMMA BootKept ==
  ASSUME TypeOK, Started, Kept, Boot
  PROVE  Kept'
<1>1. /\ UNCHANGED <<row, given, env, edit>> /\ job'["command"] = job["command"]
      /\ job'["service"].left = Select /\ mishaps \subseteq mishaps' /\ stage = "down"
  BY DEF Boot, tables, TypeOK, Workers, Jobs
<1> SUFFICES ASSUME mishaps' = {}
             PROVE  (Pending /\ Current /\ Openable /\ Rotation)'
  BY <1>1 DEF Kept
<1>2. Pending /\ Current /\ Openable /\ Rotation
  BY <1>1 DEF Kept
<1>3. \A t \in Admins : edit'[t] = None
  <2>1. \A t \in Admins : pc[t] = "idle"
    BY <1>1 DEF Started
  <2> QED BY <1>1, <2>1 DEF Started
<1>4. Pending'
  BY <1>3 DEF Pending
<1>5. Current'
  <2>1. ASSUME NEW u \in Upstreams, NEW w \in Workers, job'[w].left[u] # None
        PROVE  job'[w].left[u].key = given[u]
    BY <1>1, <1>2, <2>1, Selected DEF Current, Workers
  <2> QED BY <1>1, <1>2, <2>1 DEF Current
<1>6. ~ Rotating /\ ~ Rotating'
  BY <1>1 DEF Boot, Rotating
<1>7. InForce(cfg)' = InForce(cfg') \/ env # None
  BY <1>1 DEF InForce
<1>8. ASSUME NEW u \in Upstreams, Stored(u)
      PROVE  row[u].under \in {Plain, InForce(cfg)'}
  <2>1. InForce(cfg)' = InForce(cfg) \/ Encrypted = {}
    <3>1. mishaps' = {} => InForce(cfg') = InForce(cfg) \/ Encrypted = {}
      BY DEF Boot
    <3>2. InForce(cfg)' = InForce(cfg')
      BY <1>1 DEF InForce
    <3> QED BY <3>1, <3>2
  <2> QED BY <1>2, <1>6, <1>8, <2>1 DEF Openable, Encrypted, Stored
<1>9. Openable' /\ Rotation'
  BY <1>1, <1>6, <1>8 DEF Openable, Rotation, Stored
<1> QED BY <1>4, <1>5, <1>9

LEMMA KeptStep ==
  ASSUME TypeOK, Started, Kept, [Next]_vars
  PROVE  Kept'
<1>1. ASSUME UNCHANGED <<row, given, cfg, env, edit, mishaps>>,
             job'["command"] = job["command"], stage' # "boot" \/ stage' = stage,
             job'["service"].left \in {job["service"].left, NoRows}
      PROVE  Kept'
  <2>1. InForce(cfg)' = InForce(cfg)
    BY <1>1 DEF InForce
  <2>2. Current => Current'
    BY <1>1 DEF Current, Workers, NoRows
  <2>3. Pending => Pending'
    BY <1>1, <2>1 DEF Pending
  <2>4. Openable /\ Rotation => Openable' /\ Rotation'
    BY <1>1, <2>1 DEF Openable, Rotation, Rotating, Stored
  <2> QED BY <1>1, <2>2, <2>3, <2>4 DEF Kept
<1>2. CASE UNCHANGED vars
  BY <1>1, <1>2 DEF vars
<1>3. ASSUME NEW t \in Admins, Ask(t) \/ Write(t) \/ WriteFails(t)
      PROVE  Kept'
  BY <1>3, AskKept, WriteKept
<1>4. ASSUME NEW t \in Tasks,
             \/ Fetch(t) \/ FetchFails(t) \/ Decrypt(t) \/ Clear(t)
             \/ Fill(t) \/ Unlist(t) \/ List(t)
      PROVE  Kept'
  <2>1. /\ UNCHANGED <<row, given, cfg, env, edit, mishaps, job>>
        /\ stage' \in {stage, "up"}
    BY <1>4 DEF Fetch, FetchFails, Decrypt, Clear, Fill, Unlist, List, tables, settings
  <2> QED BY <1>1, <2>1
<1>5. ASSUME NEW w \in Workers, Convert(w)
      PROVE  Kept'
  BY <1>5, ConvertKept
<1>6. CASE Load
  BY <1>1, <1>6 DEF Load, tables, settings, TypeOK, Workers, NoJob
<1>7. CASE Stop
  <2>1. InForce(cfg)' = InForce(cfg) /\ UNCHANGED <<row, given, cfg, env, mishaps>>
    BY <1>7 DEF Stop, tables, settings, InForce
  <2>2. /\ job'["command"] = job["command"] /\ job'["service"].left = NoRows
        /\ stage' = "down" /\ \A t \in Admins : edit'[t] = None
    BY <1>7 DEF Stop, TypeOK, Workers, NoJob, Tasks
  <2>3. Current => Current'
    BY <2>1, <2>2 DEF Current, Workers, NoRows
  <2>4. Openable /\ Rotation => Openable' /\ Rotation'
    BY <2>1, <2>2 DEF Openable, Rotation, Rotating, Stored
  <2> QED BY <2>1, <2>2, <2>3, <2>4 DEF Kept, Pending
<1> QED BY <1>2, <1>3, <1>4, <1>5, <1>6, <1>7, CommandKept, FinishKept, BootKept DEF Next

\* Between commands every stored key can be decrypted and is the one that was
\* given last, unless a mishap has happened: see KeysKept.
THEOREM KeysKeptSafe == Spec => []KeysKept
<1>1. Init => TypeOK /\ Started /\ Kept
  BY InitTypes, InitStarted, InitKept
<1>2. (TypeOK /\ Started /\ Kept) /\ [Next]_vars => (TypeOK /\ Started /\ Kept)'
  BY TypeStep, StartedStep, KeptStep
<1>3. TypeOK /\ Started /\ Kept => KeysKept
  <2> SUFFICES ASSUME TypeOK, Kept, mishaps = {}, job["command"].op = "none",
                      NEW u \in Upstreams, row[u] # None
               PROVE  Opened(row[u]) = given[u]
    BY DEF KeysKept
  <2>1. row[u].key = given[u]
    BY DEF Kept, Current
  <2>2. row[u].key # NoKey => row[u].under \in {Plain, InForce(cfg)}
    BY DEF Kept, Openable, Rotating, Stored
  <2> QED BY <2>1, <2>2 DEF Opened
<1> QED BY <1>1, <1>2, <1>3, PTL DEF Spec

-----------------------------------------------------------------------------
(* The cache agrees with the database. *)

\* t is between the query of its reload and the end of it.
Reading(t) == pc[t] \in Reload \ {"fetch"}
Awaited == \E t \in Tasks : pc[t] = "fetch"

\* The row r that a reload has fetched is still the row of u, unless a migration
\* has encrypted its key since.
Fresh(r, u) ==
  /\ row[u] # None /\ row[u].active
  /\ r.key = row[u].key
  /\ r.key # NoKey => r.under \in {Plain, row[u].under}

\* What t has fetched, and what it has made of it, is what is to be cached.
Underway(t) ==
  /\ pc[t] = "decrypt" => \A u \in Upstreams :
       IF snap[t][u] # None THEN Fresh(snap[t][u], u) /\ entry[t][u] = None
       ELSE entry[t][u] = Visible[u]
  /\ pc[t] # "decrypt" => entry[t] = Visible

\* The maps are as far as t has brought them.
Filled(t) ==
  /\ pc[t] = "fill" => cache = NoRows
  /\ pc[t] \in {"unlist", "list"} => cache = entry[t]
  /\ pc[t] = "list" => listed = {}

\* A reload that nothing has crossed has the maps to itself, and the rows as they
\* are, unless somebody who wrote since is about to fetch.
Alone(t) ==
  /\ ~Rotating
  /\ \A o \in Tasks \ {t} : ~Reading(o)
  /\ Awaited \/ Underway(t)
  /\ Filled(t)

Reloading ==
  /\ \A t \in Tasks : ~Reading(t) => entry[t] = NoRows /\ ~crossed[t]
  /\ \A t \in Tasks : Reading(t) /\ crossed[t] => hazy

Settled ==
  stage = "up" /\ ~hazy /\ (\A t \in Tasks : pc[t] \notin Reload) =>
    cache = Visible /\ listed = Present(cache)

Synced == Settled /\ \A t \in Tasks : Reading(t) /\ ~crossed[t] => Alone(t)

\* A step that is none of a reload, and leaves it what it has fetched.
LEMMA Elsewhere ==
  ASSUME TypeOK, Reloading, Synced,
         UNCHANGED <<snap, entry, cache, listed, crossed, hazy>>,
         \A t \in Tasks : pc'[t] = pc[t] \/ (pc[t] \notin Reload /\ pc'[t] \notin Reload),
         stage' = stage \/ stage' # "up", Rotating' => Rotating, Visible' = Visible,
         \A r \in Rows, u \in Upstreams : ~Rotating /\ Fresh(r, u) => Fresh(r, u)'
  PROVE  Reloading' /\ Synced'
<1>1. \A t \in Tasks : Reading(t)' <=> Reading(t)
  BY DEF Reading
<1>2. Awaited' <=> Awaited
  BY DEF Awaited, Reload
<1>3. Reloading'
  BY <1>1 DEF Reloading
<1>4. Settled'
  <2> SUFFICES ASSUME stage' = "up", ~hazy, \A t \in Tasks : pc'[t] \notin Reload
               PROVE  cache = Visible /\ listed = Present(cache)
    BY DEF Settled, Present
  <2>1. \A t \in Tasks : pc[t] \notin Reload
    OBVIOUS
  <2> QED BY <2>1 DEF Synced, Settled
<1>5. ASSUME NEW t \in Tasks, Reading(t)', ~crossed'[t]
      PROVE  Alone(t)'
  <2>1. Reading(t) /\ Alone(t) /\ pc'[t] = pc[t]
    BY <1>1, <1>5 DEF Synced, Reading
  <2>2. \A u \in Upstreams : snap[t][u] \in Rows \cup {None}
    BY DEF TypeOK
  <2>3. Underway(t) => Underway(t)'
    BY <2>1, <2>2 DEF Underway, Alone
  <2>4. Filled(t)'
    BY <2>1 DEF Filled, Alone
  <2> QED BY <1>1, <1>2, <2>1, <2>3, <2>4 DEF Alone
<1> QED BY <1>3, <1>4, <1>5 DEF Synced

\* While a reload that was crossed runs no other is on its own.
LEMMA Crowd ==
  ASSUME Reloading, Synced, NEW t \in Tasks, Reading(t), crossed[t]
  PROVE  hazy /\ \A o \in Tasks : Reading(o) => crossed[o]
BY DEF Reloading, Synced, Alone

\* A step of a reload that was crossed.
LEMMA CrowdStays ==
  ASSUME TypeOK, Reloading, Synced, NEW t \in Tasks, Reading(t), crossed[t], hazy' = hazy,
         \A o \in Tasks \ {t} : UNCHANGED <<pc[o], entry[o], crossed[o]>>,
         \/ Reading(t)' /\ crossed'[t]
         \/ ~Reading(t)' /\ entry'[t] = NoRows /\ ~crossed'[t]
  PROVE  Reloading' /\ Synced'
<1>1. hazy /\ \A o \in Tasks : Reading(o) => crossed[o]
  BY Crowd
<1>2. \A o \in Tasks \ {t} : Reading(o)' <=> Reading(o)
  BY DEF Reading
<1>3. Reloading'
  BY <1>1, <1>2 DEF Reloading
<1>4. Settled'
  BY <1>1 DEF Settled
<1>5. \A o \in Tasks : Reading(o)' => crossed'[o]
  BY <1>1, <1>2
<1> QED BY <1>3, <1>4, <1>5 DEF Synced

\* A step of a reload on its own.
LEMMA AloneStays ==
  ASSUME TypeOK, Reloading, Synced, NEW t \in Tasks, Reading(t), ~crossed[t],
         \A o \in Tasks \ {t} : UNCHANGED <<pc[o], entry[o], crossed[o]>>,
         Reading(t)', ~crossed'[t], UNCHANGED <<row, given, hazy, job>>,
         Underway(t) => Underway(t)', Filled(t)'
  PROVE  Reloading' /\ Synced'
<1>1. Alone(t)
  BY DEF Synced
<1>2. \A o \in Tasks \ {t} : ~Reading(o)' /\ ~Reading(o)
  BY <1>1 DEF Reading, Alone
<1>3. Reloading'
  BY <1>2 DEF Reloading
<1>4. Settled'
  BY DEF Settled, Reading
<1>5. Awaited => Awaited'
  BY DEF Awaited, Reading
<1>6. Alone(t)'
  BY <1>1, <1>2, <1>5 DEF Alone, Rotating
<1> QED BY <1>2, <1>3, <1>4, <1>6 DEF Synced
LEMMA FetchSynced ==
  ASSUME TypeOK, Started, Reloading, Synced, NEW t \in Tasks, Fetch(t)
  PROVE  Reloading' /\ Synced'
<1> DEFINE active == [u \in Upstreams |-> IF row[u] # None /\ row[u].active THEN row[u] ELSE None]
<1>1. /\ pc[t] = "fetch" /\ pc' = [pc EXCEPT ![t] = "decrypt"]
      /\ snap' = [snap EXCEPT ![t] = active]
      /\ crossed' = [o \in Tasks |-> IF o = t THEN Crossing(t) # {} \/ Rotating
                                     ELSE crossed[o] \/ o \in Crossing(t)]
      /\ hazy' = (hazy \/ crossed'[t])
      /\ UNCHANGED <<row, given, stage, entry, cache, listed, job>>
  BY DEF Fetch, tables, caches
<1>2. pc'[t] = "decrypt" /\ snap'[t] = active /\ \A o \in Tasks \ {t} : pc'[o] = pc[o]
  BY <1>1 DEF TypeOK
<1>3. Reading(t)' /\ ~Reading(t) /\ \A o \in Tasks \ {t} : Reading(o)' <=> Reading(o)
  BY <1>1, <1>2 DEF Reading, Reload
<1>4. Crossing(t) = {o \in Tasks \ {t} : Reading(o)}
  BY DEF Crossing, Reading
<1>5. \A o \in Tasks \ {t} : Reading(o) => crossed'[o] /\ crossed'[t]
  BY <1>1, <1>4
<1>6. \A o \in Tasks \ {t} : ~Reading(o) => crossed'[o] = crossed[o]
  BY <1>1, <1>4 DEF TypeOK
<1>7. Reloading'
  <2>1. \A o \in Tasks : ~Reading(o)' => entry'[o] = NoRows /\ ~crossed'[o]
    BY <1>1, <1>3, <1>6 DEF Reloading
  <2>2. \A o \in Tasks : Reading(o)' /\ crossed'[o] => hazy'
    BY <1>1, <1>3, <1>5
  <2> QED BY <2>1, <2>2 DEF Reloading
<1>8. Settled'
  BY <1>3 DEF Settled, Reading
<1>9. ASSUME ~crossed'[t]
      PROVE  Alone(t)'
  <2>1. ~Rotating' /\ \A o \in Tasks \ {t} : ~Reading(o)'
    BY <1>1, <1>3, <1>5, <1>9 DEF Rotating
  <2>2. entry'[t] = NoRows
    BY <1>1, <1>3 DEF Reloading
  <2>3. Underway(t)'
    <3> SUFFICES ASSUME NEW u \in Upstreams
                 PROVE  IF snap'[t][u] # None THEN Fresh(snap[t][u], u)' /\ entry'[t][u] = None
                        ELSE entry'[t][u] = Visible'[u]
      BY <1>2 DEF Underway
    <3>1. entry'[t][u] = None
      BY <2>2 DEF NoRows
    <3>2. CASE row[u] # None /\ row[u].active
      BY <1>1, <1>2, <3>1, <3>2 DEF Fresh
    <3>3. CASE ~(row[u] # None /\ row[u].active)
      BY <1>1, <1>2, <3>1, <3>3 DEF Visible
    <3> QED BY <3>2, <3>3
  <2>4. Filled(t)'
    BY <1>2 DEF Filled
  <2> QED BY <2>1, <2>3, <2>4 DEF Alone
<1>10. \A o \in Tasks : Reading(o)' /\ ~crossed'[o] => o = t
  BY <1>3, <1>5
<1> QED BY <1>7, <1>8, <1>9, <1>10 DEF Synced

LEMMA FetchFailsSynced ==
  ASSUME TypeOK, Reloading, Synced, NEW t \in Tasks, FetchFails(t)
  PROVE  Reloading' /\ Synced'
<1>1. /\ pc[t] = "fetch" /\ pc' = [pc EXCEPT ![t] = "idle"]
      /\ crossed' = [o \in Tasks |-> crossed[o] \/ o \in Crossing(t)]
      /\ hazy' = TRUE /\ entry' = entry
  BY DEF FetchFails
<1>2. ~Reading(t) /\ \A o \in Tasks : Reading(o)' <=> Reading(o)
  BY <1>1 DEF Reading, Reload, TypeOK
<1>3. \A o \in Tasks : crossed'[o] <=> crossed[o] \/ Reading(o)
  BY <1>1, <1>2 DEF Crossing, Reading
<1>4. Reloading'
  BY <1>1, <1>2, <1>3 DEF Reloading
<1>5. Settled'
  BY <1>1 DEF Settled
<1> QED BY <1>2, <1>3, <1>4, <1>5 DEF Synced

\* A key that was fetched and not given again since is decrypted to the one given.
LEMMA OpenedFresh ==
  ASSUME TypeOK, Current, Openable, ~Rotating, NEW u \in Upstreams, NEW r \in Rows, Fresh(r, u)
  PROVE  Opened(r) = given[u] /\ Visible[u] = given[u]
<1>1. r.key = given[u] /\ row[u].active /\ row[u] # None
  BY DEF Current, Fresh
<1>2. r.key # NoKey => r.under \in {Plain, InForce(cfg)}
  BY DEF Openable, Fresh, Stored
<1> QED BY <1>1, <1>2 DEF Opened, Visible

LEMMA DecryptSynced ==
  ASSUME TypeOK, Reloading, Synced, Current, Openable, NEW t \in Tasks, Decrypt(t)
  PROVE  Reloading' /\ Synced'
<1>1. PICK u \in Present(snap[t]) :
        /\ entry' = [entry EXCEPT ![t][u] = Opened(snap[t][u])]
        /\ snap' = [snap EXCEPT ![t][u] = None]
  BY DEF Decrypt
<1>2. /\ UNCHANGED <<row, given, stage, pc, cache, listed, job, crossed, hazy>>
      /\ pc[t] = "decrypt"
  BY DEF Decrypt, tables, caches
<1>3. u \in Upstreams /\ snap[t][u] \in Rows
  BY <1>1 DEF TypeOK, Present
<1>4. Reading(t) /\ Reading(t)'
  BY <1>2 DEF Reading, Reload
<1>5. \A o \in Tasks \ {t} : UNCHANGED <<pc[o], entry[o], crossed[o]>>
  BY <1>1, <1>2 DEF TypeOK
<1>6. CASE crossed[t]
  BY <1>2, <1>4, <1>5, <1>6, CrowdStays
<1>7. CASE ~crossed[t]
  <2>1. Filled(t)'
    BY <1>2 DEF Filled
  <2>2. ASSUME Underway(t)
        PROVE  Underway(t)'
    <3>1. ~Rotating /\ Fresh(snap[t][u], u)
      BY <1>1, <1>2, <1>3, <1>4, <1>7, <2>2 DEF Synced, Alone, Underway, Present
    <3>2. entry'[t][u] = Visible[u] /\ snap'[t][u] = None
      BY <1>1, <1>3, <3>1, OpenedFresh DEF TypeOK
    <3>3. \A o \in Upstreams \ {u} : entry'[t][o] = entry[t][o] /\ snap'[t][o] = snap[t][o]
      BY <1>1, <1>3 DEF TypeOK
    <3>4. Visible' = Visible
      BY <1>2 DEF Visible
    <3>5. \A o \in Upstreams \ {u} : Fresh(snap[t][o], o) => Fresh(snap[t][o], o)'
      BY <1>2, <3>3 DEF Fresh
    <3> QED BY <1>2, <2>2, <3>2, <3>3, <3>4, <3>5 DEF Underway
  <2> QED BY <1>2, <1>4, <1>5, <1>7, <2>1, <2>2, AloneStays
<1> QED BY <1>6, <1>7

LEMMA MapsSynced ==
  ASSUME TypeOK, Reloading, Synced, NEW t \in Tasks, Clear(t) \/ Fill(t) \/ Unlist(t)
  PROVE  Reloading' /\ Synced'
<1>1. UNCHANGED <<row, given, stage, snap, entry, crossed, hazy, job>>
  BY DEF Clear, Fill, Unlist, tables, reloads
<1>2. /\ pc[t] \in {"decrypt", "fill", "unlist"} /\ pc'[t] \in {"fill", "unlist", "list"}
      /\ \A o \in Tasks \ {t} : pc'[o] = pc[o]
  BY DEF Clear, Fill, Unlist, TypeOK
<1>3. Reading(t) /\ Reading(t)'
  BY <1>2 DEF Reading, Reload
<1>4. CASE crossed[t]
  BY <1>1, <1>2, <1>3, <1>4, CrowdStays
<1>5. CASE ~crossed[t]
  <2>1. Filled(t)
    BY <1>3, <1>5 DEF Synced, Alone
  <2>2. Filled(t)'
    <3>1. CASE Clear(t)
      BY <3>1 DEF Clear, Filled, TypeOK
    <3>2. CASE Fill(t)
      <4>1. cache = NoRows /\ pc'[t] = "unlist"
        BY <2>1, <3>2 DEF Fill, Filled, TypeOK
      <4>2. cache' = [u \in Upstreams |-> entry[t][u]]
        BY <3>2, <4>1 DEF Fill, NoRows
      <4>3. entry[t] = [u \in Upstreams |-> entry[t][u]]
        BY DEF TypeOK
      <4> QED BY <1>1, <4>1, <4>2, <4>3 DEF Filled
    <3>3. CASE Unlist(t)
      BY <1>1, <2>1, <3>3 DEF Unlist, Filled, TypeOK
    <3> QED BY <3>1, <3>2, <3>3
  <2>3. ASSUME Underway(t)
        PROVE  Underway(t)'
    <3>1. Visible' = Visible
      BY <1>1 DEF Visible
    <3>2. CASE pc[t] # "decrypt"
      BY <1>1, <1>2, <2>3, <3>1, <3>2 DEF Underway
    <3>3. CASE pc[t] = "decrypt"
      <4>1. Present(snap[t]) = {}
        BY <3>3 DEF Clear, Fill, Unlist
      <4>2. \A u \in Upstreams : entry[t][u] = Visible[u]
        BY <2>3, <3>3, <4>1 DEF Underway, Present
      <4>3. entry[t] = Visible
        BY <4>2 DEF TypeOK, Visible
      <4> QED BY <1>1, <1>2, <3>1, <4>3 DEF Underway
    <3> QED BY <3>2, <3>3
  <2> QED BY <1>1, <1>2, <1>3, <1>5, <2>2, <2>3, AloneStays
<1> QED BY <1>4, <1>5

LEMMA ListSynced ==
  ASSUME TypeOK, Reloading, Synced, NEW t \in Tasks, List(t)
  PROVE  Reloading' /\ Synced'
<1>1. /\ UNCHANGED <<row, given, cache>> /\ pc[t] = "list"
      /\ listed' = IF Present(entry[t]) = {} THEN listed ELSE Present(entry[t])
      /\ hazy' = (hazy /\ crossed[t])
  BY DEF List, tables
<1>2. /\ pc'[t] = "idle" /\ entry'[t] = NoRows /\ ~crossed'[t]
      /\ \A o \in Tasks \ {t} : UNCHANGED <<pc[o], entry[o], crossed[o]>>
  BY DEF List, TypeOK
<1>3. Reading(t) /\ ~Reading(t)'
  BY <1>1, <1>2 DEF Reading, Reload
<1>4. CASE crossed[t]
  <2>1. hazy' = hazy
    BY <1>1, <1>4 DEF TypeOK
  <2> QED BY <1>2, <1>3, <1>4, <2>1, CrowdStays
<1>5. CASE ~crossed[t]
  <2>1. Alone(t)
    BY <1>3, <1>5 DEF Synced
  <2>2. \A o \in Tasks : ~Reading(o)'
    BY <1>2, <1>3, <2>1 DEF Reading, Alone
  <2>3. Reloading'
    BY <1>2, <1>3, <2>1, <2>2 DEF Reloading, Alone
  <2>4. Settled'
    <3> SUFFICES ASSUME \A o \in Tasks : pc'[o] \notin Reload
                 PROVE  cache' = Visible' /\ listed' = Present(cache')
      BY DEF Settled, Present
    <3>1. ~Awaited
      BY <1>1, <1>2 DEF Awaited, Reload
    <3>2. entry[t] = Visible /\ cache = entry[t] /\ listed = {}
      BY <1>1, <2>1, <3>1 DEF Alone, Underway, Filled
    <3>3. cache' = Visible'
      BY <1>1, <3>2 DEF Visible
    <3>4. listed' = Present(entry[t])
      BY <1>1, <3>2
    <3> QED BY <1>1, <3>2, <3>3, <3>4
  <2> QED BY <2>2, <2>3, <2>4 DEF Synced
<1> QED BY <1>4, <1>5
LEMMA AskSynced ==
  ASSUME TypeOK, Reloading, Synced, NEW t \in Admins, Ask(t) \/ WriteFails(t)
  PROVE  Reloading' /\ Synced'
<1>1. /\ UNCHANGED <<row, given, stage, snap, entry, cache, listed, crossed, hazy, job>>
      /\ \A o \in Tasks : pc'[o] = pc[o] \/ (pc[o] \notin Reload /\ pc'[o] \notin Reload)
  BY DEF Ask, WriteFails, tables, caches, reloads, TypeOK, Tasks, Reload
<1>2. /\ Rotating' <=> Rotating
      /\ Visible' = Visible
      /\ \A r \in Rows, u \in Upstreams : Fresh(r, u) => Fresh(r, u)'
  BY <1>1 DEF Rotating, Visible, Fresh
<1> QED BY <1>1, <1>2, Elsewhere

\* Whoever has changed a row is about to fetch.
LEMMA WriteSynced ==
  ASSUME TypeOK, Reloading, Synced, NEW t \in Admins, Write(t)
  PROVE  Reloading' /\ Synced'
<1>1. /\ UNCHANGED <<stage, snap, entry, cache, listed, crossed, hazy, job>>
      /\ pc[t] = "write" /\ \A o \in Tasks \ {t} : pc'[o] = pc[o]
  BY DEF Write, caches, reloads, TypeOK
<1>2. CASE pc'[t] = "fetch"
  <2>1. Awaited' /\ \A o \in Tasks : Reading(o)' <=> Reading(o)
    BY <1>1, <1>2 DEF Awaited, Reading, Reload, Tasks
  <2>2. Reloading'
    BY <1>1, <2>1 DEF Reloading
  <2>3. Settled'
    BY <1>2 DEF Settled, Reload, Tasks
  <2>4. ASSUME NEW o \in Tasks, Reading(o)', ~crossed'[o]
        PROVE  Alone(o)'
    <3>1. Reading(o) /\ Alone(o) /\ pc'[o] = pc[o]
      BY <1>1, <2>1, <2>4 DEF Synced, Reading, Reload
    <3>2. Filled(o)'
      BY <1>1, <3>1 DEF Filled, Alone
    <3> QED BY <1>1, <2>1, <3>1, <3>2 DEF Alone, Rotating
  <2> QED BY <2>2, <2>3, <2>4 DEF Synced
<1>3. CASE pc'[t] # "fetch"
  <2>1. UNCHANGED <<row, given>> /\ pc'[t] = "idle"
    BY <1>3 DEF Write, TypeOK, Tasks
  <2>2. \A o \in Tasks : pc'[o] = pc[o] \/ (pc[o] \notin Reload /\ pc'[o] \notin Reload)
    BY <1>1, <2>1 DEF Reload
  <2>3. /\ Rotating' <=> Rotating
        /\ Visible' = Visible
        /\ \A r \in Rows, u \in Upstreams : Fresh(r, u) => Fresh(r, u)'
    BY <1>1, <2>1 DEF Rotating, Visible, Fresh
  <2> QED BY <1>1, <2>2, <2>3, Elsewhere
<1> QED BY <1>2, <1>3

\* A migration leaves to a row the key it has, and encrypts it at most.
LEMMA ConvertSynced ==
  ASSUME TypeOK, Started, Reloading, Synced, Current, Openable, NEW w \in Workers, Convert(w)
  PROVE  Reloading' /\ Synced'
<1>1. PICK u \in Present(job[w].left) :
        /\ row' = IF Converted(w, job[w].left[u]) # None /\ row[u] # None
                  THEN [row EXCEPT ![u].key = job[w].left[u].key,
                                   ![u].under = Converted(w, job[w].left[u])] ELSE row
        /\ \E b \in BOOLEAN : job' = [job EXCEPT ![w] = Turned(@, u, b)]
  BY DEF Convert
<1>2. UNCHANGED <<given, stage, pc, snap, entry, cache, listed, crossed, hazy>>
  BY DEF Convert, caches, reloads
<1>3. u \in Upstreams /\ job[w].left[u] \in Rows /\ job[w].left[u].key = given[u]
  BY <1>1 DEF Present, Current, TypeOK, Jobs
<1>4. Rotating' <=> Rotating
  <2>1. PICK b \in BOOLEAN : job' = [job EXCEPT ![w] = Turned(@, u, b)]
    BY <1>1
  <2>2. Turned(job[w], u, b).op = job[w].op
    BY DEF Turned, TypeOK, Jobs
  <2> QED BY <2>1, <2>2 DEF Rotating, TypeOK
<1>5. \A o \in Upstreams : /\ row'[o] = None <=> row[o] = None
                           /\ row[o] # None => row'[o].active = row[o].active
  <2>1. row[u] # None => [row[u] EXCEPT !.key = job[w].left[u].key,
                                        !.under = Converted(w, job[w].left[u])] \in
                         [key : Keys \cup {NoKey}, under : {Converted(w, job[w].left[u])}, active : BOOLEAN]
    BY <1>3 DEF TypeOK, Rows
  <2>2. Converted(w, job[w].left[u]) # None => Converted(w, job[w].left[u]) \in Secrets \cup {Plain}
    BY <1>3, ConvertedType
  <2> QED BY <1>1, <1>3, <2>1, <2>2, UpstreamsAssumption DEF TypeOK, Rows
<1>6. Visible' = Visible
  BY <1>2, <1>5 DEF Visible
<1>7. ASSUME NEW r \in Rows, NEW o \in Upstreams, ~Rotating, Fresh(r, o)
      PROVE  Fresh(r, o)'
  <2>1. CASE row'[o] = row[o]
    BY <1>7, <2>1 DEF Fresh
  <2>2. CASE row'[o] # row[o]
    <3>1. /\ o = u /\ row[u] # None /\ Converted(w, job[w].left[u]) # None
          /\ row'[u] = [row[u] EXCEPT !.key = job[w].left[u].key,
                                      !.under = Converted(w, job[w].left[u])]
      BY <1>1, <1>3, <2>2 DEF TypeOK
    <3>2. Converted(w, job[w].left[u]) = InForce(cfg)
      BY <1>7, <3>1 DEF Converted, Rotating, Started, Workers
    <3>3. row'[u].key = row[u].key /\ row'[u].under = InForce(cfg) /\ row'[u].active = row[u].active
      BY <1>3, <3>1, <3>2 DEF Current, TypeOK, Rows
    <3>4. row[u].key # NoKey => row[u].under \in {Plain, InForce(cfg)}
      BY <1>3, <1>7, <3>1 DEF Openable, Stored
    <3> QED BY <1>3, <1>5, <1>7, <3>1, <3>3, <3>4 DEF Fresh
  <2> QED BY <2>1, <2>2
<1> QED BY <1>2, <1>4, <1>6, <1>7, Elsewhere

LEMMA CommandSynced ==
  ASSUME TypeOK, Reloading, Synced, Abort \/ Migrate \/ Finish \/ Initialize \/ Boot
  PROVE  Reloading' /\ Synced'
<1>1. UNCHANGED <<row, given, pc, snap, entry, cache, listed, crossed, hazy>>
  BY DEF Abort, Migrate, Finish, Initialize, Boot, tables, caches, reloads
<1>2. stage' = stage \/ stage' # "up"
  BY DEF Abort, Migrate, Finish, Initialize, Boot
<1>3. Rotating' => Rotating
  <2>1. CASE Abort \/ Finish
    BY <2>1 DEF Abort, Finish, Rotating, NoJob, TypeOK, Workers
  <2>2. CASE Migrate
    BY <2>2 DEF Migrate, Rotating, TypeOK, Workers, Jobs
  <2>3. CASE Initialize \/ Boot
    BY <2>3 DEF Initialize, Boot, Rotating, TypeOK, Workers
  <2> QED BY <2>1, <2>2, <2>3
<1>4. Visible' = Visible /\ \A r \in Rows, u \in Upstreams : Fresh(r, u) => Fresh(r, u)'
  BY <1>1 DEF Visible, Fresh
<1> QED BY <1>1, <1>2, <1>3, <1>4, Elsewhere

\* A rotation crosses every reload that has fetched.
LEMMA RotateSynced ==
  ASSUME TypeOK, Reloading, Synced, Rotate
  PROVE  Reloading' /\ Synced'
<1>1. /\ crossed' = [t \in Tasks |-> crossed[t] \/ Reading(t)]
      /\ hazy' = (hazy \/ crossed' # crossed)
      /\ UNCHANGED <<row, given, stage, pc, snap, entry, cache, listed>>
  BY DEF Rotate, tables, caches, Reading
<1>2. \A t \in Tasks : Reading(t)' <=> Reading(t)
  BY <1>1 DEF Reading
<1>3. \A t \in Tasks : Reading(t)' => crossed'[t]
  BY <1>1, <1>2
<1>4. Reloading'
  <2>1. ASSUME NEW t \in Tasks, ~Reading(t)'
        PROVE  entry'[t] = NoRows /\ ~crossed'[t]
    BY <1>1, <1>2, <2>1 DEF Reloading
  <2>2. ASSUME NEW t \in Tasks, Reading(t)'
        PROVE  hazy'
    <3>1. CASE crossed[t]
      BY <1>1, <1>2, <2>2, <3>1 DEF Reloading
    <3>2. CASE ~crossed[t]
      BY <1>1, <1>3, <2>2, <3>2
    <3> QED BY <3>1, <3>2
  <2> QED BY <2>1, <2>2 DEF Reloading
<1>5. Settled'
  <2> SUFFICES ASSUME stage' = "up", ~hazy', \A t \in Tasks : pc'[t] \notin Reload
               PROVE  cache = Visible /\ listed = Present(cache)
    BY <1>1 DEF Settled, Present, Visible
  <2>1. ~hazy /\ stage = "up" /\ pc' = pc
    BY <1>1
  <2> QED BY <2>1 DEF Synced, Settled
<1> QED BY <1>3, <1>4, <1>5 DEF Synced

LEMMA ServiceSynced ==
  ASSUME TypeOK, Started, Reloading, Synced, Load \/ Stop
  PROVE  Reloading' /\ Synced'
<1>1. \A t \in Tasks : ~Reading(t)'
  BY DEF Load, Stop, Started, Reading, Reload, Tasks, TypeOK
<1>2. \A t \in Tasks : entry'[t] = NoRows /\ ~crossed'[t]
  <2>1. CASE Load
    <3>1. \A t \in Tasks : ~Reading(t)
      BY <2>1 DEF Load, Started, Reading, Reload, Tasks
    <3> QED BY <2>1, <3>1 DEF Load, Reloading, reloads
  <2>2. CASE Stop
    BY <2>2 DEF Stop
  <2> QED BY <2>1, <2>2
<1>3. Settled'
  BY DEF Load, Stop, Settled
<1> QED BY <1>1, <1>2, <1>3 DEF Reloading, Synced

\* A reload never has what it fetched wrong without being marked for it.
CacheInv == mishaps = {} => Reloading /\ Synced

LEMMA CacheStep ==
  ASSUME TypeOK, Started, Kept, CacheInv, [Next]_vars
  PROVE  CacheInv'
<1>1. mishaps' = {} => mishaps = {}
  BY DEF Next, vars, Ask, Write, WriteFails, Fetch, FetchFails, Decrypt, Clear, Fill, Unlist, List,
         Convert, Abort, Migrate, Rotate, Finish, Initialize, Boot, Load, Stop
<1> SUFFICES ASSUME mishaps = {}, Current, Openable, Reloading, Synced
             PROVE  Reloading' /\ Synced'
  BY <1>1 DEF CacheInv, Kept
<1>2. CASE UNCHANGED vars
  <2>1. /\ UNCHANGED <<row, given, stage, pc, job, snap, entry, cache, listed, crossed, hazy>>
        /\ Visible' = Visible /\ (Rotating' <=> Rotating)
        /\ \A r \in Rows, u \in Upstreams : Fresh(r, u) => Fresh(r, u)'
    BY <1>2 DEF vars, Visible, Rotating, Fresh
  <2> QED BY <2>1, Elsewhere
<1>3. CASE Next
  BY <1>3, AskSynced, WriteSynced, FetchSynced, FetchFailsSynced, DecryptSynced, MapsSynced,
     ListSynced, ConvertSynced, CommandSynced, RotateSynced, ServiceSynced DEF Next
<1> QED BY <1>2, <1>3

\* With no handler at work the cache has the active upstreams with the keys that
\* were given last, and the tenant's list names them all, unless a reload was
\* crossed or failed and none has run alone since, or a mishap has happened.
THEOREM AgreesSafe == Spec => []Agrees
<1>1. Init => TypeOK /\ Started /\ Kept /\ CacheInv
  <2>1. Init => CacheInv
    BY DEF Init, CacheInv, Reloading, Synced, Settled, Reading, Reload
  <2> QED BY <2>1, InitTypes, InitStarted, InitKept
<1>2. (TypeOK /\ Started /\ Kept /\ CacheInv) /\ [Next]_vars
        => (TypeOK /\ Started /\ Kept /\ CacheInv)'
  BY TypeStep, StartedStep, KeptStep, CacheStep
<1>3. CacheInv => Agrees
  BY DEF CacheInv, Synced, Settled, Agrees, Quiet, Reload
<1> QED BY <1>1, <1>2, <1>3, PTL DEF Spec
=============================================================================
