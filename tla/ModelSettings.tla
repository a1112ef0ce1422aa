--------------------------- MODULE ModelSettings ---------------------------
(***************************************************************************)
(* The administrators' settings of models and smart routes, and the two    *)
(* caches requests read (src/src/admin/models.rs, db/model_visibility.rs,  *)
(* store/mod.rs).  Saving the visibility of a model is a sequence of       *)
(* statements without a transaction, after which the cached entry is built *)
(* from the row as it is then and from the user list of the request.  A    *)
(* smart route is saved in one transaction and its cache filled anew.      *)
(* refresh_cache fills both.  Nothing keeps two of these apart.            *)
(***************************************************************************)
EXTENDS ModelAccess

CONSTANTS
  Users,
  Aliases,      \* names an administrator may give to a model or a route
  Admins,       \* handlers at work
  Words,        \* keywords
  LastMinute,   \* of a day, 23:59
  Configs,      \* bound: smart routes that may be submitted
  Asked,        \* bound: what the handlers may be asked for, a subset of Jobs
  Requests,     \* bound: [tokens, words, image, time] of requests
  MaxJobs       \* bound: handlers started per behavior

Rows == [aliases : SUBSET Aliases, all : BOOLEAN]
Entries == [aliases : SUBSET Aliases, all : BOOLEAN, users : SUBSET Users]

\* Times are strings, which nobody checks for being times of a day: some come
\* before the first minute, 0, and some after the last.
Times == Int \cup {None, Blank}
Rules == [to : Keys, min : Int \cup {None}, max : Int \cup {None}, words : SUBSET Words,
          image : BOOLEAN, from : Times, until : Times]
Routes == [rules : Seq(Rules), fallback : Keys, all : BOOLEAN, users : SUBSET Users]

AllRequests ==
  [tokens : Nat, words : SUBSET Words, image : BOOLEAN, time : 0 .. LastMinute]

NoJob == [op |-> "none"]
Jobs ==
  [op : {"save"}, key : Keys, want : Entries]              \* set_visibility
    \cup [op : {"route"}, alias : Aliases, want : Configs] \* set_conditional_alias
    \cup [op : {"show"}, alias : Aliases, all : BOOLEAN, users : SUBSET Users]
    \cup [op : {"drop"}, alias : Aliases]                  \* delete_conditional_alias
    \cup [op : {"refresh"}]                                \* refresh_cache

ASSUME ModelSettingsAssumption ==
  /\ Configs \subseteq Routes /\ Requests \subseteq AllRequests
  /\ Asked \subseteq Jobs
  /\ None \notin Rows \cup Entries
  /\ None \notin Int /\ Blank \notin Int /\ None # Blank
  /\ Keys \cap Aliases = {}
  /\ LastMinute \in Nat /\ MaxJobs \in Nat

VARIABLES
  row,       \* row[k]: table model_visibility
  members,   \* members[k]: table model_visibility_users
  route,     \* route[a]: table conditional_alias_routes, the rows of alias a
  cache,     \* cache[k]: StoreManager.model_visibility
  rcache,    \* rcache[a]: StoreManager.conditional_alias_routes
  pc,        \* where the handler of administrator t is
  job,       \* job[t]: what it was asked for
  seen,      \* seen[t]: names of smart routes, or whether the row existed
  snap,      \* snap[t]: what a reload has fetched
  todo,      \* todo[t]: the entries a reload has still to fetch or to insert
  jobs,      \* handlers started so far
  loose,     \* history: routes last saved with a rule that decides nothing
  shared,    \* history: names whose check and save another save overlapped
  stale,     \* history: keys and routes that changed under handler t
  torn       \* history: keys and routes whose cache may be out of date

tables == <<row, members, route>>
caches == <<cache, rcache>>
local == <<job, seen, snap, todo>>
history == <<loose, shared, stale, torn>>
vars == <<tables, caches, pc, local, jobs, history>>

SaveSteps == {"taken", "names", "find", "update", "insert", "alias", "clear",
              "members", "reread", "install"}
ReloadSteps == {"rows", "lists", "empty", "fill", "fetch", "rempty", "rfill"}
Things == Keys \cup Aliases

TypeOK ==
  /\ row \in [Keys -> Rows \cup {None}]
  /\ members \in [Keys -> SUBSET Users]
  /\ \A k \in Keys : row[k] = None => members[k] = {}
  /\ cache \in [Keys -> Entries \cup {None}]
  /\ route \in [Aliases -> Routes \cup {None}]
  /\ rcache \in [Aliases -> Routes \cup {None}]
  /\ pc \in [Admins -> SaveSteps \cup ReloadSteps \cup {"idle", "check", "write"}]
  /\ job \in [Admins -> Asked \cup {NoJob}]
  /\ seen \in [Admins -> SUBSET Aliases]
  /\ todo \in [Admins -> SUBSET (Things \cup Users)]
  /\ jobs \in 0..MaxJobs
  /\ loose \subseteq Aliases /\ shared \subseteq Aliases
  /\ stale \in [Admins -> SUBSET Things]
  /\ torn \subseteq Things

-----------------------------------------------------------------------------
(* What the tables say, and who has read it. *)

Entry(k) == IF row[k] = None THEN None
            ELSE [aliases |-> row[k].aliases, all |-> row[k].all, users |-> members[k]]

NamesOfModels(ks) == UNION {row[k].aliases : k \in {j \in ks : row[j] # None}}
NamesOfRoutes == {a \in Aliases : route[a] # None}

\* Handler o will yet put into a cache what it read of x before now.
Knows(o, x) ==
  \/ pc[o] \in SaveSteps /\ job[o].key = x
  \/ x \in Keys /\ pc[o] \in {"lists", "empty"}
  \/ x \in Aliases /\ pc[o] = "rempty"
  \/ pc[o] \in {"fill", "rfill"} /\ x \in todo[o]

\* A statement of t changes x.
Disturb(t, x) ==
  stale' = [o \in Admins |->
              IF o # t /\ Knows(o, x) THEN stale[o] \cup {x} ELSE stale[o]]

\* t has put the xs into the cache.  They are out of date where a table changed
\* under it, and what others put there next may be too.
Settle(t, xs) ==
  /\ torn' = (torn \ xs) \cup (stale[t] \cap xs)
  /\ stale' = [o \in Admins |->
                 IF o = t THEN stale[t] \ xs
                 ELSE stale[o] \cup {x \in stale[t] \cap xs : Knows(o, x)}]

\* The names whose check is behind o and whose write is not.
Claims(o) ==
  IF pc[o] \in {"names", "find", "update", "insert", "alias"} THEN job[o].want.aliases
  ELSE IF pc[o] = "write" /\ job[o].op = "route" THEN {job[o].alias} ELSE {}

\* t writes the names xs.
Share(t, xs) == shared' = shared \cup UNION {Claims(o) \cap xs : o \in Admins \ {t}}

Goto(t, label) == pc' = [pc EXCEPT ![t] = label]

\* The handler answers: its variables are gone.
Done(t) ==
  /\ Goto(t, "idle")
  /\ job' = [job EXCEPT ![t] = NoJob]
  /\ seen' = [seen EXCEPT ![t] = {}]
  /\ snap' = [snap EXCEPT ![t] = <<>>]
  /\ todo' = [todo EXCEPT ![t] = {}]

Init ==
  /\ row = [k \in Keys |-> None]
  /\ members = [k \in Keys |-> {}]
  /\ route = [a \in Aliases |-> None]
  /\ cache = [k \in Keys |-> None]
  /\ rcache = [a \in Aliases |-> None]
  /\ pc = [t \in Admins |-> "idle"]
  /\ job = [t \in Admins |-> NoJob]
  /\ seen = [t \in Admins |-> {}]
  /\ snap = [t \in Admins |-> <<>>]
  /\ todo = [t \in Admins |-> {}]
  /\ jobs = 0
  /\ loose = {} /\ shared = {} /\ torn = {}
  /\ stale = [t \in Admins |-> {}]

-----------------------------------------------------------------------------
(* Starting and ending a handler. *)

\* Names are checked only when the request gives some; a route shown to chosen
\* users must name one.
FirstStep(j) ==
  CASE j.op = "save"    -> IF j.want.aliases = {} THEN "find" ELSE "taken"
    [] j.op = "route"   -> "check"
    [] j.op = "refresh" -> "rows"
    [] OTHER            -> "write"

Start(t) ==
  /\ pc[t] = "idle" /\ jobs < MaxJobs
  /\ \E j \in Asked :
       /\ j.op = "show" => j.all \/ j.users # {}
       /\ job' = [job EXCEPT ![t] = j]
       /\ Goto(t, FirstStep(j))
  /\ jobs' = jobs + 1
  /\ UNCHANGED <<tables, caches, seen, snap, todo, history>>

\* The request is refused before anything is written.
Refuse(t) ==
  /\ Done(t)
  /\ stale' = [stale EXCEPT ![t] = {}]
  /\ UNCHANGED <<tables, caches, jobs, loose, shared, torn>>

\* What handler t has written and not yet brought to the cache.
Unsettled(t) ==
  IF pc[t] \in {"alias", "clear", "members", "reread"} THEN {job[t].key}
  ELSE IF pc[t] = "fetch" /\ job[t].op # "refresh" THEN {job[t].alias}
  ELSE {}

\* Mutant of Abort: the row is taken back, its user list is not.
AbortHalf(t) ==
  /\ pc[t] = "reread" /\ ~job[t].want.all
  /\ row' = [row EXCEPT ![job[t].key] = None]
  /\ torn' = torn \cup Unsettled(t)
  /\ Done(t)
  /\ stale' = [stale EXCEPT ![t] = {}]
  /\ UNCHANGED <<members, route, caches, jobs, loose, shared>>

\* A statement fails, or the client is gone and the handler is dropped.  From
\* the last answer of the database on a handler runs to its end.
Abort(t) ==
  /\ pc[t] \notin {"idle", "install", "empty", "fill", "rempty", "rfill"}
  /\ torn' = torn \cup Unsettled(t)
  /\ Done(t)
  /\ stale' = [stale EXCEPT ![t] = {}]
  /\ UNCHANGED <<tables, caches, jobs, loose, shared>>

-----------------------------------------------------------------------------
(* set_visibility, statement by statement. *)

\* Mutant of Taken: the names of smart routes are not asked for.
TakenNothing(t) ==
  /\ pc[t] = "taken"
  /\ Goto(t, "names")
  /\ UNCHANGED <<tables, caches, local, jobs, history>>

\* SELECT alias FROM conditional_alias_routes; a failure counts as none.
Taken(t) ==
  /\ pc[t] = "taken"
  /\ \/ /\ seen' = [seen EXCEPT ![t] = NamesOfRoutes]
        /\ UNCHANGED shared
     \/ /\ shared' = shared \cup (NamesOfRoutes \cap job[t].want.aliases)
        /\ UNCHANGED seen
  /\ Goto(t, "names")
  /\ UNCHANGED <<tables, caches, job, snap, todo, jobs, loose, stale, torn>>

\* Mutant of Names: a model is checked against the models of other upstreams only.
NamesElsewhere(t) ==
  LET here == {k \in Keys : UpstreamOf[k] = UpstreamOf[job[t].key]}
      used == seen[t] \cup NamesOfModels(Keys \ here) IN
  /\ pc[t] = "names"
  /\ \/ job[t].want.aliases \cap used # {} /\ Refuse(t)
     \/ /\ job[t].want.aliases \cap used = {}
        /\ Goto(t, "find")
        /\ UNCHANGED <<tables, caches, local, jobs, history>>

\* The aliases of all other models of the tenant.
Names(t) ==
  LET used == seen[t] \cup NamesOfModels(Keys \ {job[t].key}) IN
  /\ pc[t] = "names"
  /\ \/ job[t].want.aliases \cap used # {} /\ Refuse(t)
     \/ /\ job[t].want.aliases \cap used = {}
        /\ Goto(t, "find")
        /\ UNCHANGED <<tables, caches, local, jobs, history>>

Find(t) ==
  /\ pc[t] = "find"
  /\ Goto(t, IF row[job[t].key] = None THEN "insert" ELSE "update")
  /\ UNCHANGED <<tables, caches, local, jobs, history>>

Update(t) ==
  LET k == job[t].key  w == job[t].want IN
  /\ pc[t] = "update"
  /\ row' = [row EXCEPT ![k] = [aliases |-> w.aliases, all |-> w.all]]
  /\ Share(t, w.aliases)
  /\ Disturb(t, k)
  /\ Goto(t, "clear")
  /\ UNCHANGED <<members, route, caches, local, jobs, loose, torn>>

\* UNIQUE(upstream_id, model_name) refuses a second row.
Insert(t) ==
  LET k == job[t].key IN
  /\ pc[t] = "insert"
  /\ \/ row[k] # None /\ Refuse(t)
     \/ /\ row[k] = None
        /\ row' = [row EXCEPT ![k] = [aliases |-> {}, all |-> job[t].want.all]]
        /\ Disturb(t, k)
        /\ Goto(t, "alias")
        /\ UNCHANGED <<members, route, caches, local, jobs, loose, shared, torn>>

\* A new row gets its aliases by a statement of its own.
Alias(t) ==
  LET k == job[t].key IN
  /\ pc[t] = "alias"
  /\ row' = [row EXCEPT ![k].aliases = job[t].want.aliases]
  /\ Share(t, job[t].want.aliases)
  /\ Disturb(t, k)
  /\ Goto(t, "clear")
  /\ UNCHANGED <<members, route, caches, local, jobs, loose, torn>>

\* Mutant of Clear: the old user list is not deleted.
ClearNothing(t) ==
  LET us == IF job[t].want.all THEN {} ELSE job[t].want.users IN
  /\ pc[t] = "clear"
  /\ todo' = [todo EXCEPT ![t] = us]
  /\ Disturb(t, job[t].key)
  /\ Goto(t, IF us = {} THEN "reread" ELSE "members")
  /\ UNCHANGED <<tables, caches, job, seen, snap, jobs, loose, shared, torn>>

Clear(t) ==
  LET k == job[t].key
      us == IF job[t].want.all THEN {} ELSE job[t].want.users IN
  /\ pc[t] = "clear"
  /\ members' = [members EXCEPT ![k] = {}]
  /\ todo' = [todo EXCEPT ![t] = us]
  /\ Disturb(t, k)
  /\ Goto(t, IF us = {} THEN "reread" ELSE "members")
  /\ UNCHANGED <<row, route, caches, job, seen, snap, jobs, loose, shared, torn>>

Members(t) ==
  LET k == job[t].key IN
  /\ pc[t] = "members"
  /\ \E u \in todo[t] :
       /\ members' = [members EXCEPT ![k] = @ \cup {u}]
       /\ todo' = [todo EXCEPT ![t] = @ \ {u}]
       /\ Goto(t, IF todo[t] = {u} THEN "reread" ELSE "members")
  /\ Disturb(t, k)
  /\ UNCHANGED <<row, route, caches, job, seen, snap, jobs, loose, shared, torn>>

Reread(t) ==
  /\ pc[t] = "reread"
  /\ snap' = [snap EXCEPT ![t] = row[job[t].key]]
  /\ Goto(t, "install")
  /\ UNCHANGED <<tables, caches, job, seen, todo, jobs, history>>

\* The entry mixes the row as it is now with the users of this request.
CachedEntry(t) ==
  [aliases |-> snap[t].aliases, all |-> snap[t].all, users |-> job[t].want.users]

Install(t) ==
  /\ pc[t] = "install"
  /\ cache' = [cache EXCEPT ![job[t].key] = CachedEntry(t)]
  /\ Settle(t, {job[t].key})
  /\ Done(t)
  /\ UNCHANGED <<tables, rcache, jobs, loose, shared>>

-----------------------------------------------------------------------------
(* set_conditional_alias, set_conditional_alias_visibility and             *)
(* delete_conditional_alias: one transaction or statement, then the routes *)
(* are loaded again.                                                       *)

\* Times are compared as strings: the empty one comes before all others.
Before(x, y) == y # Blank /\ (x # Blank => x < y)

\* Mutant of ValidRule: the order of the two bounds is not checked.
ValidRuleLoosely(r) ==
  /\ r.min # None \/ r.max # None \/ r.words # {} \/ r.image
       \/ r.from # None \/ r.until # None
  /\ r.from # None /\ r.until # None => Before(r.from, r.until)

\* The checks of upsert_conditional_alias.
ValidRule(r) ==
  /\ r.min # None /\ r.max # None => r.min <= r.max
  /\ r.min # None \/ r.max # None \/ r.words # {} \/ r.image
       \/ r.from # None \/ r.until # None
  /\ r.from # None /\ r.until # None => Before(r.from, r.until)

\* An empty time is stored as none.
Given(time) == IF time = Blank THEN None ELSE time
StoredRule(r) == [r EXCEPT !.from = Given(@), !.until = Given(@)]
Stored(cfg) ==
  [rules |-> [i \in DOMAIN cfg.rules |-> StoredRule(cfg.rules[i])],
   fallback |-> cfg.fallback, all |-> cfg.all, users |-> IF cfg.all THEN {} ELSE cfg.users]

\* The conditions a rule has hold for every request: no more than nothing for a
\* number of tokens, an empty time, all day.
Always(r) ==
  /\ r.min # None => r.min <= 0
  /\ r.max = None /\ r.words = {} /\ ~r.image
  /\ r.from \notin {None, Blank} => r.from <= 0
  /\ r.until \notin {None, Blank} => r.until >= LastMinute

\* One of them holds for none.
Never(r) ==
  \/ r.max # None /\ r.max < 0
  \/ r.from \notin {None, Blank} /\ r.from > LastMinute
  \/ r.until \notin {None, Blank} /\ r.until < 0

Loose(r) == Always(r) \/ Never(r)

Range1(s) == {s[i] : i \in DOMAIN s}

Check(t) ==
  LET a == job[t].alias
      ok == a \notin NamesOfModels(Keys) /\ \A r \in Range1(job[t].want.rules) : ValidRule(r)
  IN /\ pc[t] = "check"
     /\ \/ ~ok /\ Refuse(t)
        \/ ok /\ Goto(t, "write") /\ UNCHANGED <<tables, caches, local, jobs, history>>

Changed(j) ==
  CASE j.op = "route" -> Stored(j.want)
    [] j.op = "show"  -> [route[j.alias] EXCEPT !.all = j.all,
                                                !.users = IF j.all THEN {} ELSE j.users]
    [] j.op = "drop"  -> None

LooseNow(j) ==
  IF j.op = "route" /\ \E r \in Range1(j.want.rules) : Loose(r) THEN {j.alias} ELSE {}

\* All rows of an alias change together.
Write(t) ==
  LET j == job[t] IN
  /\ pc[t] = "write"
  /\ \/ j.op # "route" /\ route[j.alias] = None /\ Refuse(t)
     \/ /\ j.op = "route" \/ route[j.alias] # None
        /\ route' = [route EXCEPT ![j.alias] = Changed(j)]
        /\ loose' = IF j.op = "show" THEN loose ELSE (loose \ {j.alias}) \cup LooseNow(j)
        /\ Share(t, IF j.op = "route" THEN {j.alias} ELSE {})
        /\ Disturb(t, j.alias)
        /\ Goto(t, "fetch")
        /\ UNCHANGED <<row, members, caches, local, jobs, torn>>

-----------------------------------------------------------------------------
(* reload_model_visibility (refresh_cache only) and                        *)
(* reload_conditional_alias_routes: fetch, clear the map, fill it.         *)

FetchRows(t) ==
  LET found == {k \in Keys : row[k] # None} IN
  /\ pc[t] = "rows"
  /\ snap' = [snap EXCEPT ![t] = [k \in found |-> row[k]]]
  /\ todo' = [todo EXCEPT ![t] = found]
  /\ Goto(t, IF found = {} THEN "empty" ELSE "lists")
  /\ UNCHANGED <<tables, caches, job, seen, jobs, history>>

FetchList(t) ==
  /\ pc[t] = "lists"
  /\ \E k \in todo[t] :
       /\ snap' = [snap EXCEPT ![t][k] =
                     [aliases |-> @.aliases, all |-> @.all, users |-> members[k]]]
       /\ todo' = [todo EXCEPT ![t] = @ \ {k}]
       /\ Goto(t, IF todo[t] = {k} THEN "empty" ELSE "lists")
  /\ UNCHANGED <<tables, caches, job, seen, jobs, history>>

Empty(t) ==
  /\ pc[t] = "empty"
  /\ cache' = [k \in Keys |-> None]
  /\ todo' = [todo EXCEPT ![t] = DOMAIN snap[t]]
  /\ Settle(t, Keys \ DOMAIN snap[t])
  /\ Goto(t, IF DOMAIN snap[t] = {} THEN "fetch" ELSE "fill")
  /\ UNCHANGED <<tables, rcache, job, seen, snap, jobs, loose, shared>>

Fill(t) ==
  /\ pc[t] = "fill"
  /\ \E k \in todo[t] :
       /\ cache' = [cache EXCEPT ![k] = snap[t][k]]
       /\ todo' = [todo EXCEPT ![t] = @ \ {k}]
       /\ Settle(t, {k})
       /\ Goto(t, IF todo[t] = {k} THEN "fetch" ELSE "fill")
  /\ UNCHANGED <<tables, rcache, job, seen, snap, jobs, loose, shared>>

FetchRoutes(t) ==
  /\ pc[t] = "fetch"
  /\ snap' = [snap EXCEPT ![t] = route]
  /\ Goto(t, "rempty")
  /\ UNCHANGED <<tables, caches, job, seen, todo, jobs, history>>

EmptyRoutes(t) ==
  LET found == {a \in Aliases : snap[t][a] # None} IN
  /\ pc[t] = "rempty"
  /\ rcache' = [a \in Aliases |-> None]
  /\ Settle(t, Aliases \ found)
  /\ IF found = {} THEN Done(t)
     ELSE /\ todo' = [todo EXCEPT ![t] = found]
          /\ Goto(t, "rfill")
          /\ UNCHANGED <<job, seen, snap>>
  /\ UNCHANGED <<tables, cache, jobs, loose, shared>>

FillRoutes(t) ==
  /\ pc[t] = "rfill"
  /\ \E a \in todo[t] :
       /\ rcache' = [rcache EXCEPT ![a] = snap[t][a]]
       /\ Settle(t, {a})
       /\ IF todo[t] = {a} THEN Done(t)
          ELSE /\ todo' = [todo EXCEPT ![t] = @ \ {a}]
               /\ UNCHANGED <<pc, job, seen, snap>>
  /\ UNCHANGED <<tables, cache, jobs, loose, shared>>

Next == \E t \in Admins :
  \/ Start(t) \/ Abort(t)
  \/ Taken(t) \/ Names(t) \/ Find(t) \/ Update(t) \/ Insert(t) \/ Alias(t)
  \/ Clear(t) \/ Members(t) \/ Reread(t) \/ Install(t)
  \/ Check(t) \/ Write(t)
  \/ FetchRows(t) \/ FetchList(t) \/ Empty(t) \/ Fill(t)
  \/ FetchRoutes(t) \/ EmptyRoutes(t) \/ FillRoutes(t)

Spec == Init /\ [][Next]_vars
-----------------------------------------------------------------------------
(* Properties. *)

\* Things whose cache somebody is changing, or has changed the tables of.
Changing(o) ==
  Unsettled(o)
    \cup (IF pc[o] = "install" THEN {job[o].key} ELSE {})
    \cup (IF pc[o] = "rempty" /\ job[o].op # "refresh" THEN {job[o].alias} ELSE {})
    \cup (IF pc[o] \in {"fill", "rfill"} THEN todo[o] ELSE {})

Unsure == torn \cup UNION {Changing(o) : o \in Admins}

\* Two settings with the same meaning for every user.
Alike(x, y) ==
  \/ x = None /\ y = None
  \/ /\ x # None /\ y # None
     /\ x.aliases = y.aliases /\ x.all = y.all /\ (x.all \/ x.users = y.users)

\* Requests see the settings that are stored.  The exceptions are a thing that
\* is being saved or whose place in the map a reload has not filled yet, one
\* whose save failed half way (the cache was never told), and one that changed
\* while a handler was under way with what it had read or was told
\* (db/model_visibility.rs:244-315, admin/models.rs:254-279).
Agrees ==
  /\ \A k \in Keys \ Unsure : Alike(cache[k], Entry(k))
  /\ \A a \in Aliases \ Unsure : rcache[a] = route[a]

\* Outside those exceptions no request is sent to a model that the stored row
\* keeps from its user: not under its own name, not under an alias, and not
\* over a smart route.  While refresh_cache has emptied the map every model is
\* open to every user, since a model without a row is
\* (store/mod.rs:629-632, 1548-1556).
Refused ==
  \A u \in Users, x \in Aliases \cup ModelNames, req \in Requests :
    \A k \in Keys \ Unsure :
      row[k] # None /\ At(k) \in Candidates(cache, rcache, u, x, req) => Allows(Entry(k), u)

\* One alias belongs to one model or to one smart route, as the two messages
\* of set_model_visibility and the one of upsert_conditional_alias have it
\* (db/model_visibility.rs:201-211, 472-479), unless two saves of that name
\* overlapped or the names of the routes could not be read.
Holders(a) ==
  {k \in Keys : row[k] # None /\ a \in row[k].aliases}
    \cup (IF route[a] # None THEN {a} ELSE {})

AliasesUnique == \A a \in Aliases \ shared : Cardinality(Holders(a)) <= 1

\* Each upstream gives a name one meaning for a user, whatever order the map is
\* iterated in; an ollama upstream may have two models, or two aliases, that
\* differ only in ":latest" (store/mod.rs:1656-1677).
Twins(p, x) ==
  \E y \in Aliases \cup ModelNames : y # x /\ Same(p, x, y)

OneMeaning ==
  \A u \in Users, p \in Upstreams, x \in (Aliases \cup ModelNames) \ shared :
    \/ Cardinality(Resolutions(cache, u, p, x)) <= 1
    \/ Twins(p, x)
    \/ \E k \in Unsure \cap Keys : UpstreamOf[k] = p

\* A rule that is stored decides something: some request meets it, and some
\* request does not, so that the rules after it and the fallback are not dead.
\* The exception is a rule with conditions that hold for every request, or for
\* none: an empty start time passes the check for a condition and is then stored
\* as none, and times and numbers are not checked for being sensible ones
\* (db/model_visibility.rs:495-509, 587-588).
RulesDecide ==
  \A a \in Aliases \ loose : route[a] # None =>
    \A r \in Range1(route[a].rules) :
      /\ \E req \in Requests : Matches(r, req)
      /\ \E req \in Requests : ~Matches(r, req)

\* What GET /v1/models shows to a user is taken, with these exceptions: a name
\* from a row whose upstream has a models column without that name, or where
\* the alias of a forbidden row goes before the model of that name; a name from
\* a models column at an upstream with rows; a smart route whose fallback is
\* kept from the user.  The list asks none of these
\* (store/mod.rs:145-222, 1643-1692).
HasName(k, x) == ModelOf[k] = x \/ x \in cache[k].aliases
OutsideColumn(p, x) == Offered[p] # {} /\ \A m \in Offered[p] : ~Same(p, m, x)
Overruled(p, u, x) ==
  \E j, k \in Keys :
    /\ UpstreamOf[j] = p /\ UpstreamOf[k] = p /\ cache[j] # None /\ cache[k] # None
    /\ ModelOf[k] = x /\ Allows(cache[k], u)
    /\ ~Allows(cache[j], u) /\ \E y \in cache[j].aliases : Same(p, y, x)

ListedIsServed ==
  \A u \in Users :
    LET taken(p, x) == Resolutions(cache, u, p, x) # {None} IN
    /\ \A x \in RowNames(cache, u) :
         \E k \in Keys :
           LET p == UpstreamOf[k] IN
           /\ cache[k] # None /\ HasName(k, x)
           /\ taken(p, x) \/ OutsideColumn(p, x) \/ Overruled(p, u, x)
    /\ \A x \in ColumnNames(cache, u) :
         \E p \in Upstreams :
           /\ x \in Offered[p]
           /\ taken(p, x) \/ \E k \in Keys : UpstreamOf[k] = p /\ cache[k] # None
    /\ \A a \in RouteNames(rcache, u), req \in Requests :
         RouteTargets(cache, rcache[a], u, req) = <<>>
           => ~CheckAccess(cache, u, rcache[a].fallback)
=============================================================================
