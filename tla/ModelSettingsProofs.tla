------------------------ MODULE ModelSettingsProofs ------------------------
(***************************************************************************)
(* ModelSettings for every number of administrators, models, aliases and   *)
(* handlers: a name has one owner, although its check and its write are    *)
(* statements apart.                                                       *)
(***************************************************************************)
EXTENDS ModelSettings, FiniteSetTheorems, SequenceTheorems, WellFoundedInduction,
        TLAPS

-----------------------------------------------------------------------------
(* Types of what the proof looks at. *)

Labels == SaveSteps \cup ReloadSteps \cup {"idle", "check", "write"}
Saves == [op : {"save"}, key : Keys, want : Entries]

Shapes ==
  /\ row \in [Keys -> Rows \cup {None}]
  /\ route = [a \in Aliases |-> route[a]]
  /\ pc \in [Admins -> Labels]
  /\ job \in [Admins -> Asked \cup {NoJob}]
  /\ seen \in [Admins -> SUBSET Aliases]

\* A handler is only where its task can bring it, and a save that has inserted
\* its row finds it there.
Placed ==
  \A t \in Admins :
    /\ pc[t] \in SaveSteps => job[t] \in Saves
    /\ pc[t] = "check" => job[t].op = "route" /\ job[t].alias \in Aliases
    /\ pc[t] = "write" => job[t].op \in {"route", "show", "drop"} /\ job[t].alias \in Aliases
    /\ pc[t] = "alias" => row[job[t].key] # None

LEMMA JobTypes ==
  ASSUME NEW j \in Asked
  PROVE  /\ j.op \in {"save", "route", "show", "drop", "refresh"}
         /\ j.op = "save" => j \in Saves
         /\ j.op \in {"route", "show", "drop"} => j.alias \in Aliases
<1>1. j \in Jobs
  BY ModelSettingsAssumption
<1> QED BY <1>1 DEF Jobs, Saves

LEMMA EndsIdle ==
  ASSUME Shapes, NEW t \in Admins, Done(t)
  PROVE  /\ pc' = [pc EXCEPT ![t] = "idle"]
         /\ pc' \in [Admins -> Labels]
         /\ job' \in [Admins -> Asked \cup {NoJob}]
         /\ seen' \in [Admins -> SUBSET Aliases]
         /\ \A o \in Admins \ {t} : pc'[o] = pc[o] /\ job'[o] = job[o] /\ seen'[o] = seen[o]
BY DEF Shapes, Done, Goto, Labels

LEMMA Moves ==
  ASSUME Shapes, NEW t \in Admins, NEW l \in Labels, Goto(t, l)
  PROVE  /\ pc' \in [Admins -> Labels] /\ pc'[t] = l
         /\ \A o \in Admins \ {t} : pc'[o] = pc[o]
BY DEF Shapes, Goto

-----------------------------------------------------------------------------
(* The owners of a name. *)

Bears(k, a) == row[k] # None /\ a \in row[k].aliases

\* At most one model bears the name, and none if it is that of a route.
Alone(a) ==
  /\ \A k, l \in Keys : Bears(k, a) /\ Bears(l, a) => k = l
  /\ route[a] # None => \A k \in Keys : ~Bears(k, a)

\* What handler o has found out about the name a, and still relies on.
Relied(o, a) ==
  /\ pc[o] = "names" /\ a \in job[o].want.aliases /\ a \notin seen[o] => route[a] = None
  /\ pc[o] \in {"find", "update", "insert", "alias"} /\ a \in job[o].want.aliases =>
       /\ route[a] = None
       /\ \A k \in Keys : Bears(k, a) => k = job[o].key
  /\ pc[o] = "write" /\ job[o].op = "route" /\ job[o].alias = a =>
       \A k \in Keys : ~Bears(k, a)

NamesInv ==
  \A a \in Aliases \ shared : Alone(a) /\ \A o \in Admins : Relied(o, a)

Inv == Shapes /\ Placed /\ NamesInv

Kept(o) == pc'[o] = pc[o] /\ job'[o] = job[o] /\ seen'[o] = seen[o]

\* A step of t that leaves the tables alone need only account for t itself.
LEMMA Quiet ==
  ASSUME Placed, NamesInv, NEW t \in Admins, UNCHANGED <<row, route>>,
         shared \subseteq shared', \A o \in Admins \ {t} : Kept(o),
         \A a \in Aliases \ shared' : Relied(t, a)',
         /\ pc'[t] \in SaveSteps => job'[t] \in Saves
         /\ pc'[t] = "check" => job'[t].op = "route" /\ job'[t].alias \in Aliases
         /\ pc'[t] = "write" => job'[t].op \in {"route", "show", "drop"} /\ job'[t].alias \in Aliases
         /\ pc'[t] = "alias" => row[job'[t].key] # None
  PROVE  Placed' /\ NamesInv'
<1>1. ASSUME NEW o \in Admins \ {t}
      PROVE  /\ pc'[o] = pc[o] /\ job'[o] = job[o] /\ seen'[o] = seen[o]
      BY DEF Kept
<1>2. Placed'
  BY <1>1 DEF Placed
<1>3. ASSUME NEW a \in Aliases \ shared' PROVE Alone(a)' /\ \A o \in Admins : Relied(o, a)'
  <2>1. Alone(a)'
    BY <1>3 DEF NamesInv, Alone, Bears
  <2>2. ASSUME NEW o \in Admins \ {t} PROVE Relied(o, a)'
    <3>1. Relied(o, a)
      BY <1>3 DEF NamesInv
    <3> QED BY <1>1, <3>1 DEF Relied, Bears
  <2> QED BY <1>3, <2>1, <2>2
<1> QED BY <1>2, <1>3 DEF NamesInv

\* An UPDATE of the aliases of a model: who else claims one of these names is
\* noted in shared, and nobody but this handler has relied on the others.
LEMMA RowWritten ==
  ASSUME Inv, NEW t \in Admins, pc[t] \in {"update", "alias"}, pc'[t] = "clear",
         \A o \in Admins \ {t} : Kept(o), job' = job, route' = route,
         \A l \in Keys \ {job[t].key} : row'[l] = row[l],
         row'[job[t].key] # None, row'[job[t].key].aliases = job[t].want.aliases,
         Share(t, job[t].want.aliases)
  PROVE  Placed' /\ NamesInv'
<1>1. job[t] \in Saves
  BY DEF Inv, Placed, SaveSteps
<1>2. PICK k \in Keys, w \in SUBSET Aliases : k = job[t].key /\ w = job[t].want.aliases
  BY <1>1 DEF Saves, Entries
<1>3. \A a \in Aliases : Bears(k, a)' <=> a \in w
  BY <1>2 DEF Bears
<1>4. \A l \in Keys \ {k} : \A a \in Aliases : Bears(l, a)' <=> Bears(l, a)
  BY <1>2 DEF Bears
<1>5. \A a \in Aliases \ shared' :
        a \notin shared /\ \A o \in Admins \ {t} : a \in w => a \notin Claims(o)
  BY <1>2 DEF Share
<1>6. Placed'
  <2> SUFFICES ASSUME NEW o \in Admins
               PROVE  /\ pc'[o] \in SaveSteps => job'[o] \in Saves
                      /\ pc'[o] = "check" => job'[o].op = "route" /\ job'[o].alias \in Aliases
                      /\ pc'[o] = "write" =>
                           job'[o].op \in {"route", "show", "drop"} /\ job'[o].alias \in Aliases
                      /\ pc'[o] = "alias" => row'[job'[o].key] # None
    BY DEF Placed
  <2>1. CASE o = t
    BY <1>1, <2>1
  <2>2. CASE o # t
    <3>1. pc'[o] = pc[o] /\ job'[o] = job[o]
      BY <2>2 DEF Kept
    <3>2. pc[o] = "alias" => job[o].key \in Keys /\ row[job[o].key] # None
      BY DEF Inv, Placed, SaveSteps, Saves
    <3>3. pc[o] = "alias" => row'[job[o].key] # None
      BY <1>2, <3>2
    <3> QED BY <3>1, <3>3 DEF Inv, Placed
  <2> QED BY <2>1, <2>2
<1>7. ASSUME NEW a \in Aliases \ shared' PROVE Alone(a)' /\ \A o \in Admins : Relied(o, a)'
  <2>1. Alone(a) /\ \A o \in Admins : Relied(o, a)
    BY <1>5 DEF Inv, NamesInv
  <2>2. a \in w => route[a] = None /\ \A l \in Keys : Bears(l, a) => l = k
    BY <1>2, <2>1 DEF Relied
  <2>3. Alone(a)'
    BY <1>3, <1>4, <2>1, <2>2 DEF Alone
  <2>4. Relied(t, a)'
    BY DEF Relied
  <2>5. ASSUME NEW o \in Admins \ {t} PROVE Relied(o, a)'
    <3>1. pc'[o] = pc[o] /\ job'[o] = job[o] /\ seen'[o] = seen[o]
      BY DEF Kept
    <3>2. CASE a \in w
      <4>1. a \notin Claims(o)
        BY <1>5, <3>2
      <4> QED BY <3>1, <4>1 DEF Relied, Claims
    <3>3. CASE a \notin w
      <4>1. \A l \in Keys : Bears(l, a)' => Bears(l, a)
        BY <1>3, <1>4, <3>3
      <4> QED BY <2>1, <3>1, <4>1 DEF Relied
    <3> QED BY <3>2, <3>3
  <2> QED BY <2>3, <2>4, <2>5
<1> QED BY <1>6, <1>7 DEF NamesInv

LEMMA UpdateKeeps ==
  ASSUME Inv, NEW t \in Admins, Update(t) \/ Alias(t)
  PROVE  Inv'
<1>1. /\ pc[t] \in {"update", "alias"} /\ Goto(t, "clear")
      /\ UNCHANGED <<route, job, seen>> /\ Share(t, job[t].want.aliases)
  BY DEF Update, Alias, tables, caches, local
<1>2. "clear" \in Labels
  BY DEF Labels, SaveSteps
<1>3. pc' \in [Admins -> Labels] /\ pc'[t] = "clear" /\ \A o \in Admins \ {t} : Kept(o)
  BY <1>1, <1>2, Moves DEF Inv, Kept
<1>4. job[t] \in Saves
  BY <1>1 DEF Inv, Placed, SaveSteps
<1>5. PICK k \in Keys, w \in Entries : k = job[t].key /\ w = job[t].want
  BY <1>4 DEF Saves
<1>6. row \in [Keys -> Rows \cup {None}]
  BY DEF Inv, Shapes
<1>7. PICK new \in Rows : row' = [row EXCEPT ![k] = new] /\ new.aliases = w.aliases
  <2>1. CASE Update(t)
    <3>1. row' = [row EXCEPT ![k] = [aliases |-> w.aliases, all |-> w.all]]
      BY <1>5, <2>1 DEF Update
    <3>2. [aliases |-> w.aliases, all |-> w.all] \in Rows
      BY DEF Rows, Entries
    <3> QED BY <3>1, <3>2
  <2>2. CASE Alias(t)
    <3>1. row[k] \in Rows
      BY <1>5, <1>6, <2>2 DEF Inv, Placed, Alias
    <3>2. row' = [row EXCEPT ![k] = [row[k] EXCEPT !.aliases = w.aliases]]
      BY <1>5, <2>2 DEF Alias
    <3>3. [row[k] EXCEPT !.aliases = w.aliases] \in Rows
      BY <3>1 DEF Rows, Entries
    <3>4. [row[k] EXCEPT !.aliases = w.aliases].aliases = w.aliases
      BY <3>1 DEF Rows
    <3> QED BY <3>2, <3>3, <3>4
  <2> QED BY <2>1, <2>2
<1>8. /\ row' \in [Keys -> Rows \cup {None}] /\ row'[k] = new
      /\ \A l \in Keys \ {k} : row'[l] = row[l]
  BY <1>6, <1>7
<1>9. new # None
  BY ModelSettingsAssumption
<1>10. Placed' /\ NamesInv'
  BY <1>1, <1>3, <1>5, <1>7, <1>8, <1>9, RowWritten
<1>11. Shapes'
  BY <1>1, <1>3, <1>8 DEF Inv, Shapes
<1> QED BY <1>10, <1>11 DEF Inv

LEMMA InsertKeeps ==
  ASSUME Inv, NEW t \in Admins, Insert(t), row[job[t].key] = None
  PROVE  Inv'
<1>1. job[t] \in Saves /\ pc[t] = "insert"
  BY DEF Insert, Inv, Placed, SaveSteps
<1>2. PICK k \in Keys, w \in Entries : k = job[t].key /\ w = job[t].want
  BY <1>1 DEF Saves
<1>3. /\ row' = [row EXCEPT ![k] = [aliases |-> {}, all |-> w.all]]
      /\ Goto(t, "alias") /\ UNCHANGED <<route, job, seen, shared>>
  BY <1>2 DEF Insert, Refuse, tables, caches, local
<1>4. PICK new \in Rows : new.aliases = {} /\ row' = [row EXCEPT ![k] = new]
  BY <1>3 DEF Rows, Entries
<1>5. /\ row' \in [Keys -> Rows \cup {None}] /\ row'[k] = new
      /\ \A l \in Keys \ {k} : row'[l] = row[l]
  BY <1>4 DEF Inv, Shapes
<1>6. new # None
  BY ModelSettingsAssumption
<1>7. "alias" \in Labels
  BY DEF Labels, SaveSteps
<1>8. pc' \in [Admins -> Labels] /\ pc'[t] = "alias" /\ \A o \in Admins \ {t} : pc'[o] = pc[o]
  BY <1>3, <1>7, Moves DEF Inv
<1>9. Shapes'
  BY <1>3, <1>5, <1>8 DEF Inv, Shapes
<1>10. \A l \in Keys, a \in Aliases : Bears(l, a)' => Bears(l, a)
  BY <1>4, <1>5 DEF Bears
<1>11. \A l \in Keys : row[l] # None => row'[l] # None
  BY <1>5, <1>6
<1>12. Placed'
  <2>1. \A o \in Admins : pc[o] = "alias" => job[o].key \in Keys /\ row[job[o].key] # None
    BY DEF Inv, Placed, SaveSteps, Saves
  <2>2. \A o \in Admins : pc'[o] = "alias" => row'[job[o].key] # None
    BY <1>2, <1>5, <1>6, <1>8, <1>11, <2>1
  <2>3. pc'[t] \in SaveSteps /\ job[t] \in Saves
    BY <1>1, <1>8 DEF SaveSteps
  <2> QED BY <1>3, <1>8, <2>2, <2>3 DEF Inv, Placed
<1>13. ASSUME NEW a \in Aliases \ shared PROVE Alone(a)' /\ \A o \in Admins : Relied(o, a)'
  <2>1. Alone(a) /\ \A o \in Admins : Relied(o, a)
    BY DEF Inv, NamesInv
  <2>2. Alone(a)'
    BY <1>3, <1>10, <2>1 DEF Alone
  <2>3. Relied(t, a)'
    BY <1>1, <1>3, <1>8, <1>10, <2>1 DEF Relied
  <2>4. ASSUME NEW o \in Admins \ {t} PROVE Relied(o, a)'
    BY <1>3, <1>8, <1>10, <2>1 DEF Relied
  <2> QED BY <2>2, <2>3, <2>4
<1> QED BY <1>3, <1>9, <1>12, <1>13 DEF Inv, NamesInv

\* A step of t in its own variables only: it is enough to look at t.
LEMMA QuietKeeps ==
  ASSUME Inv, NEW t \in Admins, UNCHANGED <<row, route>>, shared \subseteq shared',
         pc' \in [Admins -> Labels], \A o \in Admins \ {t} : Kept(o),
         job' \in [Admins -> Asked \cup {NoJob}], seen' \in [Admins -> SUBSET Aliases],
         \A a \in Aliases \ shared' : Relied(t, a)',
         /\ pc'[t] \in SaveSteps => job'[t] \in Saves
         /\ pc'[t] = "check" => job'[t].op = "route" /\ job'[t].alias \in Aliases
         /\ pc'[t] = "write" => job'[t].op \in {"route", "show", "drop"} /\ job'[t].alias \in Aliases
         /\ pc'[t] = "alias" => row[job'[t].key] # None
  PROVE  Inv'
<1>1. Shapes'
  BY DEF Inv, Shapes
<1>2. Placed' /\ NamesInv'
  BY Quiet DEF Inv
<1> QED BY <1>1, <1>2 DEF Inv

\* Where nothing is relied on.
Carefree == Labels \ {"names", "find", "update", "insert", "alias", "write", "check", "taken"}

\* A step to a label where nothing is relied on, with the same task.
LEMMA Onward ==
  ASSUME Inv, NEW t \in Admins, UNCHANGED <<row, route, job, seen>>, shared \subseteq shared',
         NEW l \in Carefree, Goto(t, l), l \in SaveSteps => pc[t] \in SaveSteps
  PROVE  Inv'
<1>1. l \in Labels
  BY DEF Carefree
<1>2. pc' \in [Admins -> Labels] /\ pc'[t] = l /\ \A o \in Admins \ {t} : Kept(o)
  BY <1>1, Moves DEF Inv, Kept
<1>3. \A a \in Aliases \ shared' : Relied(t, a)'
  BY <1>2 DEF Relied, Carefree
<1>4. pc'[t] \in SaveSteps => job'[t] \in Saves
  BY <1>2 DEF Inv, Placed
<1>5. pc'[t] \notin {"check", "write", "alias"}
  BY <1>2 DEF Carefree
<1> QED BY <1>2, <1>3, <1>4, <1>5, QuietKeeps DEF Inv, Shapes

LEMMA DoneKeeps ==
  ASSUME Inv, NEW t \in Admins, UNCHANGED <<row, route>>, shared \subseteq shared', Done(t)
  PROVE  Inv'
<1>1. /\ pc' \in [Admins -> Labels] /\ pc'[t] = "idle"
      /\ job' \in [Admins -> Asked \cup {NoJob}] /\ seen' \in [Admins -> SUBSET Aliases]
      /\ \A o \in Admins \ {t} : Kept(o)
  BY EndsIdle DEF Inv, Shapes, Kept
<1>2. \A a \in Aliases \ shared' : Relied(t, a)'
  BY <1>1 DEF Relied
<1>3. pc'[t] \notin SaveSteps \cup {"check", "write", "alias"}
  BY <1>1 DEF SaveSteps
<1> QED BY <1>1, <1>2, <1>3, QuietKeeps

LEMMA StartKeeps ==
  ASSUME Inv, NEW t \in Admins, Start(t)
  PROVE  Inv'
<1>1. PICK j \in Asked : job' = [job EXCEPT ![t] = j] /\ Goto(t, FirstStep(j))
  BY DEF Start
<1>2. UNCHANGED <<row, route, seen, shared>>
  BY DEF Start, tables, history
<1>3. /\ j.op \in {"save", "route", "show", "drop", "refresh"}
      /\ j.op = "save" => j \in Saves
      /\ j.op \in {"route", "show", "drop"} => j.alias \in Aliases
  BY JobTypes
<1>4. /\ j.op = "save" => FirstStep(j) = IF j.want.aliases = {} THEN "find" ELSE "taken"
      /\ j.op = "route" => FirstStep(j) = "check"
      /\ j.op = "refresh" => FirstStep(j) = "rows"
      /\ j.op \in {"show", "drop"} => FirstStep(j) = "write"
  BY DEF FirstStep
<1>5. FirstStep(j) \in Labels
  BY <1>3, <1>4 DEF Labels, SaveSteps, ReloadSteps
<1>6. /\ pc' \in [Admins -> Labels] /\ pc'[t] = FirstStep(j)
      /\ \A o \in Admins \ {t} : pc'[o] = pc[o]
  BY <1>1, <1>5, Moves DEF Inv
<1>7. /\ job' \in [Admins -> Asked \cup {NoJob}] /\ job'[t] = j
      /\ \A o \in Admins \ {t} : job'[o] = job[o]
  BY <1>1 DEF Inv, Shapes
<1>8. \A o \in Admins \ {t} : Kept(o)
  BY <1>2, <1>6, <1>7 DEF Kept
<1>9. \A a \in Aliases \ shared' : Relied(t, a)'
  BY <1>3, <1>4, <1>6, <1>7 DEF Relied
<1>10. /\ pc'[t] \in SaveSteps => job'[t] \in Saves
       /\ pc'[t] = "check" => job'[t].op = "route" /\ job'[t].alias \in Aliases
       /\ pc'[t] = "write" => job'[t].op \in {"route", "show", "drop"} /\ job'[t].alias \in Aliases
       /\ pc'[t] # "alias"
  BY <1>3, <1>4, <1>6, <1>7 DEF SaveSteps
<1>11. seen' \in [Admins -> SUBSET Aliases]
  BY <1>2 DEF Inv, Shapes
<1> QED BY <1>2, <1>6, <1>7, <1>8, <1>9, <1>10, <1>11, QuietKeeps

\* The names of the routes, or none of them when they could not be read; those
\* that matter are noted in shared then.
LEMMA TakenKeeps ==
  ASSUME Inv, NEW t \in Admins, Taken(t)
  PROVE  Inv'
<1>1. pc[t] = "taken" /\ Goto(t, "names") /\ UNCHANGED <<row, route, job>>
  BY DEF Taken, tables
<1>2. job[t] \in Saves
  BY <1>1 DEF Inv, Placed, SaveSteps
<1>3. "names" \in Labels
  BY DEF Labels, SaveSteps
<1>4. pc' \in [Admins -> Labels] /\ pc'[t] = "names" /\ \A o \in Admins \ {t} : pc'[o] = pc[o]
  BY <1>1, <1>3, Moves DEF Inv
<1>5. /\ seen' \in [Admins -> SUBSET Aliases] /\ \A o \in Admins \ {t} : seen'[o] = seen[o]
      /\ shared \subseteq shared'
  BY DEF Taken, Inv, Shapes, NamesOfRoutes
<1>6. \A a \in Aliases \ shared' : a \in job[t].want.aliases /\ a \notin seen'[t] => route[a] = None
  BY DEF Taken, Inv, Shapes, NamesOfRoutes
<1>7. \A a \in Aliases \ shared' : Relied(t, a)'
  BY <1>1, <1>4, <1>6 DEF Relied
<1>8. \A o \in Admins \ {t} : Kept(o)
  BY <1>1, <1>4, <1>5 DEF Kept
<1>9. job' \in [Admins -> Asked \cup {NoJob}]
  BY <1>1 DEF Inv, Shapes
<1> QED BY <1>1, <1>2, <1>4, <1>5, <1>7, <1>8, <1>9, QuietKeeps

\* From the check of the models' names on the handler relies on both checks.
LEMMA NamesKeep ==
  ASSUME Inv, NEW t \in Admins, pc[t] = "names",
         job[t].want.aliases \cap (seen[t] \cup NamesOfModels(Keys \ {job[t].key})) = {},
         Goto(t, "find"), UNCHANGED <<row, route, job, seen, shared>>
  PROVE  Inv'
<1>1. job[t] \in Saves
  BY DEF Inv, Placed, SaveSteps
<1>2. "find" \in Labels
  BY DEF Labels, SaveSteps
<1>3. pc' \in [Admins -> Labels] /\ pc'[t] = "find" /\ \A o \in Admins \ {t} : Kept(o)
  BY <1>2, Moves DEF Inv, Kept
<1>4. ASSUME NEW a \in Aliases \ shared, a \in job[t].want.aliases
      PROVE  route[a] = None /\ \A k \in Keys : Bears(k, a) => k = job[t].key
  <2>1. a \notin seen[t] /\ a \notin NamesOfModels(Keys \ {job[t].key})
    BY <1>4
  <2>2. route[a] = None
    BY <2>1, <1>4 DEF Inv, NamesInv, Relied
  <2>3. \A k \in Keys : Bears(k, a) => k = job[t].key
    BY <2>1 DEF NamesOfModels, Bears
  <2> QED BY <2>2, <2>3
<1>5. \A a \in Aliases \ shared' : Relied(t, a)'
  BY <1>3, <1>4 DEF Relied, Bears
<1> QED BY <1>1, <1>3, <1>5, QuietKeeps DEF Inv, Shapes

LEMMA FindKeeps ==
  ASSUME Inv, NEW t \in Admins, Find(t)
  PROVE  Inv'
<1>1. pc[t] = "find" /\ UNCHANGED <<row, route, job, seen, shared>>
  BY DEF Find, tables, local, history
<1>2. PICK l \in {"insert", "update"} : Goto(t, l)
  BY DEF Find
<1>3. l \in Labels
  BY DEF Labels, SaveSteps
<1>4. pc' \in [Admins -> Labels] /\ pc'[t] = l /\ \A o \in Admins \ {t} : Kept(o)
  BY <1>1, <1>2, <1>3, Moves DEF Inv, Kept
<1>5. job[t] \in Saves
  BY <1>1 DEF Inv, Placed, SaveSteps
<1>6. \A a \in Aliases \ shared' : Relied(t, a)'
  BY <1>1, <1>4 DEF Inv, NamesInv, Relied, Bears
<1>7. pc'[t] \notin {"check", "write", "alias"}
  BY <1>4
<1> QED BY <1>1, <1>4, <1>5, <1>6, <1>7, QuietKeeps DEF Inv, Shapes

LEMMA CheckKeeps ==
  ASSUME Inv, NEW t \in Admins, pc[t] = "check", job[t].alias \notin NamesOfModels(Keys),
         Goto(t, "write"), UNCHANGED <<row, route, job, seen, shared>>
  PROVE  Inv'
<1>1. job[t].op = "route" /\ job[t].alias \in Aliases
  BY DEF Inv, Placed
<1>2. "write" \in Labels
  BY DEF Labels
<1>3. pc' \in [Admins -> Labels] /\ pc'[t] = "write" /\ \A o \in Admins \ {t} : Kept(o)
  BY <1>2, Moves DEF Inv, Kept
<1>4. \A k \in Keys : ~Bears(k, job[t].alias)
  BY DEF NamesOfModels, Bears
<1>5. \A a \in Aliases \ shared' : Relied(t, a)'
  BY <1>3, <1>4 DEF Relied, Bears
<1>6. pc'[t] \notin SaveSteps
  BY <1>3 DEF SaveSteps
<1> QED BY <1>1, <1>3, <1>5, <1>6, QuietKeeps DEF Inv, Shapes

\* A route is written under a name no model bears, unless a save claims it.
LEMMA RouteWritten ==
  ASSUME Inv, NEW t \in Admins, pc[t] = "write", Goto(t, "fetch"),
         route' = [route EXCEPT ![job[t].alias] = Changed(job[t])],
         job[t].op = "route" \/ route[job[t].alias] # None,
         Share(t, IF job[t].op = "route" THEN {job[t].alias} ELSE {}),
         UNCHANGED <<row, job, seen>>
  PROVE  Inv'
<1>1. job[t].op \in {"route", "show", "drop"} /\ job[t].alias \in Aliases
  BY DEF Inv, Placed
<1>2. PICK b \in Aliases : b = job[t].alias
  BY <1>1
<1>3. "fetch" \in Labels
  BY DEF Labels, ReloadSteps
<1>4. pc' \in [Admins -> Labels] /\ pc'[t] = "fetch" /\ \A o \in Admins \ {t} : Kept(o)
  BY <1>3, Moves DEF Inv, Kept
<1>5. route' = [a \in Aliases |-> route'[a]] /\ \A a \in Aliases \ {b} : route'[a] = route[a]
  BY <1>2 DEF Inv, Shapes
<1>6. Shapes'
  BY <1>4, <1>5 DEF Inv, Shapes
<1>7. Placed'
  BY <1>4 DEF Inv, Placed, Kept, SaveSteps
<1>8. \A a \in Aliases \ shared' :
        a \notin shared /\ (job[t].op = "route" /\ a = b => \A o \in Admins \ {t} : a \notin Claims(o))
  BY <1>2 DEF Share
<1>9. ASSUME NEW a \in Aliases \ shared' PROVE Alone(a)' /\ \A o \in Admins : Relied(o, a)'
  <2>1. Alone(a) /\ \A o \in Admins : Relied(o, a)
    BY <1>8 DEF Inv, NamesInv
  <2>2. \A k \in Keys : Bears(k, a)' <=> Bears(k, a)
    BY DEF Bears
  <2>3. route'[a] # None => route[a] # None \/ (job[t].op = "route" /\ a = b)
    BY <1>2, <1>5
  <2>4. job[t].op = "route" /\ a = b => \A k \in Keys : ~Bears(k, a)
    BY <1>2, <2>1 DEF Relied
  <2>5. Alone(a)'
    BY <2>1, <2>2, <2>3, <2>4 DEF Alone
  <2>6. Relied(t, a)'
    BY <1>4 DEF Relied
  <2>7. ASSUME NEW o \in Admins \ {t} PROVE Relied(o, a)'
    <3>1. pc'[o] = pc[o] /\ job'[o] = job[o] /\ seen'[o] = seen[o]
      BY <1>4 DEF Kept
    <3>2. CASE job[t].op = "route" /\ a = b
      <4>1. a \notin Claims(o)
        BY <1>8, <3>2
      <4> QED BY <2>1, <2>2, <3>1, <4>1 DEF Relied, Claims
    <3>3. CASE ~(job[t].op = "route" /\ a = b)
      BY <2>1, <2>2, <2>3, <3>1, <3>3 DEF Relied
    <3> QED BY <3>2, <3>3
  <2> QED BY <2>5, <2>6, <2>7
<1> QED BY <1>6, <1>7, <1>9 DEF Inv, NamesInv

LEMMA StepKeeps == Inv /\ [Next]_vars => Inv'
<1> SUFFICES ASSUME Inv, [Next]_vars PROVE Inv'
  OBVIOUS
<1> USE DEF tables, caches, local, history
<1>1. CASE UNCHANGED vars
  BY <1>1 DEF vars, Inv, Shapes, Placed, NamesInv, Alone, Relied, Bears
<1>2. ASSUME NEW t \in Admins, Start(t) PROVE Inv'
  BY <1>2, StartKeeps
<1>3. ASSUME NEW t \in Admins, Abort(t) \/ Refuse(t) \/ Install(t) PROVE Inv'
  <2>1. Done(t) /\ UNCHANGED <<row, route, shared>>
    BY <1>3 DEF Abort, Refuse, Install
  <2> QED BY <2>1, DoneKeeps
<1>4. ASSUME NEW t \in Admins, Taken(t) PROVE Inv'
  BY <1>4, TakenKeeps
<1>5. ASSUME NEW t \in Admins, Names(t) PROVE Inv'
  <2>1. CASE Refuse(t)
    BY <1>3, <2>1
  <2>2. CASE ~Refuse(t)
    BY <1>5, <2>2, NamesKeep DEF Names
  <2> QED BY <2>1, <2>2
<1>6. ASSUME NEW t \in Admins, Find(t) PROVE Inv'
  BY <1>6, FindKeeps
<1>7. ASSUME NEW t \in Admins, Update(t) \/ Alias(t) PROVE Inv'
  BY <1>7, UpdateKeeps
<1>8. ASSUME NEW t \in Admins, Insert(t) PROVE Inv'
  <2>1. CASE row[job[t].key] = None
    BY <1>8, <2>1, InsertKeeps
  <2>2. CASE row[job[t].key] # None
    BY <1>3, <1>8, <2>2 DEF Insert
  <2> QED BY <2>1, <2>2
<1>9. ASSUME NEW t \in Admins, Clear(t) \/ Members(t) \/ Reread(t) PROVE Inv'
  <2>1. /\ UNCHANGED <<row, route, job, seen, shared>> /\ pc[t] \in SaveSteps
        /\ Goto(t, "reread") \/ Goto(t, "members") \/ Goto(t, "install")
    BY <1>9 DEF Clear, Members, Reread, SaveSteps
  <2>2. {"reread", "members", "install"} \subseteq Carefree
    BY DEF Carefree, Labels, SaveSteps
  <2> QED BY <2>1, <2>2, Onward
<1>10. ASSUME NEW t \in Admins, Check(t) PROVE Inv'
  <2>1. CASE Refuse(t)
    BY <1>3, <2>1
  <2>2. CASE ~Refuse(t)
    BY <1>10, <2>2, CheckKeeps DEF Check
  <2> QED BY <2>1, <2>2
<1>11. ASSUME NEW t \in Admins, Write(t) PROVE Inv'
  <2>1. CASE Refuse(t)
    BY <1>3, <2>1
  <2>2. CASE ~Refuse(t)
    BY <1>11, <2>2, RouteWritten DEF Write
  <2> QED BY <2>1, <2>2
<1>12. ASSUME NEW t \in Admins,
              \/ FetchRows(t) \/ FetchList(t) \/ Empty(t) \/ Fill(t)
              \/ FetchRoutes(t) \/ EmptyRoutes(t) \/ FillRoutes(t)
       PROVE  Inv'
  <2>1. /\ UNCHANGED <<row, route, shared>>
        /\ pc[t] \in ReloadSteps
        /\ \/ Done(t)
           \/ UNCHANGED <<job, seen, pc>>
           \/ UNCHANGED <<job, seen>> /\ \E l \in ReloadSteps : Goto(t, l)
    BY <1>12 DEF FetchRows, FetchList, Empty, Fill, FetchRoutes, EmptyRoutes, FillRoutes, ReloadSteps
  <2>2. CASE Done(t)
    BY <2>1, <2>2, DoneKeeps
  <2>3. CASE UNCHANGED <<job, seen, pc>>
    BY <2>1, <2>3 DEF Inv, Shapes, Placed, NamesInv, Alone, Relied, Bears
  <2>4. CASE UNCHANGED <<job, seen>> /\ \E l \in ReloadSteps : Goto(t, l)
    <3>1. ReloadSteps \subseteq Carefree /\ ReloadSteps \cap SaveSteps = {}
      BY DEF Carefree, Labels, SaveSteps, ReloadSteps
    <3> QED BY <2>1, <2>4, <3>1, Onward
  <2> QED BY <2>1, <2>2, <2>3, <2>4
<1> QED BY <1>1, <1>2, <1>3, <1>4, <1>5, <1>6, <1>7, <1>8, <1>9, <1>10, <1>11, <1>12 DEF Next

LEMMA InitInv == Init => Inv
BY DEF Init, Inv, Shapes, Placed, NamesInv, Alone, Relied, Bears, Labels, SaveSteps

\* One alias belongs to one model or to one smart route, unless two saves of that
\* name overlapped or the names of the routes could not be read: of the checks
\* and writes of all other saves, however they interleave, one sees the other.
THEOREM AliasesUniqueSafe == Spec => []AliasesUnique
<1>1. Inv => AliasesUnique
  <2> SUFFICES ASSUME Inv, NEW a \in Aliases \ shared PROVE Cardinality(Holders(a)) <= 1
    BY DEF AliasesUnique
  <2>1. Alone(a)
    BY DEF Inv, NamesInv
  <2>2. \A x, y \in Holders(a) : x = y
    BY <2>1 DEF Holders, Alone, Bears
  <2>3. CASE Holders(a) = {}
    BY <2>3, FS_EmptySet
  <2>4. CASE Holders(a) # {}
    <3>1. PICK x \in Holders(a) : TRUE
      BY <2>4
    <3>2. Holders(a) = {x}
      BY <2>2, <3>1
    <3> QED BY <3>2, FS_Singleton
  <2> QED BY <2>3, <2>4
<1> QED BY <1>1, InitInv, StepKeeps, PTL DEF Spec
-----------------------------------------------------------------------------
(* Types of all variables, and what a handler has fetched. *)

Holding(t) ==
  /\ pc[t] = "members" => todo[t] \subseteq Users
  /\ pc[t] \in {"lists", "empty", "fill"} =>
       /\ DOMAIN snap[t] \subseteq Keys /\ snap[t] = [k \in DOMAIN snap[t] |-> snap[t][k]]
       /\ \A k \in DOMAIN snap[t] :
            snap[t][k] \in IF pc[t] = "lists" /\ k \in todo[t] THEN Rows ELSE Entries
  /\ pc[t] \in {"lists", "fill"} => todo[t] \subseteq DOMAIN snap[t]
  /\ pc[t] \in {"rempty", "rfill"} => snap[t] \in [Aliases -> Routes \cup {None}]
  /\ pc[t] = "rfill" => todo[t] \subseteq Aliases
  /\ pc[t] = "install" => snap[t] \in Rows
  /\ pc[t] \in {"update", "clear", "members", "reread"} => row[job[t].key] # None
  /\ pc[t] \in {"rows", "lists", "empty", "fill"} => job[t].op = "refresh"
  /\ pc[t] \in {"fetch", "rempty", "rfill"} =>
       \/ job[t].op = "refresh"
       \/ job[t].op \in {"route", "show", "drop"} /\ job[t].alias \in Aliases

Held == snap = [t \in Admins |-> snap[t]] /\ \A t \in Admins : Holding(t)

\* Handler o is where it was, with what it had.
Still(o) == pc'[o] = pc[o] /\ job'[o] = job[o] /\ snap'[o] = snap[o] /\ todo'[o] = todo[o]

LEMMA StillHolds ==
  ASSUME Inv, NEW o \in Admins, Still(o), Holding(o),
         \A k \in Keys : row[k] # None => row'[k] # None
  PROVE  Holding(o)'
<1>1. pc[o] \in {"update", "clear", "members", "reread"} => job[o].key \in Keys
  BY DEF Inv, Placed, Saves, SaveSteps
<1> QED BY <1>1 DEF Still, Holding

LEMMA Ends ==
  ASSUME TypeOK, Held, NEW t \in Admins, Done(t)
  PROVE  /\ pc'[t] = "idle" /\ pc' \in [Admins -> Labels]
         /\ job' \in [Admins -> Asked \cup {NoJob}] /\ seen' \in [Admins -> SUBSET Aliases]
         /\ todo' \in [Admins -> SUBSET (Things \cup Users)]
         /\ snap' = [o \in Admins |-> snap'[o]]
         /\ \A o \in Admins \ {t} : Still(o)
BY DEF TypeOK, Held, Done, Goto, Labels, Still

LEMMA Walks ==
  ASSUME TypeOK, NEW t \in Admins, NEW l \in Labels, Goto(t, l)
  PROVE  /\ pc' \in [Admins -> Labels] /\ pc'[t] = l
         /\ \A o \in Admins \ {t} : pc'[o] = pc[o]
BY DEF TypeOK, Goto, Labels

LEMMA Disturbs ==
  ASSUME TypeOK, NEW t \in Admins, NEW x \in Things, Disturb(t, x)
  PROVE  /\ stale' \in [Admins -> SUBSET Things]
         /\ stale'[t] = stale[t]
         /\ \A o \in Admins \ {t} : stale[o] \subseteq stale'[o]
         /\ \A o \in Admins \ {t} : Knows(o, x) => x \in stale'[o]
BY DEF TypeOK, Disturb

LEMMA Settles ==
  ASSUME TypeOK, NEW t \in Admins, NEW xs \in SUBSET Things, Settle(t, xs)
  PROVE  /\ stale' \in [Admins -> SUBSET Things] /\ torn' \subseteq Things
         /\ stale'[t] = stale[t] \ xs
         /\ torn' = (torn \ xs) \cup (stale[t] \cap xs)
         /\ \A o \in Admins \ {t} : stale[o] \subseteq stale'[o]
BY DEF TypeOK, Settle

LEMMA Shares ==
  ASSUME TypeOK, NEW t \in Admins, NEW xs \in SUBSET Aliases, Share(t, xs)
  PROVE  shared' \subseteq Aliases
BY DEF TypeOK, Share

LEMMA JobKinds ==
  ASSUME NEW j \in Asked
  PROVE  /\ j.op = "route" => j.want \in Routes
         /\ j.op = "show" => j.all \in BOOLEAN /\ j.users \in SUBSET Users
<1>1. j \in Jobs
  BY ModelSettingsAssumption
<1>2. \A c \in Configs : c \in Routes
  BY ModelSettingsAssumption
<1> QED BY <1>1, <1>2 DEF Jobs

LEMMA StoredType ==
  ASSUME NEW c \in Routes
  PROVE  Stored(c) \in Routes
<1>1. c.rules \in Seq(Rules) /\ c.fallback \in Keys /\ c.all \in BOOLEAN /\ c.users \in SUBSET Users
  BY DEF Routes
<1>2. \A r \in Rules : StoredRule(r) \in Rules
  BY DEF Rules, StoredRule, Given, Times
<1>3. [i \in DOMAIN c.rules |-> StoredRule(c.rules[i])] \in Seq(Rules)
  <2>1. Len(c.rules) \in Nat /\ DOMAIN c.rules = 1 .. Len(c.rules)
    BY <1>1
  <2>2. \A i \in 1 .. Len(c.rules) : StoredRule(c.rules[i]) \in Rules
    BY <1>1, <1>2
  <2> QED BY <2>1, <2>2
<1> QED BY <1>1, <1>3 DEF Stored, Routes

\* A step of t: the others stay where they are, and everything outside the
\* tables and the caches keeps its type.
Frame(t) ==
  /\ pc' \in [Admins -> Labels] /\ job' \in [Admins -> Asked \cup {NoJob}]
  /\ seen' \in [Admins -> SUBSET Aliases]
  /\ todo' \in [Admins -> SUBSET (Things \cup Users)]
  /\ snap' = [o \in Admins |-> snap'[o]]
  /\ \A o \in Admins \ {t} : Still(o)
  /\ jobs' \in 0 .. MaxJobs
  /\ loose' \subseteq Aliases /\ shared' \subseteq Aliases
  /\ stale' \in [Admins -> SUBSET Things] /\ torn' \subseteq Things

LEMMA EndFrame ==
  ASSUME TypeOK, Inv, Held, NEW t \in Admins, Refuse(t) \/ Abort(t)
  PROVE  Frame(t)
<1> USE DEF tables, caches, local, history
<1>1. Done(t) /\ UNCHANGED <<jobs, loose, shared>> /\ stale' = [stale EXCEPT ![t] = {}]
  BY DEF Refuse, Abort
<1>2. torn' \subseteq Things
  <2>1. Unsettled(t) \subseteq Things
    BY DEF Unsettled, Things, Held, Holding, Inv, Placed, SaveSteps, Saves
  <2> QED BY <2>1 DEF Refuse, Abort, TypeOK
<1> QED BY <1>1, <1>2, Ends DEF Frame, TypeOK

LEMMA StartFrame ==
  ASSUME TypeOK, Held, NEW t \in Admins, Start(t)
  PROVE  Frame(t)
<1>1. PICK j \in Asked : job' = [job EXCEPT ![t] = j] /\ Goto(t, FirstStep(j))
  BY DEF Start
<1>2. FirstStep(j) \in Labels
  BY JobTypes DEF FirstStep, Labels, SaveSteps, ReloadSteps
<1>3. jobs' \in 0 .. MaxJobs
  BY ModelSettingsAssumption DEF Start, TypeOK
<1> QED BY <1>1, <1>2, <1>3, Walks DEF Start, Frame, TypeOK, Held, Still, tables, caches, history

\* A statement that leaves job and seen alone.
LEMMA GoFrame ==
  ASSUME TypeOK, Held, NEW t \in Admins, NEW l \in Labels, Goto(t, l),
         UNCHANGED <<job, jobs, loose, torn>>,
         \/ UNCHANGED seen
         \/ \E ns \in SUBSET Aliases : seen' = [seen EXCEPT ![t] = ns],
         \/ UNCHANGED todo
         \/ \E xs \in SUBSET (Things \cup Users) : todo' = [todo EXCEPT ![t] = xs],
         UNCHANGED snap \/ \E f : snap' = [snap EXCEPT ![t] = f],
         shared' \subseteq Aliases,
         stale' = stale \/ \E x \in Things : Disturb(t, x)
  PROVE  Frame(t)
<1>1. stale' \in [Admins -> SUBSET Things]
  BY Disturbs DEF TypeOK
<1>2. seen' \in [Admins -> SUBSET Aliases] /\ todo' \in [Admins -> SUBSET (Things \cup Users)]
  BY DEF TypeOK
<1>3. snap' = [o \in Admins |-> snap'[o]] /\ \A o \in Admins \ {t} : snap'[o] = snap[o]
  BY DEF Held
<1>4. \A o \in Admins \ {t} : todo'[o] = todo[o]
  BY DEF TypeOK
<1> QED BY <1>1, <1>2, <1>3, <1>4, Walks DEF Frame, TypeOK, Still

LEMMA SaveFrame ==
  ASSUME TypeOK, Inv, Held, NEW t \in Admins, ~Refuse(t),
         \/ Taken(t) \/ Names(t) \/ Find(t) \/ Update(t) \/ Insert(t) \/ Alias(t)
         \/ Clear(t) \/ Members(t) \/ Reread(t)
  PROVE  Frame(t) /\ job[t] \in Saves
<1> USE DEF tables, caches, local, history
<1>1. job[t] \in Saves
  BY DEF Inv, Placed, SaveSteps, Taken, Names, Find, Update, Insert, Alias, Clear, Members, Reread
<1>2. job[t].key \in Things /\ job[t].want.aliases \in SUBSET Aliases /\ job[t].want.users \in SUBSET Users
  BY <1>1 DEF Saves, Entries, Things
<1>3. SaveSteps \subseteq Labels
  BY DEF Labels
<1>4. CASE Taken(t)
  <2>1. Goto(t, "names") /\ UNCHANGED <<job, jobs, loose, torn, todo, snap, stale>>
    BY <1>4 DEF Taken
  <2>2. NamesOfRoutes \in SUBSET Aliases
    BY DEF NamesOfRoutes
  <2>3. shared' \subseteq Aliases
    BY <1>4, <2>2 DEF Taken, TypeOK
  <2>4. UNCHANGED seen \/ \E ns \in SUBSET Aliases : seen' = [seen EXCEPT ![t] = ns]
    BY <1>4, <2>2 DEF Taken
  <2>5. "names" \in Labels
    BY DEF Labels, SaveSteps
  <2> QED BY <1>1, <2>1, <2>3, <2>4, <2>5, GoFrame
<1>5. CASE Names(t) \/ Find(t) \/ Reread(t)
  <2>1. PICK l \in SaveSteps : Goto(t, l)
    BY <1>5 DEF Names, Find, Reread, SaveSteps
  <2>2. UNCHANGED <<job, jobs, loose, torn, todo, seen, shared, stale>>
    BY <1>5 DEF Names, Find, Reread
  <2>3. UNCHANGED snap \/ \E f : snap' = [snap EXCEPT ![t] = f]
    BY <1>5 DEF Names, Find, Reread
  <2>4. shared' \subseteq Aliases
    BY <2>2 DEF TypeOK
  <2> QED BY <1>1, <1>3, <2>1, <2>2, <2>3, <2>4, GoFrame
<1>6. CASE Update(t) \/ Insert(t) \/ Alias(t)
  <2>1. PICK l \in SaveSteps : Goto(t, l)
    BY <1>6 DEF Update, Insert, Alias, SaveSteps
  <2>2. UNCHANGED <<job, jobs, loose, torn, todo, seen, snap>> /\ Disturb(t, job[t].key)
    BY <1>6 DEF Update, Insert, Alias
  <2>3. shared' = shared \/ Share(t, job[t].want.aliases)
    BY <1>6 DEF Update, Insert, Alias
  <2>4. shared' \subseteq Aliases
    BY <1>2, <2>3, Shares DEF TypeOK
  <2> QED BY <1>1, <1>2, <1>3, <2>1, <2>2, <2>4, GoFrame
<1>7. CASE Clear(t) \/ Members(t)
  <2>1. PICK l \in SaveSteps : Goto(t, l)
    BY <1>7 DEF Clear, Members, SaveSteps
  <2>2. UNCHANGED <<job, jobs, loose, torn, seen, snap, shared>> /\ Disturb(t, job[t].key)
    BY <1>7 DEF Clear, Members
  <2>3. \E xs \in SUBSET (Things \cup Users) : todo' = [todo EXCEPT ![t] = xs]
    <3>1. CASE Clear(t)
      BY <1>2, <3>1 DEF Clear
    <3>2. CASE Members(t)
      <4>1. PICK u \in todo[t] : todo' = [todo EXCEPT ![t] = @ \ {u}]
        BY <3>2 DEF Members
      <4>2. todo' = [todo EXCEPT ![t] = todo[t] \ {u}] /\ todo[t] \ {u} \in SUBSET (Things \cup Users)
        BY <4>1 DEF TypeOK
      <4> QED BY <4>2
    <3> QED BY <1>7, <3>1, <3>2
  <2>4. shared' \subseteq Aliases
    BY <2>2 DEF TypeOK
  <2> QED BY <1>1, <1>2, <1>3, <2>1, <2>2, <2>3, <2>4, GoFrame
<1> QED BY <1>4, <1>5, <1>6, <1>7
LEMMA RouteFrame ==
  ASSUME TypeOK, Inv, Held, NEW t \in Admins, ~Refuse(t), Check(t) \/ Write(t)
  PROVE  Frame(t) /\ job[t].alias \in Aliases
<1> USE DEF tables, caches, local, history
<1>1. job[t].alias \in Aliases /\ {"write", "fetch"} \subseteq Labels
  BY DEF Inv, Placed, Check, Write, Labels, ReloadSteps
<1>2. CASE Check(t)
  BY <1>1, <1>2, GoFrame DEF Check, TypeOK
<1>3. CASE Write(t)
  <2>1. /\ Goto(t, "fetch") /\ UNCHANGED <<job, seen, snap, todo, jobs, torn>>
        /\ Disturb(t, job[t].alias)
        /\ Share(t, IF job[t].op = "route" THEN {job[t].alias} ELSE {})
    BY <1>3 DEF Write
  <2>2. loose' \subseteq Aliases
    BY <1>1, <1>3 DEF Write, TypeOK, LooseNow
  <2>3. shared' \subseteq Aliases
    BY <1>1, <2>1, Shares
  <2>4. job[t].alias \in Things
    BY <1>1 DEF Things
  <2>5. stale' \in [Admins -> SUBSET Things]
    BY <2>1, <2>4, Disturbs
  <2>6. pc' \in [Admins -> Labels] /\ \A o \in Admins \ {t} : pc'[o] = pc[o]
    BY <1>1, <2>1, Walks
  <2> QED BY <1>1, <2>1, <2>2, <2>3, <2>5, <2>6 DEF Frame, TypeOK, Held, Still
<1> QED BY <1>2, <1>3

\* Reloads: the fetches.
LEMMA FetchFrame ==
  ASSUME TypeOK, Held, NEW t \in Admins, FetchRows(t) \/ FetchList(t) \/ FetchRoutes(t)
  PROVE  Frame(t)
<1> USE DEF tables, caches, local, history
<1>1. PICK l \in {"empty", "lists", "rempty"} : Goto(t, l)
  BY DEF FetchRows, FetchList, FetchRoutes
<1>2. l \in Labels
  BY DEF Labels, ReloadSteps
<1>3. UNCHANGED <<job, jobs, seen, loose, shared, stale, torn>>
  BY DEF FetchRows, FetchList, FetchRoutes
<1>4. \E f : snap' = [snap EXCEPT ![t] = f]
  BY DEF FetchRows, FetchList, FetchRoutes
<1>5. UNCHANGED todo \/ \E xs \in SUBSET (Things \cup Users) : todo' = [todo EXCEPT ![t] = xs]
  <2>1. CASE FetchRows(t)
    BY <2>1 DEF FetchRows, Things
  <2>2. CASE FetchList(t)
    <3>1. PICK k \in todo[t] : todo' = [todo EXCEPT ![t] = @ \ {k}]
      BY <2>2 DEF FetchList
    <3>2. todo' = [todo EXCEPT ![t] = todo[t] \ {k}] /\ todo[t] \ {k} \in SUBSET (Things \cup Users)
      BY <3>1 DEF TypeOK
    <3> QED BY <3>2
  <2>3. CASE FetchRoutes(t)
    BY <2>3 DEF FetchRoutes
  <2> QED BY <2>1, <2>2, <2>3
<1>6. shared' \subseteq Aliases
  BY <1>3 DEF TypeOK
<1> QED BY <1>1, <1>2, <1>3, <1>4, <1>5, <1>6, GoFrame

\* t puts the xs into a cache, and ends or goes on with what is left of them.
LEMMA PutFrame ==
  ASSUME TypeOK, Held, NEW t \in Admins, NEW xs \in SUBSET Things, Settle(t, xs),
         UNCHANGED <<jobs, loose, shared>>,
         \/ Done(t)
         \/ /\ UNCHANGED <<job, seen, snap>> /\ \E l \in Labels : Goto(t, l)
            /\ \E ys \in SUBSET Things : todo' = [todo EXCEPT ![t] = ys]
         \/ /\ UNCHANGED <<pc, job, seen, snap>>
            /\ \E ys \in SUBSET Things : todo' = [todo EXCEPT ![t] = ys]
  PROVE  Frame(t)
<1>1. stale' \in [Admins -> SUBSET Things] /\ torn' \subseteq Things
  BY Settles
<1>2. CASE Done(t)
  BY <1>1, <1>2, Ends DEF Frame, TypeOK
<1>3. ASSUME NEW ys \in SUBSET Things, todo' = [todo EXCEPT ![t] = ys]
      PROVE  /\ todo' \in [Admins -> SUBSET (Things \cup Users)]
             /\ \A o \in Admins \ {t} : todo'[o] = todo[o]
  BY <1>3 DEF TypeOK
<1>4. ASSUME NEW ys \in SUBSET Things, todo' = [todo EXCEPT ![t] = ys], UNCHANGED <<job, seen, snap>>,
             NEW l \in Labels, Goto(t, l)
      PROVE  Frame(t)
  BY <1>1, <1>3, <1>4, Walks DEF Frame, TypeOK, Held, Still
<1>5. ASSUME NEW ys \in SUBSET Things, todo' = [todo EXCEPT ![t] = ys], UNCHANGED <<pc, job, seen, snap>>
      PROVE  Frame(t)
  BY <1>1, <1>3, <1>5 DEF Frame, TypeOK, Held, Still, Labels
<1> QED BY <1>2, <1>4, <1>5

LEMMA CacheFrame ==
  ASSUME TypeOK, Inv, Held, NEW t \in Admins,
         Install(t) \/ Empty(t) \/ Fill(t) \/ EmptyRoutes(t) \/ FillRoutes(t)
  PROVE  Frame(t)
<1> USE DEF tables, caches, local, history
<1>1. UNCHANGED <<jobs, loose, shared>>
  BY DEF Install, Empty, Fill, EmptyRoutes, FillRoutes
<1>2. CASE Install(t)
  <2>1. job[t].key \in Things
    BY <1>2 DEF Install, Inv, Placed, SaveSteps, Saves, Things
  <2> QED BY <1>1, <1>2, <2>1, PutFrame DEF Install
<1>3. CASE Empty(t)
  <2>1. DOMAIN snap[t] \in SUBSET Things /\ Keys \ DOMAIN snap[t] \in SUBSET Things
    BY <1>3 DEF Empty, Held, Holding, Things
  <2>2. /\ Settle(t, Keys \ DOMAIN snap[t]) /\ UNCHANGED <<job, seen, snap>>
        /\ todo' = [todo EXCEPT ![t] = DOMAIN snap[t]]
        /\ \E l \in {"fetch", "fill"} : Goto(t, l)
    BY <1>3 DEF Empty
  <2>3. {"fetch", "fill"} \subseteq Labels
    BY DEF Labels, ReloadSteps
  <2> QED BY <1>1, <2>1, <2>2, <2>3, PutFrame
<1>4. CASE Fill(t)
  <2>1. todo[t] \in SUBSET Things
    BY <1>4 DEF Fill, Held, Holding, Things
  <2>2. PICK k \in todo[t] :
          /\ Settle(t, {k}) /\ todo' = [todo EXCEPT ![t] = todo[t] \ {k}]
          /\ \E l \in {"fetch", "fill"} : Goto(t, l)
    BY <1>4 DEF Fill, TypeOK
  <2>3. {"fetch", "fill"} \subseteq Labels /\ UNCHANGED <<job, seen, snap>>
    BY <1>4 DEF Labels, ReloadSteps, Fill
  <2>4. {k} \in SUBSET Things /\ todo[t] \ {k} \in SUBSET Things
    BY <2>1
  <2> QED BY <1>1, <2>2, <2>3, <2>4, PutFrame
<1>5. CASE EmptyRoutes(t)
  <2> DEFINE found == {a \in Aliases : snap[t][a] # None}
  <2>1. found \in SUBSET Things /\ Aliases \ found \in SUBSET Things
    BY DEF Things
  <2>2. /\ Settle(t, Aliases \ found)
        /\ \/ Done(t)
           \/ /\ todo' = [todo EXCEPT ![t] = found] /\ Goto(t, "rfill")
              /\ UNCHANGED <<job, seen, snap>>
    BY <1>5 DEF EmptyRoutes
  <2>3. "rfill" \in Labels
    BY DEF Labels, ReloadSteps
  <2> HIDE DEF found
  <2> QED BY <1>1, <2>1, <2>2, <2>3, PutFrame
<1>6. CASE FillRoutes(t)
  <2>1. todo[t] \in SUBSET Things
    BY <1>6 DEF FillRoutes, Held, Holding, Things
  <2>2. PICK a \in todo[t] :
          /\ Settle(t, {a})
          /\ \/ Done(t)
             \/ /\ todo' = [todo EXCEPT ![t] = todo[t] \ {a}]
                /\ UNCHANGED <<pc, job, seen, snap>>
    BY <1>6 DEF FillRoutes, TypeOK
  <2>3. {a} \in SUBSET Things /\ todo[t] \ {a} \in SUBSET Things
    BY <2>1
  <2> QED BY <1>1, <2>2, <2>3, PutFrame
<1> QED BY <1>2, <1>3, <1>4, <1>5, <1>6
LEMMA TypesFrom ==
  ASSUME TypeOK, Inv, Held, NEW t \in Admins, Frame(t), Holding(t)',
         row' \in [Keys -> Rows \cup {None}], members' \in [Keys -> SUBSET Users],
         \A k \in Keys : row'[k] = None => members'[k] = {},
         cache' \in [Keys -> Entries \cup {None}],
         route' \in [Aliases -> Routes \cup {None}], rcache' \in [Aliases -> Routes \cup {None}],
         \A k \in Keys : row[k] # None => row'[k] # None
  PROVE  TypeOK' /\ Held'
<1>1. TypeOK'
  BY DEF TypeOK, Labels, Frame
<1>2. \A o \in Admins \ {t} : Holding(o)'
  BY StillHolds DEF Held, Frame
<1> QED BY <1>1, <1>2 DEF Held, Frame

\* The same for a step that leaves the tables and the caches alone.
LEMMA LocalTypes ==
  ASSUME TypeOK, Inv, Held, NEW t \in Admins, Frame(t), Holding(t)',
         UNCHANGED <<row, members, route, cache, rcache>>
  PROVE  TypeOK' /\ Held'
BY TypesFrom DEF TypeOK

LEMMA SaveTypes ==
  ASSUME TypeOK, Inv, Held, NEW t \in Admins, ~Refuse(t),
         \/ Taken(t) \/ Names(t) \/ Find(t) \/ Update(t) \/ Insert(t) \/ Alias(t)
         \/ Clear(t) \/ Members(t) \/ Reread(t)
  PROVE  TypeOK' /\ Held'
<1> USE DEF tables, caches, local, history
<1>1. Frame(t) /\ job[t] \in Saves
  BY SaveFrame
<1>2. PICK k \in Keys, w \in Entries : k = job[t].key /\ w = job[t].want
  BY <1>1 DEF Saves
<1>3. w.aliases \in SUBSET Aliases /\ w.all \in BOOLEAN /\ w.users \in SUBSET Users
  BY DEF Entries
<1>4. \A l \in Labels : Goto(t, l) => pc'[t] = l
  BY Walks
<1>5. SaveSteps \subseteq Labels
  BY DEF Labels
<1>6. CASE Taken(t) \/ Names(t)
  <2>1. Goto(t, "names") \/ Goto(t, "find")
    BY <1>6 DEF Taken, Names
  <2>2. pc'[t] \in {"names", "find"}
    BY <1>4, <1>5, <2>1 DEF SaveSteps
  <2>3. Holding(t)'
    BY <2>2 DEF Holding
  <2>4. UNCHANGED <<row, members, route, cache, rcache>>
    BY <1>6 DEF Taken, Names
  <2> QED BY <1>1, <2>3, <2>4, LocalTypes
<1>7. CASE Find(t)
  <2>1. pc'[t] = IF row[k] = None THEN "insert" ELSE "update"
    BY <1>2, <1>4, <1>5, <1>7 DEF Find, SaveSteps
  <2>2. UNCHANGED <<row, members, route, cache, rcache, job>>
    BY <1>7 DEF Find
  <2>3. Holding(t)'
    BY <1>2, <2>1, <2>2 DEF Holding
  <2> QED BY <1>1, <2>2, <2>3, LocalTypes
<1>8. CASE Update(t) \/ Insert(t) \/ Alias(t)
  <2>1. pc'[t] \in {"clear", "alias"}
    BY <1>4, <1>5, <1>8 DEF Update, Insert, Alias, SaveSteps
  <2>2. \E r \in Rows : row' = [row EXCEPT ![k] = r]
    <3>1. CASE Update(t)
      BY <1>2, <1>3, <3>1 DEF Update, Rows
    <3>2. CASE Insert(t)
      BY <1>2, <1>3, <3>2 DEF Insert, Rows
    <3>3. CASE Alias(t)
      <4>1. row[k] \in Rows
        BY <1>2, <3>3 DEF Alias, Inv, Placed, TypeOK
      <4>2. row' = [row EXCEPT ![k] = [row[k] EXCEPT !.aliases = w.aliases]]
        BY <1>2, <3>3 DEF Alias
      <4>3. [row[k] EXCEPT !.aliases = w.aliases] \in Rows
        BY <1>3, <4>1 DEF Rows
      <4> QED BY <4>2, <4>3
    <3> QED BY <1>8, <3>1, <3>2, <3>3
  <2>3. PICK r \in Rows : row' = [row EXCEPT ![k] = r]
    BY <2>2
  <2>4. r # None
    BY ModelSettingsAssumption
  <2>5. /\ row' \in [Keys -> Rows \cup {None}] /\ row'[k] # None
        /\ \A l \in Keys : row[l] # None => row'[l] # None
    BY <2>3, <2>4 DEF TypeOK
  <2>6. UNCHANGED <<members, route, cache, rcache, job>>
    BY <1>8 DEF Update, Insert, Alias
  <2>7. Holding(t)'
    BY <1>2, <2>1, <2>5, <2>6 DEF Holding
  <2>8. \A l \in Keys : row'[l] = None => members[l] = {}
    BY <2>5 DEF TypeOK
  <2> QED BY <1>1, <2>5, <2>6, <2>7, <2>8, TypesFrom DEF TypeOK
<1>9. CASE Clear(t)
  <2>1. /\ pc'[t] \in {"members", "reread"} /\ todo'[t] \subseteq Users
    BY <1>2, <1>3, <1>4, <1>5, <1>9 DEF Clear, SaveSteps, TypeOK
  <2>2. /\ row' = row /\ row[k] # None /\ UNCHANGED <<route, cache, rcache, job>>
        /\ members' = [members EXCEPT ![k] = {}]
    BY <1>2, <1>9 DEF Clear, Held, Holding
  <2>3. Holding(t)'
    BY <1>2, <2>1, <2>2 DEF Holding
  <2> QED BY <1>1, <2>2, <2>3, TypesFrom DEF TypeOK
<1>10. CASE Members(t)
  <2>1. PICK u \in todo[t] :
          /\ members' = [members EXCEPT ![k] = @ \cup {u}] /\ todo' = [todo EXCEPT ![t] = @ \ {u}]
          /\ Goto(t, "reread") \/ Goto(t, "members")
    BY <1>2, <1>10 DEF Members
  <2>2. /\ UNCHANGED <<row, route, cache, rcache, job>>
        /\ row[k] # None /\ todo[t] \subseteq Users
    BY <1>2, <1>10 DEF Members, Held, Holding
  <2>3. pc'[t] \in {"members", "reread"} /\ todo'[t] \subseteq Users
    BY <1>4, <1>5, <2>1, <2>2 DEF SaveSteps, TypeOK
  <2>4. Holding(t)'
    BY <1>2, <2>2, <2>3 DEF Holding
  <2>5. members' \in [Keys -> SUBSET Users] /\ \A l \in Keys \ {k} : members'[l] = members[l]
    BY <2>1, <2>2 DEF TypeOK
  <2> QED BY <1>1, <2>2, <2>4, <2>5, TypesFrom DEF TypeOK
<1>11. CASE Reread(t)
  <2>1. /\ pc'[t] = "install" /\ snap'[t] = row[k] /\ row[k] \in Rows
    BY <1>2, <1>4, <1>5, <1>11 DEF Reread, SaveSteps, Held, Holding, TypeOK
  <2>2. Holding(t)'
    BY <2>1 DEF Holding
  <2>3. UNCHANGED <<row, members, route, cache, rcache>>
    BY <1>11 DEF Reread
  <2> QED BY <1>1, <2>2, <2>3, LocalTypes
<1> QED BY <1>6, <1>7, <1>8, <1>9, <1>10, <1>11

\* The route that an administrator asks for.
LEMMA ChangedType ==
  ASSUME TypeOK, NEW j \in Asked, j.op \in {"route", "show", "drop"},
         j.op = "route" \/ route[j.alias] # None
  PROVE  Changed(j) \in Routes \cup {None}
<1>1. CASE j.op = "route"
  BY <1>1, JobKinds, StoredType DEF Changed
<1>2. CASE j.op = "show"
  <2>1. route[j.alias] \in Routes /\ j.all \in BOOLEAN /\ j.users \in SUBSET Users
    BY <1>2, JobTypes, JobKinds DEF TypeOK
  <2>2. [route[j.alias] EXCEPT !.all = j.all, !.users = IF j.all THEN {} ELSE j.users] \in Routes
    BY <2>1 DEF Routes
  <2> QED BY <1>2, <2>2 DEF Changed
<1>3. CASE j.op = "drop"
  BY <1>3 DEF Changed
<1> QED BY <1>1, <1>2, <1>3

LEMMA RouteTypes ==
  ASSUME TypeOK, Inv, Held, NEW t \in Admins, ~Refuse(t), Check(t) \/ Write(t)
  PROVE  TypeOK' /\ Held'
<1> USE DEF tables, caches, local, history
<1>1. Frame(t) /\ job[t].alias \in Aliases
  BY RouteFrame
<1>2. {"write", "fetch"} \subseteq Labels
  BY DEF Labels, ReloadSteps
<1>3. CASE Check(t)
  <2>1. pc'[t] = "write" /\ UNCHANGED <<row, members, route, cache, rcache>>
    BY <1>2, <1>3, Walks DEF Check
  <2>2. Holding(t)'
    BY <2>1 DEF Holding
  <2> QED BY <1>1, <2>1, <2>2, LocalTypes
<1>4. CASE Write(t)
  <2>1. /\ pc'[t] = "fetch" /\ UNCHANGED <<row, members, cache, rcache, job>>
        /\ route' = [route EXCEPT ![job[t].alias] = Changed(job[t])]
        /\ job[t].op = "route" \/ route[job[t].alias] # None
    BY <1>2, <1>4, Walks DEF Write
  <2>2. job[t].op \in {"route", "show", "drop"} /\ job[t] \in Asked
    <3>1. job[t].op \in {"route", "show", "drop"}
      BY <1>4 DEF Write, Inv, Placed
    <3> QED BY <3>1 DEF TypeOK, NoJob
  <2>3. Changed(job[t]) \in Routes \cup {None}
    BY <2>1, <2>2, ChangedType
  <2>4. route' \in [Aliases -> Routes \cup {None}]
    BY <1>1, <2>1, <2>3 DEF TypeOK
  <2>5. Holding(t)'
    BY <1>1, <2>1, <2>2 DEF Holding
  <2> QED BY <1>1, <2>1, <2>4, <2>5, TypesFrom DEF TypeOK
<1> QED BY <1>3, <1>4
LEMMA EndTypes ==
  ASSUME TypeOK, Inv, Held, NEW t \in Admins, Refuse(t) \/ Abort(t)
  PROVE  TypeOK' /\ Held'
<1>1. Frame(t)
  BY EndFrame
<1>2. Done(t) /\ UNCHANGED <<row, members, route, cache, rcache>>
  BY DEF Refuse, Abort, tables, caches
<1>3. Holding(t)'
  BY <1>2, Ends DEF Holding
<1> QED BY <1>1, <1>2, <1>3, LocalTypes

LEMMA StartTypes ==
  ASSUME TypeOK, Inv, Held, NEW t \in Admins, Start(t)
  PROVE  TypeOK' /\ Held'
<1>1. Frame(t)
  BY StartFrame
<1>2. PICK j \in Asked : job' = [job EXCEPT ![t] = j] /\ Goto(t, FirstStep(j))
  BY DEF Start
<1>3. FirstStep(j) \in {"find", "taken", "check", "write", "rows"}
      /\ (FirstStep(j) = "rows" => j.op = "refresh")
  BY JobTypes DEF FirstStep
<1>4. pc'[t] = FirstStep(j) /\ job'[t] = j
  BY <1>2, <1>3, Walks DEF TypeOK, Labels, SaveSteps, ReloadSteps
<1>5. Holding(t)'
  BY <1>3, <1>4 DEF Holding
<1>6. UNCHANGED <<row, members, route, cache, rcache>>
  BY DEF Start, tables, caches
<1> QED BY <1>1, <1>5, <1>6, LocalTypes

\* What a reload has fetched, list by list.
LEMMA FetchListShape ==
  ASSUME TypeOK, Held, NEW t \in Admins, FetchList(t)
  PROVE  \E k \in todo[t] :
           /\ k \in Keys /\ k \in DOMAIN snap[t] /\ snap[t][k] \in Rows
           /\ DOMAIN snap'[t] = DOMAIN snap[t]
           /\ snap'[t] = [l \in DOMAIN snap'[t] |-> snap'[t][l]]
           /\ snap'[t][k] = [aliases |-> snap[t][k].aliases, all |-> snap[t][k].all,
                             users |-> members[k]]
           /\ \A l \in DOMAIN snap[t] \ {k} : snap'[t][l] = snap[t][l]
           /\ todo'[t] = todo[t] \ {k}
           /\ pc'[t] = IF todo[t] = {k} THEN "empty" ELSE "lists"
<1>1. PICK k \in todo[t] :
        /\ snap' = [snap EXCEPT ![t][k] =
                      [aliases |-> @.aliases, all |-> @.all, users |-> members[k]]]
        /\ todo' = [todo EXCEPT ![t] = @ \ {k}]
        /\ Goto(t, IF todo[t] = {k} THEN "empty" ELSE "lists")
  BY DEF FetchList
<1>2. pc[t] = "lists"
  BY DEF FetchList
<1>3. /\ DOMAIN snap[t] \subseteq Keys /\ snap[t] = [l \in DOMAIN snap[t] |-> snap[t][l]]
      /\ k \in DOMAIN snap[t] /\ snap[t][k] \in Rows
  BY <1>1, <1>2 DEF Held, Holding
<1>4. snap'[t] = [snap[t] EXCEPT ![k] = [aliases |-> snap[t][k].aliases, all |-> snap[t][k].all,
                                         users |-> members[k]]]
  BY <1>1 DEF Held
<1>5. todo'[t] = todo[t] \ {k}
  BY <1>1 DEF TypeOK
<1>6. pc'[t] = IF todo[t] = {k} THEN "empty" ELSE "lists"
  BY <1>1, Walks DEF Labels, ReloadSteps
<1>7. /\ DOMAIN snap'[t] = DOMAIN snap[t]
      /\ snap'[t] = [l \in DOMAIN snap'[t] |-> snap'[t][l]]
  BY <1>4
<1>8. snap'[t][k] = [aliases |-> snap[t][k].aliases, all |-> snap[t][k].all, users |-> members[k]]
  BY <1>3, <1>4
<1>9. \A l \in DOMAIN snap[t] \ {k} : snap'[t][l] = snap[t][l]
  BY <1>4
<1>10. k \in Keys
  BY <1>3
<1> QED BY <1>3, <1>5, <1>6, <1>7, <1>8, <1>9, <1>10

LEMMA FetchTypes ==
  ASSUME TypeOK, Inv, Held, NEW t \in Admins, FetchRows(t) \/ FetchList(t) \/ FetchRoutes(t)
  PROVE  TypeOK' /\ Held'
<1> USE DEF tables, caches, local, history
<1>1. Frame(t) /\ UNCHANGED <<row, members, route, cache, rcache, job>>
  BY FetchFrame DEF FetchRows, FetchList, FetchRoutes
<1>2. CASE FetchRows(t)
  <2> DEFINE found == {k \in Keys : row[k] # None}
  <2>1. /\ snap'[t] = [k \in found |-> row[k]] /\ todo'[t] = found
        /\ pc'[t] \in {"empty", "lists"} /\ (pc'[t] = "empty" => found = {})
        /\ pc[t] = "rows"
    BY <1>2, Walks DEF FetchRows, Held, TypeOK, Labels, ReloadSteps
  <2>2. \A k \in found : row[k] \in Rows
    BY DEF TypeOK
  <2>3. found \subseteq Keys /\ job[t].op = "refresh"
    BY <2>1 DEF Held, Holding
  <2> HIDE DEF found
  <2>4. Holding(t)'
    BY <1>1, <2>1, <2>2, <2>3 DEF Holding
  <2> QED BY <1>1, <2>4, LocalTypes
<1>3. CASE FetchList(t)
  <2>1. PICK k \in todo[t] :
          /\ k \in Keys /\ k \in DOMAIN snap[t] /\ snap[t][k] \in Rows
          /\ DOMAIN snap'[t] = DOMAIN snap[t]
          /\ snap'[t] = [l \in DOMAIN snap'[t] |-> snap'[t][l]]
          /\ snap'[t][k] = [aliases |-> snap[t][k].aliases, all |-> snap[t][k].all,
                            users |-> members[k]]
          /\ \A l \in DOMAIN snap[t] \ {k} : snap'[t][l] = snap[t][l]
          /\ todo'[t] = todo[t] \ {k}
          /\ pc'[t] = IF todo[t] = {k} THEN "empty" ELSE "lists"
    BY <1>3, FetchListShape
  <2>2. pc[t] = "lists" /\ job[t].op = "refresh" /\ todo[t] \subseteq DOMAIN snap[t]
        /\ DOMAIN snap[t] \subseteq Keys
    BY <1>3 DEF FetchList, Held, Holding
  <2>3. snap'[t][k] \in Entries
    BY <2>1 DEF Rows, Entries, TypeOK
  <2>4. \A l \in DOMAIN snap[t] \ {k} : snap'[t][l] \in IF l \in todo[t] THEN Rows ELSE Entries
    BY <2>1, <2>2 DEF Held, Holding
  <2>5. pc'[t] = "empty" => todo'[t] = {}
    BY <2>1
  <2>6. \A l \in DOMAIN snap'[t] :
          snap'[t][l] \in IF pc'[t] = "lists" /\ l \in todo'[t] THEN Rows ELSE Entries
    BY <2>1, <2>3, <2>4, <2>5
  <2>7. Holding(t)'
    BY <1>1, <2>1, <2>2, <2>6 DEF Holding
  <2> QED BY <1>1, <2>7, LocalTypes
<1>4. CASE FetchRoutes(t)
  <2>1. pc[t] = "fetch" /\ pc'[t] = "rempty" /\ snap'[t] = route
    BY <1>4, Walks DEF FetchRoutes, Held, Labels, ReloadSteps
  <2>2. Holding(t)'
    BY <1>1, <2>1 DEF Held, Holding, TypeOK
  <2> QED BY <1>1, <2>2, LocalTypes
<1> QED BY <1>2, <1>3, <1>4

LEMMA CacheTypes ==
  ASSUME TypeOK, Inv, Held, NEW t \in Admins,
         Install(t) \/ Empty(t) \/ Fill(t) \/ EmptyRoutes(t) \/ FillRoutes(t)
  PROVE  TypeOK' /\ Held'
<1> USE DEF tables, caches, local, history
<1>1. Frame(t) /\ UNCHANGED <<row, members, route>>
  BY CacheFrame DEF Install, Empty, Fill, EmptyRoutes, FillRoutes
<1>2. SUFFICES /\ cache' \in [Keys -> Entries \cup {None}] /\ rcache' \in [Aliases -> Routes \cup {None}]
               /\ Holding(t)'
  BY <1>1, TypesFrom DEF TypeOK
<1>3. ASSUME Done(t) PROVE Holding(t)'
  BY <1>3, Ends DEF Holding
<1>4. CASE Install(t)
  <2>1. snap[t] \in Rows /\ job[t] \in Saves
    BY <1>4 DEF Install, Held, Holding, Inv, Placed, SaveSteps
  <2>2. CachedEntry(t) \in Entries /\ job[t].key \in Keys
    BY <2>1 DEF CachedEntry, Rows, Saves, Entries
  <2> QED BY <1>3, <1>4, <2>2 DEF Install, TypeOK
<1>5. CASE Empty(t)
  <2>1. /\ pc[t] = "empty" /\ UNCHANGED <<rcache, snap, job>> /\ cache' = [k \in Keys |-> None]
        /\ todo'[t] = DOMAIN snap[t] /\ pc'[t] \in {"fetch", "fill"}
    BY <1>5, Walks DEF Empty, TypeOK, Labels, ReloadSteps
  <2>2. Holding(t)'
    BY <2>1 DEF Held, Holding
  <2> QED BY <2>1, <2>2 DEF TypeOK
<1>6. CASE Fill(t)
  <2>1. PICK k \in todo[t] :
          /\ cache' = [cache EXCEPT ![k] = snap[t][k]] /\ todo' = [todo EXCEPT ![t] = @ \ {k}]
          /\ Goto(t, IF todo[t] = {k} THEN "fetch" ELSE "fill")
    BY <1>6 DEF Fill
  <2>2. /\ pc[t] = "fill" /\ UNCHANGED <<rcache, snap, job>>
        /\ todo'[t] \subseteq todo[t] /\ pc'[t] \in {"fetch", "fill"}
    BY <1>6, <2>1, Walks DEF Fill, TypeOK, Labels, ReloadSteps
  <2>3. snap[t][k] \in Entries /\ k \in Keys
    BY <2>1, <2>2 DEF Held, Holding
  <2>4. Holding(t)'
    BY <2>2 DEF Held, Holding
  <2> QED BY <2>1, <2>2, <2>3, <2>4 DEF TypeOK
<1>7. CASE EmptyRoutes(t)
  <2>1. UNCHANGED cache /\ rcache' \in [Aliases -> Routes \cup {None}]
    BY <1>7 DEF EmptyRoutes
  <2>2. CASE ~Done(t)
    <3>1. /\ pc[t] = "rempty" /\ pc'[t] = "rfill" /\ UNCHANGED <<snap, job>> /\ todo'[t] \subseteq Aliases
      BY <1>7, <2>2, Walks DEF EmptyRoutes, TypeOK, Labels, ReloadSteps
    <3>2. Holding(t)'
      BY <3>1 DEF Held, Holding
    <3> QED BY <2>1, <3>2 DEF TypeOK
  <2> QED BY <1>3, <2>1, <2>2 DEF TypeOK
<1>8. CASE FillRoutes(t)
  <2>1. PICK a \in todo[t] : rcache' = [rcache EXCEPT ![a] = snap[t][a]]
    BY <1>8 DEF FillRoutes
  <2>2. pc[t] = "rfill" /\ UNCHANGED cache
    BY <1>8 DEF FillRoutes
  <2>3. a \in Aliases /\ snap[t][a] \in Routes \cup {None}
    BY <2>1, <2>2 DEF Held, Holding
  <2>4. CASE ~Done(t)
    <3>1. UNCHANGED <<pc, snap, job>> /\ todo'[t] \subseteq todo[t]
      BY <1>8, <2>4 DEF FillRoutes, TypeOK
    <3>2. Holding(t)'
      BY <2>2, <3>1 DEF Held, Holding
    <3> QED BY <2>1, <2>2, <2>3, <3>2 DEF TypeOK
  <2> QED BY <1>3, <2>1, <2>2, <2>3, <2>4 DEF TypeOK
<1> QED BY <1>4, <1>5, <1>6, <1>7, <1>8

\* Next, action by action; a check that refuses ends the handler.
LEMMA Actions ==
  ASSUME TypeOK, Next
  PROVE  \E t \in Admins :
           \/ Start(t) \/ Abort(t)
           \/ Refuse(t) /\ pc[t] \in {"names", "insert", "check", "write"}
           \/ ~Refuse(t) /\ (\/ Taken(t) \/ Names(t) \/ Find(t) \/ Update(t) \/ Insert(t) \/ Alias(t)
                             \/ Clear(t) \/ Members(t) \/ Reread(t))
           \/ ~Refuse(t) /\ (Check(t) \/ Write(t))
           \/ FetchRows(t) \/ FetchList(t) \/ FetchRoutes(t)
           \/ Install(t) \/ Empty(t) \/ Fill(t) \/ EmptyRoutes(t) \/ FillRoutes(t)
<1>1. PICK t \in Admins :
        \/ Start(t) \/ Abort(t)
        \/ Taken(t) \/ Names(t) \/ Find(t) \/ Update(t) \/ Insert(t) \/ Alias(t)
        \/ Clear(t) \/ Members(t) \/ Reread(t) \/ Install(t)
        \/ Check(t) \/ Write(t)
        \/ FetchRows(t) \/ FetchList(t) \/ Empty(t) \/ Fill(t)
        \/ FetchRoutes(t) \/ EmptyRoutes(t) \/ FillRoutes(t)
  BY DEF Next
<1>2. /\ Names(t) => pc[t] = "names"
      /\ Insert(t) => pc[t] = "insert"
      /\ Check(t) => pc[t] = "check"
      /\ Write(t) => pc[t] = "write"
  BY DEF Names, Insert, Check, Write
<1>3. /\ Taken(t) \/ Find(t) \/ Update(t) \/ Alias(t) \/ Clear(t) \/ Members(t) \/ Reread(t)
           => ~Refuse(t)
  <2>1. Refuse(t) => pc'[t] = "idle"
    BY DEF Refuse, Done, Goto, TypeOK
  <2>2. /\ Taken(t) \/ Find(t) \/ Update(t) \/ Alias(t) \/ Clear(t) \/ Members(t) \/ Reread(t)
             => \E l \in SaveSteps : Goto(t, l)
    BY DEF Taken, Find, Update, Alias, Clear, Members, Reread, SaveSteps
  <2>3. \A l \in SaveSteps : Goto(t, l) => pc'[t] # "idle"
    BY DEF Goto, TypeOK, SaveSteps
  <2> QED BY <2>1, <2>2, <2>3
<1> QED BY <1>1, <1>2, <1>3

LEMMA TypeStep ==
  ASSUME TypeOK, Inv, Held, [Next]_vars
  PROVE  TypeOK' /\ Held'
<1>1. CASE UNCHANGED vars
  BY <1>1 DEF vars, tables, caches, local, history, TypeOK, Held, Holding
<1>2. CASE Next
  BY <1>2, Actions, EndTypes, StartTypes, SaveTypes, RouteTypes, FetchTypes, CacheTypes
<1> QED BY <1>1, <1>2

LEMMA InitTypes == Init => TypeOK /\ Held
BY ModelSettingsAssumption DEF Init, TypeOK, Held, Holding, NoJob, Things

\* The tables, the caches and the handlers keep their types: no row loses its
\* users or keeps some without it, and no cache holds what is not an entry.
THEOREM TypeSafe == Spec => []TypeOK
<1>1. Init => TypeOK /\ Held /\ Inv
  BY InitTypes, InitInv
<1>2. (TypeOK /\ Held /\ Inv) /\ [Next]_vars => (TypeOK /\ Held /\ Inv)'
  BY TypeStep, StepKeeps
<1> QED BY <1>1, <1>2, PTL DEF Spec
-----------------------------------------------------------------------------
(* The caches and the tables.  A thing that nobody is changing and that has *)
(* not changed under anybody is in the cache as it is in the tables, and    *)
(* what a handler has read or written of a thing is what the tables say, as *)
(* long as nobody has written it since.                                     *)

Wanted(w) == IF w.all THEN {} ELSE w.users

\* How far the save of handler o has brought the tables of key k.
SavedBy(o, k) ==
  LET w == job[o].want IN
  /\ pc[o] = "alias" => row[k].all = w.all
  /\ pc[o] \in {"clear", "members", "reread", "install"} =>
       row[k] = [aliases |-> w.aliases, all |-> w.all]
  /\ pc[o] = "members" => todo[o] \subseteq Wanted(w) /\ members[k] = Wanted(w) \ todo[o]
  /\ pc[o] \in {"reread", "install"} => members[k] = Wanted(w)
  /\ pc[o] = "install" => snap[o] = row[k]

OwedKey(o, k) ==
  /\ pc[o] \in {"lists", "empty"} =>
       /\ k \in DOMAIN snap[o] <=> row[k] # None
       /\ row[k] # None =>
            snap[o][k] = IF pc[o] = "lists" /\ k \in todo[o] THEN row[k] ELSE Entry(k)
  /\ pc[o] = "fill" /\ k \in todo[o] => snap[o][k] = Entry(k)
  /\ pc[o] \in SaveSteps /\ job[o].key = k => SavedBy(o, k)

OwedRoute(o, a) ==
  pc[o] = "rempty" \/ (pc[o] = "rfill" /\ a \in todo[o]) => snap[o][a] = route[a]

Owed(o, x) == IF x \in Keys THEN OwedKey(o, x) ELSE OwedRoute(o, x)

Rightly(x) == IF x \in Keys THEN Alike(cache[x], Entry(x)) ELSE rcache[x] = route[x]

Right(x) ==
  /\ x \in torn \/ (\E o \in Admins : x \in Changing(o)) \/ Rightly(x)
  /\ \A o \in Admins : x \in stale[o] \/ Owed(o, x)

CacheInv == \A x \in Things : Right(x)

\* The step leaves the tables of x alone.
Fixed(x) == IF x \in Keys THEN row'[x] = row[x] /\ members'[x] = members[x]
            ELSE route'[x] = route[x]
\* The step leaves the place of x in its cache alone.
Uncached(x) == IF x \in Keys THEN cache'[x] = cache[x] ELSE rcache'[x] = rcache[x]

LEMMA OthersOwe ==
  ASSUME NEW x \in Things, NEW o \in Admins, Still(o), Fixed(x), Owed(o, x)
  PROVE  Owed(o, x)'
<1>1. CASE x \in Keys
  <2>1. row'[x] = row[x] /\ members'[x] = members[x] /\ OwedKey(o, x)
    BY <1>1 DEF Fixed, Owed
  <2>2. Entry(x)' = Entry(x)
    BY <2>1 DEF Entry
  <2>3. SavedBy(o, x) => SavedBy(o, x)'
    BY <2>1 DEF SavedBy, Still
  <2> QED BY <1>1, <2>1, <2>2, <2>3 DEF OwedKey, Owed, Still
<1>2. CASE x \notin Keys
  BY <1>2 DEF Fixed, Owed, OwedRoute, Still
<1> QED BY <1>1, <1>2

LEMMA Unknowing ==
  ASSUME NEW x \in Things, NEW o \in Admins, Still(o), ~Knows(o, x)
  PROVE  Owed(o, x)'
BY DEF Owed, OwedKey, OwedRoute, Still, Knows, Things

LEMMA OthersChange ==
  ASSUME NEW o \in Admins, Still(o)
  PROVE  Changing(o)' = Changing(o)
BY DEF Changing, Unsettled, Still

\* A step that leaves the tables of x alone, and puts into the cache what is
\* right, or cannot vouch for it.
LEMMA Brought ==
  ASSUME NEW t \in Admins, Frame(t), NEW x \in Things, Right(x), Fixed(x),
         \A o \in Admins \ {t} : x \in stale[o] => x \in stale'[o],
         x \in stale'[t] \/ Owed(t, x)',
         x \in torn' \/ x \in Changing(t)' \/ Rightly(x)'
  PROVE  Right(x)'
<1>1. \A o \in Admins : x \in stale'[o] \/ Owed(o, x)'
  BY OthersOwe DEF Right, Frame
<1> QED BY <1>1 DEF Right

\* A step that leaves the cache of x alone as well.
LEMMA Aside ==
  ASSUME NEW t \in Admins, Frame(t), NEW x \in Things, Right(x), Fixed(x), Uncached(x),
         \A o \in Admins \ {t} : x \in stale[o] => x \in stale'[o],
         x \in stale'[t] \/ Owed(t, x)',
         x \in torn => x \in torn',
         x \in Changing(t) => x \in torn' \/ x \in Changing(t)'
  PROVE  Right(x)'
<1>1. \A o \in Admins : x \in stale'[o] \/ Owed(o, x)'
  BY OthersOwe DEF Right, Frame
<1>2. Rightly(x) => Rightly(x)'
  BY DEF Rightly, Fixed, Uncached, Entry
<1>3. ASSUME NEW o \in Admins, x \in Changing(o)
      PROVE  x \in torn' \/ \E q \in Admins : x \in Changing(q)'
  BY <1>3, OthersChange DEF Frame
<1> QED BY <1>1, <1>2, <1>3 DEF Right

\* A statement of t that changes the tables of x.
LEMMA Touched ==
  ASSUME TypeOK, NEW t \in Admins, Frame(t), NEW x \in Things, Right(x), Disturb(t, x),
         x \in Changing(t)', x \in stale[t] \/ Owed(t, x)'
  PROVE  Right(x)'
<1>1. ASSUME NEW o \in Admins \ {t} PROVE x \in stale'[o] \/ Owed(o, x)'
  BY Disturbs, Unknowing DEF Frame
<1>2. stale'[t] = stale[t]
  BY Disturbs
<1> QED BY <1>1, <1>2 DEF Right

\* A step that leaves tables, caches and the histories of x alone: t itself is
\* all there is to look at.
LEMMA Inward ==
  ASSUME TypeOK, Inv, Held, NEW t \in Admins, Frame(t), NEW x \in Things, Right(x),
         UNCHANGED <<row, members, route, cache, rcache, stale, torn>>,
         x \in Changing(t) => x \in Changing(t)',
         x \in stale[t] \/ Owed(t, x)'
  PROVE  Right(x)'
BY Aside DEF Fixed, Uncached

LEMMA EndRight ==
  ASSUME TypeOK, Inv, Held, NEW t \in Admins, NEW x \in Things, Right(x),
         \/ Refuse(t) /\ pc[t] \in {"names", "insert", "check", "write"}
         \/ Abort(t)
  PROVE  Right(x)'
<1>1. Frame(t)
  BY EndFrame
<1>2. pc'[t] = "idle"
  BY Ends DEF Refuse, Abort
<1>3. Owed(t, x)'
  BY <1>2 DEF Owed, OwedKey, OwedRoute, SaveSteps
<1>4. Fixed(x) /\ Uncached(x)
  BY DEF Refuse, Abort, tables, caches, Fixed, Uncached
<1>5. \A o \in Admins \ {t} : x \in stale[o] => x \in stale'[o]
  BY DEF Refuse, Abort, TypeOK
<1>6. x \in torn => x \in torn'
  BY DEF Refuse, Abort
<1>7. x \in Changing(t) => x \in torn'
  BY DEF Refuse, Abort, Changing, Unsettled
<1> QED BY <1>1, <1>3, <1>4, <1>5, <1>6, <1>7, Aside

LEMMA StartRight ==
  ASSUME TypeOK, Inv, Held, NEW t \in Admins, NEW x \in Things, Right(x), Start(t)
  PROVE  Right(x)'
<1>1. Frame(t)
  BY StartFrame
<1>2. PICK j \in Asked : Goto(t, FirstStep(j))
  BY DEF Start
<1>3. FirstStep(j) \in {"find", "taken", "check", "write", "rows"}
  BY JobTypes DEF FirstStep
<1>4. pc'[t] \in {"find", "taken", "check", "write", "rows"}
  BY <1>2, <1>3, Walks DEF Labels, SaveSteps, ReloadSteps
<1>5. Owed(t, x)'
  BY <1>4 DEF Owed, OwedKey, OwedRoute, SavedBy
<1>6. x \notin Changing(t)
  BY DEF Start, Changing, Unsettled
<1> QED BY <1>1, <1>5, <1>6, Inward DEF Start, tables, caches, history

\* A save, before it has written anything.
LEMMA AskRight ==
  ASSUME TypeOK, Inv, Held, NEW t \in Admins, NEW x \in Things, Right(x), ~Refuse(t),
         Taken(t) \/ Names(t) \/ Find(t) \/ Check(t)
  PROVE  Right(x)'
<1> USE DEF tables, caches, local, history
<1>1. Frame(t)
  BY SaveFrame, RouteFrame
<1>2. PICK l \in {"names", "find", "insert", "update", "write"} : Goto(t, l)
  BY DEF Taken, Names, Find, Check
<1>3. pc'[t] = l
  BY <1>2, Walks DEF Labels, SaveSteps
<1>4. Owed(t, x)'
  BY <1>3 DEF Owed, OwedKey, OwedRoute, SavedBy
<1>5. x \notin Changing(t)
  BY DEF Taken, Names, Find, Check, Changing, Unsettled
<1>6. UNCHANGED <<row, members, route, cache, rcache, stale, torn>>
  BY DEF Taken, Names, Find, Check
<1> QED BY <1>1, <1>4, <1>5, <1>6, Inward

\* A statement that changes the tables of one thing y.
LEMMA WroteRight ==
  ASSUME TypeOK, Inv, Held, NEW t \in Admins, Frame(t), NEW y \in Things, Disturb(t, y),
         NEW x \in Things, Right(x), x # y => Fixed(x), Uncached(x), torn' = torn,
         Changing(t) \subseteq {y}, y \in Changing(t)', x # y => Owed(t, x)',
         y \in stale[t] \/ Owed(t, y)'
  PROVE  Right(x)'
<1>1. CASE x = y
  BY <1>1, Touched
<1>2. CASE x # y
  <2>1. \A o \in Admins \ {t} : x \in stale[o] => x \in stale'[o]
    BY Disturbs
  <2> QED BY <1>2, <2>1, Aside
<1> QED BY <1>1, <1>2

LEMMA SaveRight ==
  ASSUME TypeOK, Inv, Held, NEW t \in Admins, NEW x \in Things, CacheInv, ~Refuse(t),
         Update(t) \/ Insert(t) \/ Alias(t) \/ Clear(t) \/ Members(t)
  PROVE  Right(x)'
<1> USE DEF tables, caches, local, history
<1>1. Frame(t) /\ job[t] \in Saves
  BY SaveFrame
<1>2. PICK k \in Keys, w \in Entries : k = job[t].key /\ w = job[t].want
  BY <1>1 DEF Saves
<1>3. w.aliases \in SUBSET Aliases /\ w.all \in BOOLEAN /\ w.users \in SUBSET Users
  BY DEF Entries
<1>4. \A l \in Labels : Goto(t, l) => pc'[t] = l
  BY Walks
<1>5. SaveSteps \subseteq Labels
  BY DEF Labels
<1>6. PICK l \in {"alias", "clear", "members", "reread"} : Goto(t, l)
  BY DEF Update, Insert, Alias, Clear, Members
<1>7. pc'[t] = l /\ l \in SaveSteps
  BY <1>4, <1>5, <1>6 DEF SaveSteps
<1>8. Disturb(t, k) /\ job' = job /\ torn' = torn /\ Uncached(x)
  BY <1>2 DEF Update, Insert, Alias, Clear, Members, Uncached
<1>9. x # k => Fixed(x)
  BY <1>2, <1>3 DEF Update, Insert, Alias, Clear, Members, Fixed, TypeOK
<1>10. Changing(t) \subseteq {k}
  BY <1>2 DEF Update, Insert, Alias, Clear, Members, Changing, Unsettled
<1>11. k \in Changing(t)'
  BY <1>2, <1>7, <1>8 DEF Changing, Unsettled
<1>12. x # k => Owed(t, x)'
  BY <1>2, <1>7, <1>8 DEF Owed, OwedKey, OwedRoute, SaveSteps
<1>13. k \in Things
  BY DEF Things
<1>14. k \in stale[t] \/ SavedBy(t, k)
  <2>1. pc[t] \in SaveSteps
    BY DEF Update, Insert, Alias, Clear, Members, SaveSteps
  <2> QED BY <1>2, <1>13, <2>1 DEF CacheInv, Right, Owed, OwedKey
<1>15. k \in stale[t] \/ SavedBy(t, k)'
  <2> USE <1>2, <1>3
  <2>1. CASE Update(t)
    <3>1. pc'[t] = "clear"
      BY <2>1, <1>4, <1>5 DEF Update, SaveSteps
    <3>2. row'[k] = [aliases |-> w.aliases, all |-> w.all]
      BY <2>1 DEF Update, TypeOK
    <3> QED BY <1>8, <3>1, <3>2 DEF SavedBy
  <2>2. CASE Insert(t)
    <3>1. pc'[t] = "alias"
      BY <2>2, <1>4, <1>5 DEF Insert, SaveSteps
    <3>2. row'[k].all = w.all
      BY <2>2 DEF Insert, TypeOK
    <3> QED BY <1>8, <3>1, <3>2 DEF SavedBy
  <2>3. CASE Alias(t)
    <3>1. pc'[t] = "clear" /\ pc[t] = "alias"
      BY <2>3, <1>4, <1>5 DEF Alias, SaveSteps
    <3>2. row[k] \in Rows
      BY <2>3 DEF Alias, Inv, Placed, TypeOK
    <3>3. row'[k] = [aliases |-> w.aliases, all |-> row[k].all]
      BY <2>3, <3>2 DEF Alias, TypeOK, Rows
    <3>4. SavedBy(t, k) => row[k].all = w.all
      BY <3>1 DEF SavedBy
    <3> QED BY <1>8, <1>14, <3>1, <3>3, <3>4 DEF SavedBy
  <2>4. CASE Clear(t)
    <3> DEFINE us == Wanted(w)
    <3>1. /\ members'[k] = {} /\ row' = row /\ todo'[t] = us /\ pc[t] = "clear"
      BY <2>4 DEF Clear, TypeOK, Wanted
    <3>2. pc'[t] = IF us = {} THEN "reread" ELSE "members"
      BY <2>4, <1>4, <1>5 DEF Clear, SaveSteps, Wanted
    <3>3. SavedBy(t, k) => row[k] = [aliases |-> w.aliases, all |-> w.all]
      BY <3>1 DEF SavedBy
    <3> QED BY <1>8, <1>14, <3>1, <3>2, <3>3 DEF SavedBy
  <2>5. CASE Members(t)
    <3>1. PICK u \in todo[t] :
            /\ members' = [members EXCEPT ![k] = @ \cup {u}]
            /\ todo' = [todo EXCEPT ![t] = @ \ {u}]
            /\ Goto(t, IF todo[t] = {u} THEN "reread" ELSE "members")
      BY <2>5 DEF Members
    <3>2. members'[k] = members[k] \cup {u} /\ todo'[t] = todo[t] \ {u}
      BY <3>1 DEF TypeOK
    <3>3. pc'[t] = IF todo[t] = {u} THEN "reread" ELSE "members"
      BY <3>1, <1>4, <1>5 DEF SaveSteps
    <3>4. row' = row /\ pc[t] = "members"
      BY <2>5 DEF Members
    <3>5. SavedBy(t, k) =>
            /\ row[k] = [aliases |-> w.aliases, all |-> w.all]
            /\ todo[t] \subseteq Wanted(w) /\ members[k] = Wanted(w) \ todo[t]
      BY <3>4 DEF SavedBy
    <3>6. SavedBy(t, k) => /\ todo'[t] \subseteq Wanted(w)
                           /\ members'[k] = Wanted(w) \ todo'[t]
      BY <3>2, <3>5
    <3>7. SavedBy(t, k) /\ todo[t] = {u} => members'[k] = Wanted(w)
      BY <3>2, <3>5
    <3> QED BY <1>8, <1>14, <3>3, <3>4, <3>5, <3>6, <3>7 DEF SavedBy
  <2> QED BY <2>1, <2>2, <2>3, <2>4, <2>5
<1>16. k \in stale[t] \/ Owed(t, k)'
  BY <1>7, <1>15 DEF Owed, OwedKey
<1> QED BY <1>1, <1>8, <1>9, <1>10, <1>11, <1>12, <1>13, <1>16, WroteRight DEF CacheInv

LEMMA RereadRight ==
  ASSUME TypeOK, Inv, Held, NEW t \in Admins, NEW x \in Things, Right(x), Reread(t), ~Refuse(t)
  PROVE  Right(x)'
<1> USE DEF tables, caches, local, history
<1>1. Frame(t) /\ job[t] \in Saves
  BY SaveFrame
<1>2. PICK k \in Keys : k = job[t].key
  BY <1>1 DEF Saves
<1>3. pc'[t] = "install" /\ pc[t] = "reread" /\ job' = job /\ snap'[t] = row[k]
  BY <1>2, Walks DEF Reread, Labels, SaveSteps, Held
<1>4. x \in Changing(t) => x \in Changing(t)'
  BY <1>2, <1>3 DEF Changing, Unsettled
<1>5. x \in stale[t] \/ Owed(t, x)'
  <2>1. CASE x = k
    <3>1. x \in stale[t] \/ SavedBy(t, x)
      BY <1>2, <1>3, <2>1 DEF Right, Owed, OwedKey, SaveSteps
    <3>2. SavedBy(t, x) => SavedBy(t, x)'
      BY <1>2, <1>3, <2>1 DEF SavedBy, Reread
    <3> QED BY <1>3, <2>1, <3>1, <3>2 DEF Owed, OwedKey
  <2>2. CASE x # k
    BY <1>2, <1>3, <2>2 DEF Owed, OwedKey, OwedRoute
  <2> QED BY <2>1, <2>2
<1> QED BY <1>1, <1>4, <1>5, Inward DEF Reread

LEMMA WriteRight ==
  ASSUME TypeOK, Inv, Held, NEW t \in Admins, NEW x \in Things, Right(x), Write(t), ~Refuse(t)
  PROVE  Right(x)'
<1> USE DEF tables, caches, local, history
<1>1. Frame(t) /\ job[t].alias \in Aliases
  BY RouteFrame
<1>2. PICK a \in Aliases : a = job[t].alias
  BY <1>1
<1>3. a \in Things /\ a \notin Keys
  BY ModelSettingsAssumption DEF Things
<1>4. /\ Disturb(t, a) /\ torn' = torn /\ job' = job /\ pc[t] = "write" /\ Goto(t, "fetch")
      /\ UNCHANGED <<row, members, cache, rcache>>
      /\ route' = [route EXCEPT ![a] = Changed(job[t])]
  BY <1>2 DEF Write
<1>5. pc'[t] = "fetch"
  BY <1>4, Walks DEF Labels, ReloadSteps
<1>6. job[t].op # "refresh"
  BY <1>4 DEF Inv, Placed
<1>7. x # a => Fixed(x)
  BY <1>4 DEF Fixed, TypeOK, Things
<1>8. Uncached(x)
  BY <1>4 DEF Uncached
<1>9. Changing(t) \subseteq {a} /\ a \in Changing(t)'
  BY <1>2, <1>4, <1>5, <1>6 DEF Changing, Unsettled
<1>10. Owed(t, x)' /\ Owed(t, a)'
  BY <1>5 DEF Owed, OwedKey, OwedRoute, SaveSteps
<1> QED BY <1>1, <1>3, <1>4, <1>7, <1>8, <1>9, <1>10, WroteRight

\* The fetches of a reload.
LEMMA FetchRight ==
  ASSUME TypeOK, Inv, Held, NEW t \in Admins, NEW x \in Things, Right(x),
         FetchRows(t) \/ FetchList(t) \/ FetchRoutes(t)
  PROVE  Right(x)'
<1> USE DEF tables, caches, history
<1>1. Frame(t) /\ UNCHANGED <<row, members, route, cache, rcache, stale, torn, job>>
  BY FetchFrame DEF FetchRows, FetchList, FetchRoutes
<1>2. CASE FetchRows(t)
  <2> DEFINE found == {k \in Keys : row[k] # None}
  <2>1. /\ snap'[t] = [k \in found |-> row[k]] /\ todo'[t] = found
        /\ pc'[t] \in {"empty", "lists"} /\ (pc'[t] = "empty" => found = {})
        /\ pc[t] = "rows"
    BY <1>2, Walks DEF FetchRows, Held, TypeOK, Labels, ReloadSteps
  <2>2. x \notin Changing(t)
    BY <2>1 DEF Changing, Unsettled
  <2>3. Owed(t, x)'
    <3>1. CASE x \in Keys
      <4>1. x \in DOMAIN snap'[t] <=> row[x] # None
        BY <2>1, <3>1
      <4>2. row[x] # None => snap'[t][x] = row[x] /\ x \in todo'[t] /\ pc'[t] = "lists"
        BY <2>1, <3>1
      <4> QED BY <1>1, <2>1, <3>1, <4>1, <4>2 DEF Owed, OwedKey, SaveSteps
    <3>2. CASE x \notin Keys
      BY <2>1, <3>2 DEF Owed, OwedRoute
    <3> QED BY <3>1, <3>2
  <2> QED BY <1>1, <2>2, <2>3, Inward
<1>3. CASE FetchList(t)
  <2>1. PICK k \in todo[t] :
          /\ k \in Keys /\ k \in DOMAIN snap[t] /\ snap[t][k] \in Rows
          /\ DOMAIN snap'[t] = DOMAIN snap[t]
          /\ snap'[t][k] = [aliases |-> snap[t][k].aliases, all |-> snap[t][k].all,
                            users |-> members[k]]
          /\ \A l \in DOMAIN snap[t] \ {k} : snap'[t][l] = snap[t][l]
          /\ todo'[t] = todo[t] \ {k}
          /\ pc'[t] = IF todo[t] = {k} THEN "empty" ELSE "lists"
    BY <1>3, FetchListShape
  <2>2. pc[t] = "lists" /\ job[t].op = "refresh"
    BY <1>3 DEF FetchList, Held, Holding
  <2>3. x \notin Changing(t)
    BY <2>2 DEF Changing, Unsettled
  <2>4. x \in stale[t] \/ Owed(t, x)'
    <3>1. CASE x \in Keys
      <4>1. SUFFICES ASSUME OwedKey(t, x) PROVE OwedKey(t, x)'
        BY <3>1 DEF Right, Owed
      <4>2. /\ x \in DOMAIN snap[t] <=> row[x] # None
            /\ row[x] # None => snap[t][x] = IF x \in todo[t] THEN row[x] ELSE Entry(x)
        BY <2>2, <4>1 DEF OwedKey
      <4>3. Entry(x)' = Entry(x)
        BY <1>1 DEF Entry
      <4>4. CASE x = k
        <5>1. row[x] # None /\ snap[t][x] = row[x]
          BY <2>1, <4>2, <4>4
        <5>2. snap'[t][x] = Entry(x)
          BY <2>1, <4>4, <5>1 DEF Entry
        <5>3. x \notin todo'[t] /\ pc'[t] \in {"empty", "lists"}
          BY <2>1, <4>4
        <5> QED BY <1>1, <2>1, <4>2, <4>3, <5>1, <5>2, <5>3 DEF OwedKey, SaveSteps
      <4>5. CASE x # k
        <5>1. row[x] # None => snap'[t][x] = snap[t][x]
          BY <2>1, <4>2, <4>5
        <5>2. /\ x \in todo'[t] <=> x \in todo[t]
              /\ pc'[t] \in {"empty", "lists"} /\ (pc'[t] = "empty" => x \notin todo[t])
          BY <2>1, <4>5
        <5> QED BY <1>1, <2>1, <4>2, <4>3, <5>1, <5>2 DEF OwedKey, SaveSteps
      <4> QED BY <4>4, <4>5
    <3>2. CASE x \notin Keys
      BY <2>1, <3>2 DEF Owed, OwedRoute
    <3> QED BY <3>1, <3>2
  <2> QED BY <1>1, <2>3, <2>4, Inward
<1>4. CASE FetchRoutes(t)
  <2>1. snap'[t] = route /\ pc'[t] = "rempty" /\ pc[t] = "fetch"
    BY <1>4, Walks DEF FetchRoutes, Held, Labels, ReloadSteps
  <2>2. x \in Changing(t) => x \in Changing(t)'
    BY <1>1, <2>1 DEF Changing, Unsettled
  <2>3. Owed(t, x)'
    BY <1>1, <2>1 DEF Owed, OwedKey, OwedRoute, SaveSteps
  <2> QED BY <1>1, <2>2, <2>3, Inward
<1> QED BY <1>2, <1>3, <1>4

\* What t does with a thing it puts into the cache, and with another thing.
LEMMA Put ==
  ASSUME TypeOK, NEW t \in Admins, Frame(t), NEW xs \in SUBSET Things, Settle(t, xs),
         UNCHANGED <<row, members, route>>, NEW x \in xs, Right(x), Owed(t, x)',
         x \in stale[t] \/ Rightly(x)'
  PROVE  Right(x)'
<1>1. x \in stale[t] => x \in torn'
  BY Settles
<1>2. \A o \in Admins \ {t} : x \in stale[o] => x \in stale'[o]
  BY Settles
<1> QED BY <1>1, <1>2, Brought DEF Fixed

LEMMA NotPut ==
  ASSUME TypeOK, NEW t \in Admins, Frame(t), NEW xs \in SUBSET Things, Settle(t, xs),
         UNCHANGED <<row, members, route>>, NEW x \in Things \ xs, Right(x),
         x \in stale[t] \/ Owed(t, x)',
         Uncached(x) \/ x \in Changing(t)', x \in Changing(t) => x \in Changing(t)'
  PROVE  Right(x)'
<1>1. /\ x \in torn => x \in torn'
      /\ x \in stale[t] => x \in stale'[t]
      /\ \A o \in Admins \ {t} : x \in stale[o] => x \in stale'[o]
  BY Settles
<1> QED BY <1>1, Aside, Brought DEF Fixed

\* A handler that has ended owes nothing and changes nothing.
LEMMA IdleOwes ==
  ASSUME NEW t \in Admins, pc'[t] = "idle", NEW x \in Things
  PROVE  Owed(t, x)'
BY DEF Owed, OwedKey, OwedRoute, SaveSteps

LEMMA InstallRight ==
  ASSUME TypeOK, Inv, Held, NEW t \in Admins, NEW x \in Things, Right(x), Install(t)
  PROVE  Right(x)'
<1> USE DEF tables, caches, local, history
<1>1. Frame(t)
  BY CacheFrame
<1>2. job[t] \in Saves /\ snap[t] \in Rows /\ pc[t] = "install"
  BY DEF Install, Inv, Placed, SaveSteps, Held, Holding
<1>3. PICK k \in Keys, w \in Entries : k = job[t].key /\ w = job[t].want
  BY <1>2 DEF Saves
<1>4. w.all \in BOOLEAN /\ w.users \in SUBSET Users
  BY DEF Entries
<1>5. /\ cache' = [cache EXCEPT ![k] = CachedEntry(t)] /\ Settle(t, {k}) /\ Done(t)
      /\ UNCHANGED <<row, members, route, rcache>>
  BY <1>3 DEF Install
<1>6. pc'[t] = "idle" /\ {k} \in SUBSET Things
  BY <1>5, Ends DEF Things
<1>7. Owed(t, x)'
  BY <1>6, IdleOwes
<1>8. CASE x = k
  <2>1. x \in stale[t] \/ SavedBy(t, k)
    BY <1>2, <1>3, <1>8 DEF Right, Owed, OwedKey, SaveSteps
  <2>2. cache'[k] = [aliases |-> snap[t].aliases, all |-> snap[t].all, users |-> w.users]
    BY <1>3, <1>5 DEF TypeOK, CachedEntry
  <2>3. SavedBy(t, k) =>
          /\ snap[t] = [aliases |-> w.aliases, all |-> w.all]
          /\ row[k] = [aliases |-> w.aliases, all |-> w.all]
          /\ members[k] = Wanted(w)
    BY <1>2, <1>3 DEF SavedBy
  <2>4. SavedBy(t, k) => Entry(k) = [aliases |-> w.aliases, all |-> w.all, users |-> Wanted(w)]
    <3>1. row[k] \in Rows => row[k] # None
      BY ModelSettingsAssumption
    <3> QED BY <1>2, <2>3, <3>1 DEF Entry
  <2>5. SavedBy(t, k) => cache'[k] = [aliases |-> w.aliases, all |-> w.all, users |-> w.users]
    BY <2>2, <2>3
  <2>6. /\ [aliases |-> w.aliases, all |-> w.all, users |-> w.users] # None
        /\ [aliases |-> w.aliases, all |-> w.all, users |-> Wanted(w)] # None
    BY <1>3, ModelSettingsAssumption DEF Entries, Wanted
  <2>7. SavedBy(t, k) => Alike(cache'[k], Entry(k))
    BY <1>4, <2>4, <2>5, <2>6 DEF Alike, Wanted
  <2>8. SavedBy(t, k) => Rightly(k)'
    BY <1>5, <2>7 DEF Rightly, Alike, Entry
  <2> QED BY <1>1, <1>5, <1>6, <1>7, <1>8, <2>1, <2>8, Put
<1>9. CASE x # k
  <2>1. Uncached(x) /\ x \notin Changing(t)
    BY <1>2, <1>3, <1>5, <1>9 DEF Uncached, TypeOK, Changing, Unsettled
  <2> QED BY <1>1, <1>5, <1>6, <1>7, <1>9, <2>1, NotPut
<1> QED BY <1>8, <1>9

LEMMA EmptyRight ==
  ASSUME TypeOK, Inv, Held, NEW t \in Admins, NEW x \in Things, Right(x), Empty(t)
  PROVE  Right(x)'
<1> USE DEF tables, caches, local, history
<1>1. Frame(t)
  BY CacheFrame
<1>2. pc[t] = "empty" /\ job[t].op = "refresh" /\ DOMAIN snap[t] \subseteq Keys
  BY DEF Empty, Held, Holding
<1>3. /\ cache' = [k \in Keys |-> None] /\ Settle(t, Keys \ DOMAIN snap[t])
      /\ UNCHANGED <<row, members, route, rcache, job, snap>>
      /\ todo'[t] = DOMAIN snap[t]
  BY DEF Empty, TypeOK
<1>4. pc'[t] = IF DOMAIN snap[t] = {} THEN "fetch" ELSE "fill"
  BY Walks DEF Empty, Labels, ReloadSteps
<1>5. Keys \ DOMAIN snap[t] \in SUBSET Things
  BY DEF Things
<1>6. x \notin Changing(t)
  BY <1>2 DEF Changing, Unsettled
<1>7. CASE x \in Keys
  <2>1. x \in stale[t] \/ OwedKey(t, x)
    BY <1>7 DEF Right, Owed
  <2>2. OwedKey(t, x) => /\ x \in DOMAIN snap[t] <=> row[x] # None
                         /\ row[x] # None => snap[t][x] = Entry(x)
    BY <1>2 DEF OwedKey
  <2>3. CASE x \in DOMAIN snap[t]
    <3>1. pc'[t] = "fill" /\ x \in todo'[t]
      BY <1>3, <1>4, <2>3
    <3>2. x \in Changing(t)'
      BY <3>1 DEF Changing
    <3>3. Entry(x)' = Entry(x)
      BY <1>3 DEF Entry
    <3>4. OwedKey(t, x) => snap'[t][x] = Entry(x)
      BY <1>3, <2>2, <2>3
    <3>5. x \in stale[t] \/ Owed(t, x)'
      BY <1>7, <2>1, <3>1, <3>3, <3>4 DEF Owed, OwedKey, SaveSteps
    <3>6. x \in Things \ (Keys \ DOMAIN snap[t])
      BY <2>3
    <3> QED BY <1>1, <1>3, <1>5, <1>6, <3>2, <3>5, <3>6, NotPut
  <2>4. CASE x \notin DOMAIN snap[t]
    <3>1. pc'[t] \in {"fetch", "fill"} /\ x \notin todo'[t]
      BY <1>3, <1>4, <2>4
    <3>2. Owed(t, x)'
      BY <1>7, <3>1 DEF Owed, OwedKey, SaveSteps
    <3>3. OwedKey(t, x) => Rightly(x)'
      BY <1>3, <1>7, <2>2, <2>4 DEF Rightly, Alike, Entry
    <3>4. x \in Keys \ DOMAIN snap[t]
      BY <1>7, <2>4
    <3> QED BY <1>1, <1>3, <1>5, <2>1, <3>2, <3>3, <3>4, Put
  <2> QED BY <2>3, <2>4
<1>8. CASE x \notin Keys
  <2>1. pc'[t] \in {"fetch", "fill"}
    BY <1>4
  <2>2. Owed(t, x)' /\ Uncached(x)
    BY <1>3, <1>8, <2>1 DEF Owed, OwedRoute, Uncached
  <2>3. x \in Things \ (Keys \ DOMAIN snap[t])
    BY <1>8
  <2> QED BY <1>1, <1>3, <1>5, <1>6, <2>2, <2>3, NotPut
<1> QED BY <1>7, <1>8

LEMMA FillRight ==
  ASSUME TypeOK, Inv, Held, NEW t \in Admins, NEW x \in Things, Right(x), Fill(t)
  PROVE  Right(x)'
<1> USE DEF tables, caches, local, history
<1>1. Frame(t)
  BY CacheFrame
<1>2. pc[t] = "fill" /\ todo[t] \subseteq Keys
  BY DEF Fill, Held, Holding
<1>3. PICK k \in todo[t] :
        /\ cache' = [cache EXCEPT ![k] = snap[t][k]] /\ Settle(t, {k})
        /\ todo' = [todo EXCEPT ![t] = @ \ {k}]
        /\ Goto(t, IF todo[t] = {k} THEN "fetch" ELSE "fill")
  BY DEF Fill
<1>4. /\ UNCHANGED <<row, members, route, rcache, job, snap>> /\ todo'[t] = todo[t] \ {k}
      /\ {k} \in SUBSET Things
  BY <1>2, <1>3 DEF Fill, TypeOK, Things
<1>5. pc'[t] = IF todo[t] = {k} THEN "fetch" ELSE "fill"
  BY <1>3, Walks DEF Labels, ReloadSteps
<1>6. Entry(x)' = Entry(x)
  BY <1>4 DEF Entry
<1>7. CASE x = k
  <2>1. x \in Keys /\ x \notin todo'[t]
    BY <1>2, <1>4, <1>7
  <2>2. Owed(t, x)'
    BY <1>5, <2>1 DEF Owed, OwedKey, SaveSteps
  <2>3. x \in stale[t] \/ snap[t][x] = Entry(x)
    BY <1>2, <1>7, <2>1 DEF Right, Owed, OwedKey
  <2>4. cache'[x] = snap[t][x]
    BY <1>3, <1>7, <2>1 DEF TypeOK
  <2>5. x \in stale[t] \/ Rightly(x)'
    BY <1>6, <2>1, <2>3, <2>4 DEF Rightly, Alike
  <2> QED BY <1>1, <1>3, <1>4, <1>7, <2>2, <2>5, Put
<1>8. CASE x # k
  <2>1. Uncached(x)
    BY <1>3, <1>4, <1>8 DEF Uncached, TypeOK
  <2>2. x \in todo'[t] <=> x \in todo[t]
    BY <1>4, <1>8
  <2>3. x \in todo[t] => pc'[t] = "fill"
    BY <1>5, <1>8
  <2>4. x \in Changing(t) => x \in Changing(t)'
    BY <1>2, <2>2, <2>3 DEF Changing, Unsettled
  <2>5. x \in stale[t] \/ Owed(t, x)'
    <3>1. pc'[t] \in {"fill", "fetch"}
      BY <1>5
    <3>2. CASE x \in Keys
      BY <1>2, <1>4, <1>6, <2>2, <3>1, <3>2 DEF Right, Owed, OwedKey, SaveSteps
    <3>3. CASE x \notin Keys
      BY <3>1, <3>3 DEF Owed, OwedRoute
    <3> QED BY <3>2, <3>3
  <2> QED BY <1>1, <1>3, <1>4, <1>8, <2>1, <2>4, <2>5, NotPut
<1> QED BY <1>7, <1>8

LEMMA EmptyRoutesRight ==
  ASSUME TypeOK, Inv, Held, NEW t \in Admins, NEW x \in Things, Right(x), EmptyRoutes(t)
  PROVE  Right(x)'
<1> USE DEF tables, caches, local, history
<1> DEFINE found == {a \in Aliases : snap[t][a] # None}
<1>1. Frame(t)
  BY CacheFrame
<1>2. pc[t] = "rempty" /\ (job[t].op = "refresh" \/ job[t].alias \in Aliases)
  BY DEF EmptyRoutes, Held, Holding
<1>3. /\ rcache' = [a \in Aliases |-> None] /\ Settle(t, Aliases \ found)
      /\ UNCHANGED <<row, members, route, cache>>
  BY DEF EmptyRoutes
<1>4. CASE found = {} /\ Done(t)
  <2>1. pc'[t] = "idle" /\ Aliases \ found \in SUBSET Things
    BY <1>4, Ends DEF Things
  <2>2. Owed(t, x)'
    BY <2>1, IdleOwes
  <2>3. CASE x \in Keys
    <3>1. Uncached(x) /\ x \notin Changing(t)
      BY <1>2, <1>3, <2>3, ModelSettingsAssumption DEF Uncached, Changing, Unsettled
    <3>2. x \in Things \ (Aliases \ found)
      BY <2>3, ModelSettingsAssumption
    <3> QED BY <1>1, <1>3, <2>1, <2>2, <3>1, <3>2, NotPut
  <2>4. CASE x \notin Keys
    <3>1. x \in Aliases \ found
      BY <1>4, <2>4 DEF Things
    <3>2. x \in stale[t] \/ snap[t][x] = route[x]
      BY <1>2, <2>4 DEF Right, Owed, OwedRoute
    <3>3. x \in stale[t] \/ Rightly(x)'
      BY <1>3, <2>4, <3>1, <3>2 DEF Rightly
    <3> QED BY <1>1, <1>3, <2>1, <2>2, <3>1, <3>3, Put
  <2> QED BY <2>3, <2>4
<1>5. CASE found # {} /\ Goto(t, "rfill") /\ todo' = [todo EXCEPT ![t] = found] /\ UNCHANGED <<job, seen, snap>>
  <2>1. pc'[t] = "rfill" /\ todo'[t] = found /\ Aliases \ found \in SUBSET Things
    BY <1>5, Walks DEF Labels, ReloadSteps, Things, TypeOK
  <2>2. CASE x \in Keys
    <3>1. Uncached(x) /\ x \notin Changing(t)
      BY <1>2, <1>3, <2>2, ModelSettingsAssumption DEF Uncached, Changing, Unsettled
    <3>2. x \in Things \ (Aliases \ found)
      BY <2>2, ModelSettingsAssumption
    <3>3. Owed(t, x)'
      BY <2>1, <2>2 DEF Owed, OwedKey, SaveSteps
    <3> QED BY <1>1, <1>3, <2>1, <3>1, <3>2, <3>3, NotPut
  <2>3. CASE x \in found
    <3>1. x \notin Keys
      BY <2>3, ModelSettingsAssumption
    <3>2. x \in Changing(t)'
      BY <2>1, <2>3 DEF Changing
    <3>3. x \in stale[t] \/ Owed(t, x)'
      BY <1>2, <1>3, <1>5, <2>1, <3>1 DEF Right, Owed, OwedRoute
    <3>4. x \in Things \ (Aliases \ found)
      BY <2>3
    <3> HIDE DEF found
    <3> QED BY <1>1, <1>3, <2>1, <3>2, <3>3, <3>4, NotPut
  <2>4. CASE x \in Aliases \ found
    <3>1. x \notin Keys
      BY <2>4, ModelSettingsAssumption
    <3>2. Owed(t, x)'
      BY <2>1, <2>4, <3>1 DEF Owed, OwedRoute
    <3>3. x \in stale[t] \/ snap[t][x] = route[x]
      BY <1>2, <3>1 DEF Right, Owed, OwedRoute
    <3>4. x \in stale[t] \/ Rightly(x)'
      BY <1>3, <2>4, <3>1, <3>3 DEF Rightly
    <3> HIDE DEF found
    <3> QED BY <1>1, <1>3, <2>1, <2>4, <3>2, <3>4, Put
  <2> QED BY <2>2, <2>3, <2>4 DEF Things
<1> QED BY <1>4, <1>5 DEF EmptyRoutes

LEMMA FillRoutesRight ==
  ASSUME TypeOK, Inv, Held, NEW t \in Admins, NEW x \in Things, Right(x), FillRoutes(t)
  PROVE  Right(x)'
<1> USE DEF tables, caches, local, history
<1>1. Frame(t)
  BY CacheFrame
<1>2. pc[t] = "rfill" /\ todo[t] \subseteq Aliases
  BY DEF FillRoutes, Held, Holding
<1>3. PICK a \in todo[t] :
        /\ rcache' = [rcache EXCEPT ![a] = snap[t][a]] /\ Settle(t, {a})
        /\ \/ todo[t] = {a} /\ Done(t)
           \/ /\ todo[t] # {a} /\ todo' = [todo EXCEPT ![t] = @ \ {a}]
              /\ UNCHANGED <<pc, job, seen, snap>>
  BY DEF FillRoutes
<1>4. /\ UNCHANGED <<row, members, route, cache>> /\ {a} \in SUBSET Things
      /\ a \in Aliases /\ a \notin Keys
  BY <1>2, ModelSettingsAssumption DEF FillRoutes, Things
<1>5. todo[t] = {a} /\ Done(t) => pc'[t] = "idle"
  BY Ends
<1>6. todo[t] # {a} => /\ pc'[t] = "rfill" /\ snap' = snap /\ todo'[t] = todo[t] \ {a}
  BY <1>2, <1>3 DEF TypeOK
<1>7. pc'[t] \in {"idle", "rfill"}
  BY <1>3, <1>5, <1>6
<1>8. CASE x = a
  <2>1. Owed(t, x)'
    BY <1>3, <1>4, <1>5, <1>6, <1>8 DEF Owed, OwedRoute
  <2>2. x \in stale[t] \/ snap[t][x] = route[x]
    BY <1>2, <1>4, <1>8 DEF Right, Owed, OwedRoute
  <2>3. x \in stale[t] \/ Rightly(x)'
    BY <1>3, <1>4, <1>8, <2>2 DEF Rightly, TypeOK
  <2> QED BY <1>1, <1>3, <1>4, <1>8, <2>1, <2>3, Put
<1>9. CASE x # a
  <2>1. Uncached(x)
    BY <1>3, <1>4, <1>9 DEF Uncached, TypeOK, Things
  <2>2. x \in todo[t] => pc'[t] = "rfill" /\ x \in todo'[t]
    BY <1>6, <1>9
  <2>3. x \in Changing(t) => x \in Changing(t)'
    BY <1>2, <2>2 DEF Changing, Unsettled
  <2>4. x \in stale[t] \/ Owed(t, x)'
    <3>1. CASE x \in Keys
      BY <1>7, <3>1 DEF Owed, OwedKey, SaveSteps
    <3>2. CASE x \notin Keys
      <4>1. x \in stale[t] \/ OwedRoute(t, x)
        BY <3>2 DEF Right, Owed
      <4>2. pc'[t] = "rfill" => snap' = snap /\ todo'[t] \subseteq todo[t]
        BY <1>3, <1>5, <1>6
      <4> QED BY <1>2, <1>4, <1>7, <3>2, <4>1, <4>2 DEF Owed, OwedRoute
    <3> QED BY <3>1, <3>2
  <2> QED BY <1>1, <1>3, <1>4, <1>9, <2>1, <2>3, <2>4, NotPut
<1> QED BY <1>8, <1>9

LEMMA CacheStep ==
  ASSUME TypeOK, Inv, Held, CacheInv, [Next]_vars
  PROVE  CacheInv'
<1>1. CASE UNCHANGED vars
  BY <1>1 DEF vars, tables, caches, local, history, CacheInv, Right, Rightly, Owed, OwedKey,
              OwedRoute, SavedBy, Entry, Changing, Unsettled
<1>2. CASE Next
  <2>1. SUFFICES ASSUME NEW x \in Things PROVE Right(x)'
    BY DEF CacheInv
  <2>2. Right(x)
    BY DEF CacheInv
  <2> QED BY <1>2, <2>2, Actions, EndRight, StartRight, AskRight, SaveRight, RereadRight, WriteRight,
             FetchRight, InstallRight, EmptyRight, FillRight, EmptyRoutesRight, FillRoutesRight
<1> QED BY <1>1, <1>2

LEMMA InitCache == Init => CacheInv
BY ModelSettingsAssumption DEF Init, CacheInv, Right, Rightly, Alike, Entry, Owed, OwedKey, OwedRoute,
     SaveSteps, Things

FullInv == TypeOK /\ Held /\ Inv /\ CacheInv

LEMMA Invariance == Spec => []FullInv
<1>1. Init => FullInv
  BY InitTypes, InitInv, InitCache DEF FullInv
<1>2. FullInv /\ [Next]_vars => FullInv'
  BY TypeStep, StepKeeps, CacheStep DEF FullInv
<1> QED BY <1>1, <1>2, PTL DEF Spec

\* Requests see the settings that are stored: outside what is being changed,
\* was left half saved, or changed under a handler, both caches agree with the
\* tables.
THEOREM AgreesSafe == Spec => []Agrees
<1>1. FullInv => Agrees
  BY ModelSettingsAssumption DEF FullInv, CacheInv, Right, Rightly, Unsure, Agrees, Things
<1> QED BY <1>1, Invariance, PTL
-----------------------------------------------------------------------------
(* What the caches answer to requests.                                      *)

\* An answer is none, a model whose row the user may have, or the name itself
\* where the upstream has no rows.
LEMMA Resolved ==
  ASSUME NEW vis, NEW u, NEW p, NEW name, NEW m \in Resolutions(vis, u, p, name)
  PROVE  \/ m = None
         \/ \E j \in DOMAIN vis : /\ UpstreamOf[j] = p /\ vis[j] # None
                                  /\ m = ModelOf[j] /\ Allows(vis[j], u)
         \/ \A j \in DOMAIN vis : UpstreamOf[j] = p => vis[j] = None
<1> DEFINE rows == {k \in DOMAIN vis : UpstreamOf[k] = p /\ vis[k] # None}
           byAlias == {k \in rows : \E a \in vis[k].aliases : Same(p, a, name)}
           granted == {k \in byAlias : Allows(vis[k], u)}
           direct == {k \in rows \ byAlias : Same(p, ModelOf[k], name)}
<1>1. \/ m = None
      \/ m \in {ModelOf[k] : k \in granted}
      \/ m \in {IF Allows(vis[k], u) THEN ModelOf[k] ELSE None : k \in direct}
      \/ rows = {}
  BY DEF Resolutions
<1> QED BY <1>1

LEMMA Least ==
  ASSUME NEW T, T \subseteq Nat, T # {}
  PROVE  \E n \in T : \A m \in T : n <= m
<1>1. IsWellFoundedOn(OpToRel(<, Nat), Nat)
  BY NatLessThanWellFounded
<1>2. PICK n \in T : \A m \in T : ~(<<m, n>> \in OpToRel(<, Nat))
  BY <1>1, WFMin
<1>3. ASSUME NEW m \in T PROVE n <= m
  <2>1. ~(m < n)
    BY <1>2 DEF OpToRel
  <2> QED BY <2>1
<1> QED BY <1>3

\* A smart route sends requests to models that their users may have.
LEMMA Routed ==
  ASSUME NEW vis, NEW cfg \in Routes, NEW u, NEW req,
         NEW i \in DOMAIN RouteTargets(vis, cfg, u, req)
  PROVE  /\ RouteTargets(vis, cfg, u, req)[i] \in Keys
         /\ CheckAccess(vis, u, RouteTargets(vis, cfg, u, req)[i])
<1> DEFINE hits == {j \in DOMAIN cfg.rules :
                      CheckAccess(vis, u, cfg.rules[j].to) /\ Matches(cfg.rules[j], req)}
           least == CHOOSE j \in hits : \A l \in hits : j <= l
           first == cfg.rules[least].to
           back == IF CheckAccess(vis, u, cfg.fallback) THEN <<cfg.fallback>> ELSE <<>>
           Good(k) == k \in Keys /\ CheckAccess(vis, u, k)
<1>1. cfg.rules \in Seq(Rules) /\ cfg.fallback \in Keys
  BY DEF Routes
<1>2. \A j \in DOMAIN cfg.rules : j \in Nat /\ cfg.rules[j].to \in Keys
  <2>1. \A j \in DOMAIN cfg.rules : j \in Nat /\ cfg.rules[j] \in Rules
    BY <1>1
  <2> QED BY <2>1 DEF Rules
<1>3. hits # {} => Good(first)
  <2>1. SUFFICES ASSUME hits # {} PROVE Good(first)
    OBVIOUS
  <2>2. hits \subseteq Nat
    BY <1>2
  <2>3. \E j \in hits : \A l \in hits : j <= l
    <3> HIDE DEF hits
    <3> QED BY <2>1, <2>2, Least
  <2>4. least \in hits
    <3> HIDE DEF hits
    <3> QED BY <2>3
  <2> QED BY <1>2, <2>4
<1>4. \A j \in DOMAIN back : Good(back[j])
  BY <1>1
<1>5. back = <<>> \/ back = <<cfg.fallback>>
  OBVIOUS
<1>6. RouteTargets(vis, cfg, u, req) =
        IF cfg = None \/ ~Allows(cfg, u) THEN <<>>
        ELSE IF hits = {} THEN back
        ELSE <<first>> \o (IF back = <<first>> THEN <<>> ELSE back)
  BY DEF RouteTargets
<1>7. back = <<cfg.fallback>> => Good(cfg.fallback)
  BY <1>4
<1> HIDE DEF hits, least, first, back, Good
<1>8. CASE hits = {} \/ cfg = None \/ ~Allows(cfg, u)
  <2>1. Good(RouteTargets(vis, cfg, u, req)[i])
    BY <1>4, <1>6, <1>8
  <2> QED BY <2>1 DEF Good
<1>9. CASE ~(hits = {} \/ cfg = None \/ ~Allows(cfg, u))
  <2> DEFINE rest == IF back = <<first>> THEN <<>> ELSE back
  <2>1. RouteTargets(vis, cfg, u, req) = <<first>> \o rest
    BY <1>6, <1>9
  <2>2. first \in Keys /\ <<first>> \in Seq(Keys) /\ Len(<<first>>) = 1 /\ <<first>>[1] = first
    BY <1>3, <1>9 DEF Good
  <2>3. rest = <<>> \/ (rest = <<cfg.fallback>> /\ Good(cfg.fallback))
    BY <1>5, <1>7
  <2> HIDE DEF rest
  <2>4. rest \in Seq(Keys) /\ Len(rest) \in 0 .. 1 /\ \A j \in 1 .. Len(rest) : Good(rest[j])
    <3>1. CASE rest = <<>>
      BY <3>1
    <3>2. CASE rest = <<cfg.fallback>> /\ Good(cfg.fallback)
      BY <1>1, <3>2
    <3> QED BY <2>3, <3>1, <3>2
  <2>5. /\ Len(<<first>> \o rest) = 1 + Len(rest)
        /\ \A j \in 1 .. (1 + Len(rest)) :
             (<<first>> \o rest)[j] = IF j <= 1 THEN <<first>>[j] ELSE rest[j - 1]
    BY <2>2, <2>4, ConcatProperties
  <2>6. <<first>> \o rest \in Seq(Keys)
    BY <2>2, <2>4
  <2>7. i \in 1 .. (1 + Len(rest))
    BY <2>1, <2>5, <2>6
  <2>8. Good(RouteTargets(vis, cfg, u, req)[i])
    <3>1. CASE i = 1
      BY <1>3, <1>9, <2>1, <2>2, <2>5, <2>7, <3>1
    <3>2. CASE i # 1
      <4>1. i - 1 \in 1 .. Len(rest) /\ ~(i <= 1)
        BY <2>4, <2>7, <3>2
      <4> QED BY <2>1, <2>4, <2>5, <2>7, <4>1
    <3> QED BY <3>1, <3>2
  <2> QED BY <2>8 DEF Good
<1> QED BY <1>8, <1>9

\* What the agreement of a place in the cache says of its users.
LEMMA Served ==
  ASSUME TypeOK, Agrees, NEW k \in Keys \ Unsure
  PROVE  /\ row[k] # None <=> cache[k] # None
         /\ row[k] # None => /\ cache[k].aliases = row[k].aliases
                             /\ \A u : Allows(cache[k], u) => Allows(Entry(k), u)
<1>1. Alike(cache[k], Entry(k))
  BY DEF Agrees
<1>2. row[k] # None => Entry(k) \in Entries
  BY DEF TypeOK, Entry, Rows, Entries
<1>3. row[k] # None <=> Entry(k) # None
  BY <1>2, ModelSettingsAssumption DEF Entry
<1>4. row[k] # None => Entry(k).aliases = row[k].aliases
  BY DEF Entry
<1> QED BY <1>1, <1>3, <1>4 DEF Alike, Allows

\* No request is sent to a model that the stored row keeps from its user, as
\* far as the caches can be trusted: not by name, alias or smart route.
THEOREM RefusedSafe == Spec => []Refused
<1>1. ASSUME FullInv, Agrees PROVE Refused
  <2>1. TypeOK
    BY <1>1 DEF FullInv
  <2>2. SUFFICES ASSUME NEW u \in Users, NEW x \in Aliases \cup ModelNames, NEW req \in Requests,
                        NEW k \in Keys \ Unsure, row[k] # None,
                        At(k) \in Candidates(cache, rcache, u, x, req)
                 PROVE  Allows(Entry(k), u)
    BY DEF Refused
  <2>3. cache[k] # None /\ DOMAIN cache = Keys /\ DOMAIN rcache = Aliases
    BY <1>1, <2>1, <2>2, Served DEF TypeOK
  <2>4. SUFFICES Allows(cache[k], u)
    BY <1>1, <2>1, <2>2, Served
  <2> DEFINE cfg == IF x \in DOMAIN rcache THEN rcache[x] ELSE None
             targets == RouteTargets(cache, cfg, u, req)
             routed == {targets[i] : i \in DOMAIN targets}
  <2>5. \/ \E j \in routed : At(k) = At(j)
        \/ \E p \in Upstreams : \E m \in Resolutions(cache, u, p, x) \ {None} : At(k) = <<p, m>>
    BY <2>2 DEF Candidates
  <2>6. cfg \in Routes \/ cfg = None
    BY <2>1, <2>3 DEF TypeOK
  <2>7. \A j \in routed : j \in Keys /\ CheckAccess(cache, u, j)
    <3>1. CASE cfg = None
      BY <3>1 DEF RouteTargets
    <3>2. CASE cfg \in Routes
      <4> HIDE DEF cfg
      <4> QED BY <3>2, Routed
    <3> QED BY <2>6, <3>1, <3>2
  <2>8. CASE \E j \in routed : At(k) = At(j)
    <3>1. PICK j \in routed : At(k) = At(j)
      BY <2>8
    <3>2. j = k /\ CheckAccess(cache, u, k)
      <4> HIDE DEF routed
      <4> QED BY <2>7, <3>1, ModelAccessAssumption
    <3> QED BY <2>3, <3>2 DEF CheckAccess
  <2>9. CASE \E p \in Upstreams : \E m \in Resolutions(cache, u, p, x) \ {None} : At(k) = <<p, m>>
    <3>0. PICK p \in Upstreams : \E m \in Resolutions(cache, u, p, x) \ {None} : At(k) = <<p, m>>
      BY <2>9
    <3>1. PICK m \in Resolutions(cache, u, p, x) \ {None} : At(k) = <<p, m>>
      BY <3>0
    <3>2. UpstreamOf[k] = p /\ ModelOf[k] = m
      BY <3>1 DEF At
    <3>3. PICK j \in Keys : UpstreamOf[j] = p /\ m = ModelOf[j] /\ Allows(cache[j], u)
      BY <2>3, <3>1, <3>2, Resolved
    <3>4. At(j) = At(k)
      BY <3>2, <3>3 DEF At
    <3>5. j = k
      BY <3>3, <3>4, ModelAccessAssumption
    <3> QED BY <3>3, <3>5
  <2> QED BY <2>5, <2>8, <2>9
<1>2. Spec => [](FullInv /\ Agrees)
  BY Invariance, AgreesSafe, PTL
<1>3. FullInv /\ Agrees => Refused
  BY <1>1
<1> QED BY <1>2, <1>3, PTL

LEMMA AtMostOne ==
  ASSUME NEW S, \A x, y \in S : x = y
  PROVE  Cardinality(S) <= 1
<1>1. CASE S = {}
  BY <1>1, FS_EmptySet
<1>2. CASE S # {}
  <2>1. PICK x \in S : S = {x}
    BY <1>2
  <2> QED BY <2>1, FS_Singleton
<1> QED BY <1>1, <1>2

\* A name means one model of an upstream, whichever row the map gives first.
THEOREM OneMeaningSafe == Spec => []OneMeaning
<1>1. ASSUME FullInv, Agrees PROVE OneMeaning
  <2>1. TypeOK /\ DOMAIN cache = Keys
    BY <1>1 DEF FullInv, TypeOK
  <2>2. SUFFICES ASSUME NEW u \in Users, NEW p \in Upstreams,
                        NEW x \in (Aliases \cup ModelNames) \ shared,
                        ~Twins(p, x), \A k \in Unsure \cap Keys : UpstreamOf[k] # p
                 PROVE  Cardinality(Resolutions(cache, u, p, x)) <= 1
    BY DEF OneMeaning
  <2> DEFINE rows == {k \in DOMAIN cache : UpstreamOf[k] = p /\ cache[k] # None}
             byAlias == {k \in rows : \E a \in cache[k].aliases : Same(p, a, x)}
             granted == {k \in byAlias : Allows(cache[k], u)}
             direct == {k \in rows \ byAlias : Same(p, ModelOf[k], x)}
  <2>3. \A k \in rows : k \in Keys \ Unsure
    BY <2>1, <2>2
  <2>4. \A k \in byAlias : x \in Aliases /\ Bears(k, x)
    <3>1. SUFFICES ASSUME NEW k \in byAlias PROVE x \in Aliases /\ Bears(k, x)
      OBVIOUS
    <3>2. k \in rows
      OBVIOUS
    <3>3. k \in Keys \ Unsure
      BY <2>3, <3>2
    <3>4. row[k] # None /\ cache[k].aliases = row[k].aliases
      BY <1>1, <2>1, <3>2, <3>3, Served
    <3>5. row[k].aliases \subseteq Aliases
      BY <2>1, <3>3, <3>4 DEF TypeOK, Rows
    <3>6. PICK a \in cache[k].aliases : Same(p, a, x)
      OBVIOUS
    <3>7. a = x
      BY <2>2, <3>4, <3>5, <3>6 DEF Twins, Same
    <3> QED BY <3>4, <3>5, <3>6, <3>7 DEF Bears
  <2>5. \A j, k \in byAlias : j = k
    <3>1. \A a \in Aliases \ shared : Alone(a)
      BY <1>1 DEF FullInv, Inv, NamesInv
    <3>2. \A k \in byAlias : k \in Keys
      BY <2>1
    <3> HIDE DEF byAlias
    <3> QED BY <2>2, <2>4, <3>1, <3>2 DEF Alone
  <2>6. \A j, k \in direct : j = k
    <3>1. \A k \in direct : k \in Keys /\ UpstreamOf[k] = p /\ ModelOf[k] = x
      <4>1. SUFFICES ASSUME NEW k \in direct PROVE ModelOf[k] = x
        BY <2>1
      <4>2. ModelOf[k] \in ModelNames
        BY <2>1 DEF ModelNames
      <4> QED BY <2>2, <4>2 DEF Twins, Same
    <3>2. \A j, k \in direct : At(j) = At(k)
      BY <3>1 DEF At
    <3> HIDE DEF direct
    <3> QED BY <3>1, <3>2, ModelAccessAssumption
  <2>7. \/ Resolutions(cache, u, p, x) = {None}
        \/ Resolutions(cache, u, p, x) = {ModelOf[k] : k \in granted}
        \/ Resolutions(cache, u, p, x) =
             {IF Allows(cache[k], u) THEN ModelOf[k] ELSE None : k \in direct}
        \/ Resolutions(cache, u, p, x) = {x}
    BY DEF Resolutions
  <2>8. \A j, k \in granted : j = k
    BY <2>5
  <2> HIDE DEF granted, direct
  <2>9. \A m, n \in Resolutions(cache, u, p, x) : m = n
    BY <2>6, <2>7, <2>8
  <2> QED BY <2>9, AtMostOne
<1>2. Spec => [](FullInv /\ Agrees)
  BY Invariance, AgreesSafe, PTL
<1>3. FullInv /\ Agrees => OneMeaning
  BY <1>1
<1> QED BY <1>2, <1>3, PTL

\* The route of a list entry offers its fallback, if nothing before it.
LEMMA FallbackOffered ==
  ASSUME NEW cfg \in Routes, cfg # None, NEW u, NEW req, Allows(cfg, u),
         CheckAccess(cache, u, cfg.fallback)
  PROVE  RouteTargets(cache, cfg, u, req) # <<>>
<1> DEFINE hits == {j \in DOMAIN cfg.rules :
                      CheckAccess(cache, u, cfg.rules[j].to) /\ Matches(cfg.rules[j], req)}
           first == cfg.rules[CHOOSE j \in hits : \A l \in hits : j <= l].to
           rest == IF <<cfg.fallback>> = <<first>> THEN <<>> ELSE <<cfg.fallback>>
<1>1. \/ RouteTargets(cache, cfg, u, req) = <<cfg.fallback>>
      \/ RouteTargets(cache, cfg, u, req) = <<first>> \o rest
  BY DEF RouteTargets
<1>2. Len(<<first>> \o rest) # 0
  <2> DEFINE S == {first, cfg.fallback}
  <2> HIDE DEF first
  <2>1. <<first>> \in Seq(S) /\ Len(<<first>>) = 1
    OBVIOUS
  <2>2. rest = <<>> \/ rest = <<cfg.fallback>>
    OBVIOUS
  <2> HIDE DEF rest
  <2>3. rest \in Seq(S) /\ Len(rest) \in Nat
    <3>1. CASE rest = <<>>
      BY <3>1
    <3>2. CASE rest = <<cfg.fallback>>
      BY <3>2
    <3> QED BY <2>2, <3>1, <3>2
  <2> HIDE DEF S
  <2>4. Len(<<first>> \o rest) = 1 + Len(rest)
    BY <2>1, <2>3, ConcatProperties
  <2> QED BY <2>3, <2>4
<1> HIDE DEF first, rest
<1>3. CASE RouteTargets(cache, cfg, u, req) = <<cfg.fallback>>
  BY <1>3
<1>4. CASE RouteTargets(cache, cfg, u, req) = <<first>> \o rest
  <2>1. Len(RouteTargets(cache, cfg, u, req)) # 0
    BY <1>2, <1>4
  <2> QED BY <2>1
<1> QED BY <1>1, <1>3, <1>4

\* What the list of models shows is taken, but for the exceptions it names.
THEOREM ListedIsServedSafe == Spec => []ListedIsServed
<1>1. ASSUME TypeOK PROVE ListedIsServed
  <2>1. DOMAIN cache = Keys /\ DOMAIN rcache = Aliases
    BY <1>1 DEF TypeOK
  <2>2. \A k \in Keys : ModelOf[k] # None /\ UpstreamOf[k] \in Upstreams
    BY ModelAccessAssumption DEF ModelNames, Upstreams
  <2>3. ASSUME NEW u \in Users, NEW x \in RowNames(cache, u)
        PROVE  \E k \in Keys :
                 /\ cache[k] # None /\ HasName(k, x)
                 /\ \/ Resolutions(cache, u, UpstreamOf[k], x) # {None}
                    \/ OutsideColumn(UpstreamOf[k], x) \/ Overruled(UpstreamOf[k], u, x)
    <3>1. PICK k \in Keys :
            /\ cache[k] # None /\ Allows(cache[k], u)
            /\ x \in IF cache[k].aliases = {} THEN {ModelOf[k]} ELSE cache[k].aliases
      BY <2>1, <2>3 DEF RowNames
    <3>2. HasName(k, x)
      BY <3>1 DEF HasName
    <3> DEFINE p == UpstreamOf[k]
               rows == {j \in DOMAIN cache : UpstreamOf[j] = p /\ cache[j] # None}
               byAlias == {j \in rows : \E a \in cache[j].aliases : Same(p, a, x)}
               granted == {j \in byAlias : Allows(cache[j], u)}
               direct == {j \in rows \ byAlias : Same(p, ModelOf[j], x)}
               supported == Offered[p] = {} \/ \E m \in Offered[p] : Same(p, m, x)
    <3>3. Resolutions(cache, u, p, x) =
            CASE ~supported     -> {None}
              [] supported /\ granted # {} -> {ModelOf[j] : j \in granted}
              [] supported /\ granted = {} /\ byAlias # {} -> {None}
              [] supported /\ byAlias = {} /\ direct # {} ->
                   {IF Allows(cache[j], u) THEN ModelOf[j] ELSE None : j \in direct}
              [] supported /\ byAlias = {} /\ direct = {} ->
                   {IF rows = {} THEN x ELSE None}
      BY DEF Resolutions
    <3>4. k \in rows /\ rows \subseteq Keys
      BY <2>1, <3>1
    <3>5. CASE ~supported
      <4>1. OutsideColumn(p, x)
        BY <3>5 DEF OutsideColumn
      <4> QED BY <3>1, <3>2, <4>1
    <3>6. CASE supported /\ granted # {}
      <4>1. PICK j \in granted : TRUE
        BY <3>6
      <4>2. byAlias # {}
        BY <4>1
      <4>3. ModelOf[j] \in Resolutions(cache, u, p, x)
        <5> HIDE DEF supported, granted, byAlias, direct, rows
        <5>1. Resolutions(cache, u, p, x) = {ModelOf[l] : l \in granted}
          BY <3>3, <3>6, <4>2
        <5> QED BY <4>1, <5>1
      <4>4. ModelOf[j] # None
        BY <2>1, <2>2, <4>1
      <4> QED BY <3>1, <3>2, <4>3, <4>4
    <3>7. CASE supported /\ granted = {} /\ byAlias # {}
      <4>1. PICK j \in byAlias : ~Allows(cache[j], u)
        BY <3>7
      <4>2. k \notin byAlias
        BY <3>1, <3>7
      <4>3. x \notin cache[k].aliases
        BY <3>4, <4>2 DEF Same
      <4>4. ModelOf[k] = x
        BY <3>1, <4>3
      <4>5. Overruled(p, u, x)
        BY <2>1, <3>1, <4>1, <4>4 DEF Overruled
      <4> QED BY <3>1, <3>2, <4>5
    <3>8. CASE supported /\ byAlias = {}
      <4>1. x \notin cache[k].aliases
        BY <3>4, <3>8 DEF Same
      <4>2. k \in direct
        BY <3>1, <3>4, <3>8, <4>1 DEF Same
      <4>3. granted = {}
        BY <3>8
      <4>4. Resolutions(cache, u, p, x) =
              {IF Allows(cache[j], u) THEN ModelOf[j] ELSE None : j \in direct}
        <5> HIDE DEF supported, granted, byAlias, direct, rows
        <5> QED BY <3>3, <3>8, <4>2, <4>3
      <4>5. ModelOf[k] \in Resolutions(cache, u, p, x)
        <5> HIDE DEF direct
        <5> QED BY <3>1, <4>2, <4>4
      <4> QED BY <2>2, <3>1, <3>2, <4>5
    <3> QED BY <3>5, <3>6, <3>7, <3>8
  <2>4. ASSUME NEW u \in Users, NEW x \in ColumnNames(cache, u)
        PROVE  \E p \in Upstreams :
                 /\ x \in Offered[p]
                 /\ \/ Resolutions(cache, u, p, x) # {None}
                    \/ \E k \in Keys : UpstreamOf[k] = p /\ cache[k] # None
    <3>1. PICK p \in Upstreams : x \in Offered[p]
      BY <2>4 DEF ColumnNames
    <3>2. x # None
      BY <3>1, ModelAccessAssumption
    <3> DEFINE rows == {j \in DOMAIN cache : UpstreamOf[j] = p /\ cache[j] # None}
    <3>3. SUFFICES ASSUME rows = {} PROVE Resolutions(cache, u, p, x) # {None}
      BY <2>1, <3>1
    <3>4. Same(p, x, x)
      BY DEF Same
    <3>5. Resolutions(cache, u, p, x) = {x}
      BY <3>1, <3>3, <3>4 DEF Resolutions
    <3> QED BY <3>2, <3>5
  <2>5. ASSUME NEW u \in Users, NEW a \in RouteNames(rcache, u), NEW req \in Requests,
               RouteTargets(cache, rcache[a], u, req) = <<>>
        PROVE  ~CheckAccess(cache, u, rcache[a].fallback)
    <3>1. rcache[a] \in Routes /\ rcache[a] # None /\ Allows(rcache[a], u)
      BY <1>1, <2>1, <2>5 DEF RouteNames, TypeOK
    <3> QED BY <2>5, <3>1, FallbackOffered
  <2> QED BY <2>3, <2>4, <2>5 DEF ListedIsServed
<1> QED BY <1>1, TypeSafe, PTL
-----------------------------------------------------------------------------
(* The rules of smart routes.                                               *)

LEMMA RuleFields ==
  ASSUME NEW r \in Rules
  PROVE  /\ r.to \in Keys /\ r.min \in Int \cup {None} /\ r.max \in Int \cup {None}
         /\ r.words \subseteq Words /\ r.image \in BOOLEAN
         /\ r.from \in Times /\ r.until \in Times
         /\ StoredRule(r).min = r.min /\ StoredRule(r).max = r.max
         /\ StoredRule(r).words = r.words /\ StoredRule(r).image = r.image
         /\ StoredRule(r).from = Given(r.from) /\ StoredRule(r).until = Given(r.until)
<1>1. /\ r.to \in Keys /\ r.min \in Int \cup {None} /\ r.max \in Int \cup {None}
      /\ r.words \subseteq Words /\ r.image \in BOOLEAN
      /\ r.from \in Times /\ r.until \in Times
  BY DEF Rules
<1>2. /\ StoredRule(r).min = r.min /\ StoredRule(r).max = r.max
      /\ StoredRule(r).words = r.words /\ StoredRule(r).image = r.image
  BY DEF Rules, StoredRule
<1>3. StoredRule(r).from = Given(r.from) /\ StoredRule(r).until = Given(r.until)
  BY DEF Rules, StoredRule
<1> QED BY <1>1, <1>2, <1>3

LEMMA SomeMatch ==
  ASSUME NEW r \in Rules, ValidRule(r), ~Never(r)
  PROVE  \E req \in AllRequests : Matches(StoredRule(r), req)
<1> DEFINE q == StoredRule(r)
           tokens == IF r.min = None THEN 0 ELSE IF r.min > 0 THEN r.min ELSE 0
           time == IF r.from \in {None, Blank} THEN 0 ELSE IF r.from > 0 THEN r.from ELSE 0
           req == [tokens |-> tokens, words |-> Words, image |-> TRUE, time |-> time]
<1> USE RuleFields
<1>1. /\ tokens \in Nat
      /\ r.min # None => tokens >= r.min
      /\ r.max # None => tokens <= r.max
  <2>1. r.min # None => r.min \in Int
    OBVIOUS
  <2>2. r.max # None => r.max \in Int /\ r.max >= 0
    BY DEF Never
  <2>3. r.min # None /\ r.max # None => r.min <= r.max
    BY DEF ValidRule
  <2> QED BY <2>1, <2>2, <2>3
<1>2. /\ time \in 0 .. LastMinute
      /\ Given(r.from) # None => time >= Given(r.from)
      /\ Given(r.until) # None => time <= Given(r.until)
  <2>1. r.from \notin {None, Blank} => r.from \in Int /\ r.from <= LastMinute
    BY ModelSettingsAssumption DEF Times, Never
  <2>2. r.until \notin {None, Blank} => r.until \in Int /\ r.until >= 0
    BY DEF Times, Never
  <2>3. r.from \notin {None, Blank} /\ r.until \notin {None, Blank} => r.from < r.until
    BY DEF ValidRule, Before
  <2> QED BY <2>1, <2>2, <2>3, ModelSettingsAssumption DEF Given
<1>3. q.words = {} \/ q.words \cap Words # {}
  OBVIOUS
<1>4. req \in AllRequests
  BY <1>1, <1>2 DEF AllRequests
<1>5. Matches(q, req)
  BY <1>1, <1>2, <1>3 DEF Matches, InTime
<1> QED BY <1>4, <1>5

LEMMA SomeMiss ==
  ASSUME NEW r \in Rules, ~Loose(r)
  PROVE  \E req \in AllRequests : ~Matches(StoredRule(r), req)
<1> DEFINE Req(n, ws, image, time) ==
             [tokens |-> n, words |-> ws, image |-> image, time |-> time]
           q == StoredRule(r)
<1> USE RuleFields
<1>1. ~Always(r) /\ ~Never(r)
  BY DEF Loose
<1>2. \A n \in Nat : \A ws \in SUBSET Words : \A image \in BOOLEAN : \A time \in 0 .. LastMinute :
        Req(n, ws, image, time) \in AllRequests
  BY DEF AllRequests
<1>3. 0 \in 0 .. LastMinute /\ LastMinute \in 0 .. LastMinute /\ 0 \in Nat
  BY ModelSettingsAssumption
<1>4. CASE r.min # None /\ ~(r.min <= 0)
  <2>1. ~Matches(q, Req(0, {}, TRUE, 0))
    BY <1>4 DEF Matches
  <2> QED BY <1>2, <1>3, <2>1
<1>5. CASE r.max # None
  <2>1. r.max \in Nat
    BY <1>1, <1>5 DEF Never
  <2>2. ~Matches(q, Req(r.max + 1, {}, TRUE, 0))
    BY <1>5, <2>1 DEF Matches
  <2>3. r.max + 1 \in Nat
    BY <2>1
  <2>4. Req(r.max + 1, {}, TRUE, 0) \in AllRequests
    BY <1>3, <2>3 DEF AllRequests
  <2> QED BY <2>2, <2>4
<1>6. CASE r.words # {}
  <2>1. ~Matches(q, Req(0, {}, TRUE, 0))
    BY <1>6 DEF Matches
  <2> QED BY <1>2, <1>3, <2>1
<1>7. CASE r.image
  <2>1. ~Matches(q, Req(0, {}, FALSE, 0))
    BY <1>7 DEF Matches
  <2> QED BY <1>2, <1>3, <2>1
<1>8. CASE r.from \notin {None, Blank} /\ ~(r.from <= 0)
  <2>1. r.from \in Int /\ r.from > 0
    BY <1>8 DEF Times
  <2>2. ~Matches(q, Req(0, {}, TRUE, 0))
    BY <1>8, <2>1 DEF Matches, InTime, Given
  <2> QED BY <1>2, <1>3, <2>2
<1>9. CASE r.until \notin {None, Blank} /\ ~(r.until >= LastMinute)
  <2>1. r.until \in Int /\ LastMinute > r.until
    BY <1>9, ModelSettingsAssumption DEF Times
  <2>2. ~Matches(q, Req(0, {}, TRUE, LastMinute))
    BY <1>9, <2>1, ModelSettingsAssumption DEF Matches, InTime, Given
  <2> QED BY <1>2, <1>3, <2>2
<1> QED BY <1>1, <1>4, <1>5, <1>6, <1>7, <1>8, <1>9 DEF Always

\* A stored rule that came through the checks, and is none of the loose ones.
Sound(r) == \E r0 \in Rules : r = StoredRule(r0) /\ ValidRule(r0) /\ ~Loose(r0)

RulesInv ==
  /\ \A a \in Aliases \ loose : route[a] # None => \A r \in Range1(route[a].rules) : Sound(r)
  /\ \A t \in Admins : pc[t] = "write" /\ job[t].op = "route" =>
       \A r \in Range1(job[t].want.rules) : ValidRule(r)

LEMMA RulesElsewhere ==
  ASSUME RulesInv, NEW t \in Admins, Frame(t), UNCHANGED <<route, loose>>,
         pc'[t] = "write" /\ job'[t].op = "route" =>
           \A r \in Range1(job'[t].want.rules) : ValidRule(r)
  PROVE  RulesInv'
BY DEF RulesInv, Frame, Still

LEMMA StoredSound ==
  ASSUME NEW c \in Routes, \A r \in Range1(c.rules) : ValidRule(r) /\ ~Loose(r)
  PROVE  \A r \in Range1(Stored(c).rules) : Sound(r)
<1>1. c.rules \in Seq(Rules)
  BY DEF Routes
<1>2. \A i \in DOMAIN c.rules : c.rules[i] \in Rules /\ c.rules[i] \in Range1(c.rules)
  BY <1>1 DEF Range1
<1>3. Stored(c).rules = [i \in DOMAIN c.rules |-> StoredRule(c.rules[i])]
  BY DEF Stored
<1> QED BY <1>2, <1>3 DEF Range1, Sound

LEMMA WriteRules ==
  ASSUME TypeOK, Inv, Held, RulesInv, NEW t \in Admins, Write(t), ~Refuse(t)
  PROVE  RulesInv'
<1>1. Frame(t)
  BY RouteFrame
<1>2. PICK j \in Asked : j = job[t]
  BY DEF Write, Inv, Placed, TypeOK, NoJob
<1>3. /\ pc[t] = "write" /\ Goto(t, "fetch")
      /\ j.op = "route" \/ route[j.alias] # None
      /\ route' = [route EXCEPT ![j.alias] = Changed(j)]
      /\ loose' = IF j.op = "show" THEN loose ELSE (loose \ {j.alias}) \cup LooseNow(j)
  BY <1>2 DEF Write
<1>4. j.op \in {"route", "show", "drop"} /\ j.alias \in Aliases
  BY <1>2, <1>3 DEF Inv, Placed
<1>5. pc'[t] = "fetch"
  BY <1>3, Walks DEF Labels, ReloadSteps
<1>6. ASSUME NEW a \in Aliases \ loose', route'[a] # None, NEW r \in Range1(route'[a].rules)
      PROVE  Sound(r)
  <2>1. CASE a # j.alias
    <3>1. a \notin loose /\ route'[a] = route[a]
      BY <1>3, <1>6, <2>1 DEF TypeOK
    <3> QED BY <1>6, <3>1 DEF RulesInv
  <2>2. CASE a = j.alias
    <3>1. route'[a] = Changed(j)
      BY <1>3, <1>4, <2>2 DEF TypeOK
    <3>2. CASE j.op = "route"
      <4>1. j.want \in Routes /\ Changed(j) = Stored(j.want)
        BY <3>2, JobKinds DEF Changed
      <4>2. \A q \in Range1(j.want.rules) : ValidRule(q)
        BY <1>2, <1>3, <3>2 DEF RulesInv
      <4>3. \A q \in Range1(j.want.rules) : ~Loose(q)
        BY <1>3, <1>6, <2>2, <3>2 DEF LooseNow
      <4> QED BY <1>6, <3>1, <4>1, <4>2, <4>3, StoredSound
    <3>3. CASE j.op = "show"
      <4>1. route[a] \in Routes /\ route[a] # None /\ a \notin loose
        BY <1>3, <1>4, <1>6, <2>2, <3>3 DEF TypeOK
      <4>2. Changed(j) = [route[a] EXCEPT !.all = j.all, !.users = IF j.all THEN {} ELSE j.users]
        BY <2>2, <3>3 DEF Changed
      <4>3. route'[a].rules = route[a].rules
        BY <3>1, <4>1, <4>2 DEF Routes
      <4> QED BY <1>6, <4>1, <4>3 DEF RulesInv
    <3>4. CASE j.op = "drop"
      BY <1>6, <3>1, <3>4 DEF Changed
    <3> QED BY <1>4, <3>2, <3>3, <3>4
  <2> QED BY <2>1, <2>2
<1>7. \A o \in Admins : pc'[o] = "write" /\ job'[o].op = "route" =>
        \A r \in Range1(job'[o].want.rules) : ValidRule(r)
  BY <1>1, <1>5 DEF RulesInv, Frame, Still
<1> QED BY <1>6, <1>7 DEF RulesInv

LEMMA RulesStep ==
  ASSUME TypeOK, Inv, Held, RulesInv, [Next]_vars
  PROVE  RulesInv'
<1> USE DEF tables, caches, local, history
<1>1. CASE UNCHANGED vars
  BY <1>1 DEF vars, RulesInv
<1>2. ASSUME NEW t \in Admins, Refuse(t) \/ Abort(t) PROVE RulesInv'
  <2>1. Frame(t) /\ pc'[t] = "idle" /\ UNCHANGED <<route, loose>>
    BY <1>2, EndFrame, Ends DEF Refuse, Abort
  <2> QED BY <2>1, RulesElsewhere
<1>3. ASSUME NEW t \in Admins, Start(t) PROVE RulesInv'
  <2>1. Frame(t) /\ UNCHANGED <<route, loose>>
    BY <1>3, StartFrame DEF Start
  <2>2. PICK j \in Asked : job' = [job EXCEPT ![t] = j] /\ Goto(t, FirstStep(j))
    BY <1>3 DEF Start
  <2>3. j.op = "route" => FirstStep(j) = "check"
    BY DEF FirstStep
  <2>4. job'[t] = j /\ (j.op = "route" => pc'[t] # "write")
    BY <2>2, <2>3, Walks DEF TypeOK, Labels
  <2> QED BY <2>1, <2>4, RulesElsewhere
<1>4. ASSUME NEW t \in Admins, ~Refuse(t),
             \/ Taken(t) \/ Names(t) \/ Find(t) \/ Update(t) \/ Insert(t) \/ Alias(t)
             \/ Clear(t) \/ Members(t) \/ Reread(t)
      PROVE  RulesInv'
  <2>1. Frame(t) /\ UNCHANGED <<route, loose>>
    BY <1>4, SaveFrame DEF Taken, Names, Find, Update, Insert, Alias, Clear, Members, Reread
  <2>2. PICK l \in SaveSteps : Goto(t, l)
    BY <1>4 DEF Taken, Names, Find, Update, Insert, Alias, Clear, Members, Reread, SaveSteps
  <2>3. pc'[t] # "write"
    BY <2>2, Walks DEF Labels, SaveSteps
  <2> QED BY <2>1, <2>3, RulesElsewhere
<1>5. ASSUME NEW t \in Admins, ~Refuse(t), Check(t) PROVE RulesInv'
  <2>1. Frame(t) /\ UNCHANGED <<route, loose, job>>
    BY <1>5, RouteFrame DEF Check
  <2>2. \A r \in Range1(job[t].want.rules) : ValidRule(r)
    BY <1>5 DEF Check
  <2> QED BY <2>1, <2>2, RulesElsewhere
<1>6. ASSUME NEW t \in Admins, FetchRows(t) \/ FetchList(t) \/ FetchRoutes(t) PROVE RulesInv'
  <2>1. Frame(t) /\ UNCHANGED <<route, loose>>
    BY <1>6, FetchFrame DEF FetchRows, FetchList, FetchRoutes
  <2>2. PICK l \in ReloadSteps : Goto(t, l)
    BY <1>6 DEF FetchRows, FetchList, FetchRoutes, ReloadSteps
  <2>3. pc'[t] # "write"
    BY <2>2, Walks DEF Labels, ReloadSteps
  <2> QED BY <2>1, <2>3, RulesElsewhere
<1>7. ASSUME NEW t \in Admins,
             Install(t) \/ Empty(t) \/ Fill(t) \/ EmptyRoutes(t) \/ FillRoutes(t)
      PROVE  RulesInv'
  <2>1. Frame(t) /\ UNCHANGED <<route, loose>>
    BY <1>7, CacheFrame DEF Install, Empty, Fill, EmptyRoutes, FillRoutes
  <2>2. pc'[t] # "write"
    <3>1. Done(t) \/ (\E l \in ReloadSteps : Goto(t, l)) \/ (pc' = pc /\ pc[t] = "rfill")
      BY <1>7 DEF Install, Empty, Fill, EmptyRoutes, FillRoutes, ReloadSteps
    <3> QED BY <3>1, Ends, Walks DEF Labels, ReloadSteps
  <2> QED BY <2>1, <2>2, RulesElsewhere
<1> QED BY <1>1, <1>2, <1>3, <1>4, <1>5, <1>6, <1>7, Actions, WriteRules

\* Every stored rule decides something, for the requests there are.
THEOREM RulesDecideSafe ==
  ASSUME AllRequests \subseteq Requests
  PROVE  Spec => []RulesDecide
<1>1. Init => RulesInv
  BY DEF Init, RulesInv
<1>2. FullInv /\ RulesInv /\ [Next]_vars => RulesInv'
  BY RulesStep DEF FullInv
<1>3. ASSUME RulesInv PROVE RulesDecide
  <2>1. SUFFICES ASSUME NEW a \in Aliases \ loose, route[a] # None,
                        NEW r \in Range1(route[a].rules)
                 PROVE  /\ \E req \in Requests : Matches(r, req)
                        /\ \E req \in Requests : ~Matches(r, req)
    BY DEF RulesDecide
  <2>2. PICK r0 \in Rules : r = StoredRule(r0) /\ ValidRule(r0) /\ ~Loose(r0)
    BY <1>3, <2>1 DEF RulesInv, Sound
  <2>3. \E req \in AllRequests : Matches(r, req)
    BY <2>2, SomeMatch DEF Loose
  <2>4. \E req \in AllRequests : ~Matches(r, req)
    BY <2>2, SomeMiss
  <2> QED BY <2>3, <2>4
<1>4. Spec => [](FullInv /\ RulesInv)
  BY <1>1, <1>2, Invariance, PTL DEF Spec
<1>5. RulesInv => RulesDecide
  BY <1>3
<1> QED BY <1>4, <1>5, PTL
=============================================================================
