--------------------------- MODULE ServiceProofs ---------------------------
(***************************************************************************)
(* Service for every number of users, keys, requests and starts: its       *)
(* types, that there is one service at a time, and that a service which    *)
(* found or made an administrator keeps one as long as users are changed   *)
(* by administrators only, and whom it lets in.                            *)
(***************************************************************************)
EXTENDS Service, FiniteSetTheorems, TLAPS

-----------------------------------------------------------------------------
(* Types. *)

LEMMA ReturnTypes ==
  ASSUME TypeOK, NEW t \in Tasks, Return(t)
  PROVE  /\ pc' \in [Tasks -> {"idle", "find", "write", "fetch", "install"}]
         /\ job' \in [Tasks -> Jobs \cup {NoJob}]
         /\ \A o \in Tasks : pc'[o] # "idle" => job'[o] \in Jobs
         /\ caller' \in [Tasks -> [user : Users \cup {Nobody}, admin : BOOLEAN]]
         /\ snap' \in [Tasks -> (SUBSET Users) \cup (SUBSET Keys)]
         /\ \A o \in Tasks : pc'[o] = "install" =>
              snap'[o] \subseteq IF job'[o] \in UserJobs THEN Users ELSE Keys
<1> USE DEF TypeOK, AccountsTypeOK, Return
<1>1. pc' = [pc EXCEPT ![t] = "idle"] /\ job' = [job EXCEPT ![t] = NoJob]
  OBVIOUS
<1>2. /\ caller' = [caller EXCEPT ![t] = NoCaller]
      /\ NoCaller \in [user : Users \cup {Nobody}, admin : BOOLEAN]
  BY DEF NoCaller
<1>3. snap' = [snap EXCEPT ![t] = {}]
  OBVIOUS
<1>4. \A o \in Tasks : pc'[o] # "idle" => job'[o] \in Jobs
  BY <1>1
<1>5. \A o \in Tasks : pc'[o] = "install" =>
         snap'[o] \subseteq IF job'[o] \in UserJobs THEN Users ELSE Keys
  BY <1>1, <1>3
<1> QED BY <1>1, <1>2, <1>3, <1>4, <1>5

LEMMA EditedType ==
  ASSUME NEW old \in UserRows, NEW j \in Edits
  PROVE  Edited(old, j) \in UserRows
BY AccountsAssumption DEF Edited, UserRows, Edits, Field

LEMMA WriteTypes ==
  ASSUME TypeOK, NEW t \in Tasks, Write(t)
  PROVE  AccountsTypeOK'
<1> USE DEF TypeOK, AccountsTypeOK
<1>1. job[t] \in Jobs
  BY DEF Write
<1>2. /\ row' \in [Users -> UserRows \cup {Unborn, Gone}]
      /\ key' \in [Keys -> KeyRows \cup {Unborn, Gone}]
  <2>1. CASE job[t] \in UserJobs /\ WriteUser(job[t])
    <3>1. key' = key
      BY <2>1 DEF WriteUser
    <3>2. CASE job[t] \in Creates
      <4>1. row' = [row EXCEPT ![job[t].user] =
                      [name |-> job[t].name, admin |-> job[t].admin, active |-> TRUE]]
        BY <2>1, <3>2 DEF WriteUser, Creates, Edits, Deletes
      <4>2. [name |-> job[t].name, admin |-> job[t].admin, active |-> TRUE] \in UserRows
        BY <3>2 DEF Creates, UserRows
      <4> QED BY <3>1, <4>1, <4>2
    <3>3. CASE job[t] \in Edits
      <4>1. /\ IsUser(job[t].user)
            /\ row' = [row EXCEPT ![job[t].user] = Edited(@, job[t])]
        BY <2>1, <3>3 DEF WriteUser, Creates, Edits, Deletes
      <4>2. job[t].user \in Users
        BY <3>3 DEF Edits
      <4>3. Edited(row[job[t].user], job[t]) \in UserRows
        BY <3>3, <4>1, <4>2, EditedType DEF IsUser
      <4> QED BY <3>1, <4>1, <4>3
    <3>4. CASE job[t] \in Deletes
      <4>1. row' = [row EXCEPT ![job[t].user] = Gone]
        BY <2>1, <3>4 DEF WriteUser, Creates, Edits, Deletes
      <4> QED BY <3>1, <4>1
    <3> QED BY <2>1, <3>2, <3>3, <3>4 DEF UserJobs
  <2>2. CASE job[t] \in KeyJobs /\ WriteKey(job[t])
    <3>1. row' = row
      BY <2>2 DEF WriteKey
    <3>2. CASE job[t].op = "issue"
      <4>1. key' = [key EXCEPT ![job[t].key] = [owner |-> job[t].user, active |-> TRUE]]
        BY <2>2, <3>2 DEF WriteKey
      <4>2. [owner |-> job[t].user, active |-> TRUE] \in KeyRows
        BY <2>2, <3>2 DEF KeyJobs, KeyRows
      <4> QED BY <3>1, <4>1, <4>2
    <3>3. CASE job[t].op = "toggle"
      <4>1. /\ IsKey(job[t].key) /\ job[t].key \in Keys /\ job[t].active \in BOOLEAN
            /\ key' = [key EXCEPT ![job[t].key].active = job[t].active]
        BY <2>2, <3>3 DEF WriteKey, KeyJobs
      <4>2. [key[job[t].key] EXCEPT !.active = job[t].active] \in KeyRows
        BY <4>1 DEF IsKey, KeyRows
      <4> QED BY <3>1, <4>1, <4>2
    <3>4. CASE job[t].op = "revoke"
      <4>1. key' = [key EXCEPT ![job[t].key] = Gone]
        BY <2>2, <3>4 DEF WriteKey
      <4> QED BY <3>1, <4>1
    <3> QED BY <2>2, <3>2, <3>3, <3>4 DEF WriteKey
  <2> QED BY <2>1, <2>2 DEF Write
<1>3. pc' = [pc EXCEPT ![t] = "fetch"]
  BY DEF Write
<1>4. outdated' \in BOOLEAN
  BY DEF Write
<1> QED BY <1>1, <1>2, <1>3, <1>4 DEF Write, caches, local

\* The handlers, as far as Accounts goes.
LEMMA HandlerTypes ==
  ASSUME TypeOK, NEW t \in Tasks, TaskStep(t)
  PROVE  AccountsTypeOK'
<1> USE DEF TypeOK, AccountsTypeOK, caches, tables, local
<1>1. CASE Find(t)
  <2>1. CASE pc' = [pc EXCEPT ![t] = "write"] /\ UNCHANGED <<local, snap>>
    BY <1>1, <2>1 DEF Find
  <2>2. CASE Return(t)
    BY <1>1, <2>2, ReturnTypes DEF Find
  <2> QED BY <1>1, <2>1, <2>2 DEF Find
<1>2. CASE Write(t)
  BY <1>2, WriteTypes
<1>3. CASE Abort(t)
  <2>1. hazy' \in SUBSET {"users", "keys"} /\ crossed' \in SUBSET Tasks
    BY <1>3 DEF Abort, Cache, Rivals
  <2> QED BY <1>3, <2>1, ReturnTypes DEF Abort
<1>4. CASE Fetch(t)
  <2>1. /\ snap' = [snap EXCEPT ![t] = IF job[t] \in UserJobs THEN ActiveUsers ELSE ActiveKeys]
        /\ pc' = [pc EXCEPT ![t] = "install"]
        /\ pc[t] = "fetch"
    BY <1>4 DEF Fetch
  <2>2. /\ ActiveUsers \subseteq Users
        /\ ActiveKeys \subseteq Keys
    BY DEF ActiveUsers, ActiveKeys
  <2>3. crossed' \in SUBSET Tasks
    BY <1>4 DEF Fetch, Rivals
  <2> QED BY <1>4, <2>1, <2>2, <2>3 DEF Fetch
<1>5. CASE Install(t)
  <2>1. hazy' \in SUBSET {"users", "keys"} /\ crossed' \in SUBSET Tasks
    BY <1>5 DEF Install, Cache
  <2> QED BY <1>5, <2>1, ReturnTypes DEF Install
<1> QED BY <1>1, <1>2, <1>3, <1>4, <1>5 DEF TaskStep

LEMMA AcceptTypes ==
  ASSUME TypeOK, NEW t \in Tasks, NEW j \in Jobs,
         NEW u \in Users \cup {Nobody}, NEW a \in BOOLEAN, Accept(t, j, u, a)
  PROVE  AccountsTypeOK'
BY DEF TypeOK, AccountsTypeOK, Accept, tables, caches

LEMMA InitTypes == Init => TypeOK
<1> SUFFICES ASSUME Init PROVE TypeOK
  OBVIOUS
<1>1. AccountsTypeOK
  BY DEF Init, AccountsInit, AccountsTypeOK, NoCaller
<1>2. cur \in 0 .. MaxStarts
  BY ServiceAssumption DEF Init
<1> QED BY <1>1, <1>2 DEF Init, TypeOK, Stages

\* The steps that leave all of Accounts alone.
LEMMA QuietTypes ==
  ASSUME AccountsTypeOK, UNCHANGED accounts
  PROVE  AccountsTypeOK'
BY DEF AccountsTypeOK, accounts, tables, caches, local

LEMMA WindowTypes ==
  ASSUME TypeOK, StartService \/ StopService \/ Tick \/ ConfirmSetupPassword \/ Exit
  PROVE  TypeOK'
<1> USE ServiceAssumption DEF TypeOK, Goto, Threads, Stages, channels
<1>1. CASE StartService
  BY <1>1, QuietTypes DEF StartService
<1>2. CASE StopService
  <2>1. told' \in SUBSET Threads
    BY <1>2 DEF StopService
  <2> QED BY <1>2, <2>1, QuietTypes DEF StopService
<1>3. CASE Tick
  BY <1>3, QuietTypes DEF Tick
<1>4. CASE ConfirmSetupPassword
  BY <1>4, QuietTypes DEF ConfirmSetupPassword
<1>5. CASE Exit
  <2>1. AccountsTypeOK'
    BY <1>5 DEF Exit, AccountsTypeOK, NoCaller, tables
  <2>2. stage' \in [Threads -> Stages]
    BY <1>5 DEF Exit
  <2> QED BY <1>5, <2>1, <2>2 DEF Exit
<1> QED BY <1>1, <1>2, <1>3, <1>4, <1>5

LEMMA ThreadTypes ==
  ASSUME TypeOK, NEW s \in Threads, ThreadStep(s)
  PROVE  TypeOK'
<1> USE DEF TypeOK, Goto, window
<1>1. CASE Configure(s) \/ Receive(s) \/ TimeOut(s) \/ Bind(s) \/ Fail(s) \/ Shutdown(s)
  BY <1>1, QuietTypes DEF Configure, Receive, TimeOut, Bind, Fail, Shutdown, Stages, channels
<1>2. CASE CheckAdmin(s)
  <2>1. AccountsTypeOK'
    BY <1>2 DEF CheckAdmin, AccountsTypeOK, tables, caches, local
  <2> QED BY <1>2, <2>1 DEF CheckAdmin, Stages
<1>3. CASE CreateAdmin(s)
  <2>1. [name |-> "admin", admin |-> TRUE, active |-> TRUE] \in UserRows
    BY DEF UserRows, Names
  <2>2. AccountsTypeOK'
    BY <1>3, <2>1 DEF CreateAdmin, AccountsTypeOK, caches, local
  <2> QED BY <1>3, <2>2 DEF CreateAdmin, Stages, channels
<1>4. CASE Load(s)
  <2>1. ActiveUsers \subseteq Users /\ ActiveKeys \subseteq Keys
    BY DEF ActiveUsers, ActiveKeys
  <2>2. AccountsTypeOK'
    BY <1>4, <2>1 DEF Load, AccountsTypeOK, tables, local
  <2> QED BY <1>4, <2>2 DEF Load, Stages, channels
<1>5. CASE Drained(s)
  <2>1. AccountsTypeOK'
    BY <1>5 DEF Drained, AccountsTypeOK, tables, local
  <2> QED BY <1>5, <2>1 DEF Drained, Stages, channels
<1> QED BY <1>1, <1>2, <1>3, <1>4, <1>5 DEF ThreadStep

LEMMA ServerTypes ==
  ASSUME TypeOK, Handlers
  PROVE  TypeOK'
<1> USE DEF TypeOK, gui, window, channels
<1>1. ASSUME NEW u \in Users, Login(u), UNCHANGED gui
      PROVE  TypeOK'
  <2>1. row[u].admin \in BOOLEAN
    BY <1>1 DEF Login, ActiveUsers, IsUser, AccountsTypeOK, UserRows
  <2> QED BY <1>1, <2>1 DEF Login, AccountsTypeOK, tables, caches, local
<1>2. ASSUME NEW t \in Tasks, Ask(t), UNCHANGED gui
      PROVE  TypeOK'
  <2>1. PICK tok \in tokens, j \in Asked : Accept(t, j, tok[1], tok[2])
    BY <1>2 DEF Ask
  <2>2. tok[1] \in Users /\ tok[2] \in BOOLEAN /\ j \in Jobs
    BY <2>1, AccountsAssumption DEF AccountsTypeOK
  <2> QED BY <1>2, <2>1, <2>2, AcceptTypes
<1>3. ASSUME NEW t \in Tasks, Register(t), UNCHANGED gui
      PROVE  TypeOK'
  <2>1. PICK j \in Asked : Accept(t, j, Nobody, FALSE)
    BY <1>3 DEF Register
  <2>2. j \in Jobs
    BY AccountsAssumption
  <2> QED BY <1>3, <2>1, <2>2, AcceptTypes
<1>4. ASSUME NEW t \in Tasks, TaskStep(t), UNCHANGED gui
      PROVE  TypeOK'
  BY <1>4, HandlerTypes
<1> QED BY <1>1, <1>2, <1>3, <1>4 DEF Handlers

LEMMA TypeStep == TypeOK /\ [Next]_vars => TypeOK'
<1> SUFFICES ASSUME TypeOK, [Next]_vars PROVE TypeOK'
  OBVIOUS
<1>1. CASE UNCHANGED vars
  BY <1>1, QuietTypes DEF TypeOK, vars, gui, window, channels
<1>2. CASE Next
  BY <1>2, WindowTypes, ThreadTypes, ServerTypes DEF Next
<1> QED BY <1>1, <1>2

\* The variables of the window, its threads and the handlers keep their types:
\* among others, a reload installs ids of the kind its cache holds.
THEOREM TypeCorrect == Spec => []TypeOK
<1>1. Init => TypeOK
  BY InitTypes
<1>2. TypeOK /\ [Next]_vars => TypeOK'
  BY TypeStep
<1> QED BY <1>1, <1>2, PTL DEF Spec
-----------------------------------------------------------------------------
(* One service at a time. *)

\* Whatever is alive is the thread the window knows, and it knows that it is.
Known == \A s \in Threads : Live(s) => s = cur /\ status = "Running"

LEMMA KnownStep ==
  ASSUME TypeOK, Known, Next
  PROVE  Known'
<1> USE DEF TypeOK, Known, Live, Goto
<1>1. CASE StartService
  BY <1>1 DEF StartService
<1>2. CASE StopService \/ ConfirmSetupPassword
  BY <1>2 DEF StopService, ConfirmSetupPassword, window
<1>3. CASE Tick
  BY <1>3 DEF Tick
<1>4. CASE Exit
  BY <1>4 DEF Exit
<1>5. ASSUME NEW s \in Threads, ThreadStep(s)
      PROVE  Known'
  <2>1. Live(s) /\ UNCHANGED <<status, cur>>
    BY <1>5 DEF ThreadStep, Configure, CheckAdmin, Receive, TimeOut, CreateAdmin, Load,
                Bind, Fail, Shutdown, Drained, window
  <2>2. \A o \in Threads : o # s => stage'[o] = stage[o]
    BY <1>5 DEF ThreadStep, Configure, CheckAdmin, Receive, TimeOut, CreateAdmin, Load,
                Bind, Fail, Shutdown, Drained
  <2> QED BY <2>1, <2>2
<1>6. CASE Handlers
  BY <1>6 DEF Handlers, gui, window
<1> QED BY <1>1, <1>2, <1>3, <1>4, <1>5, <1>6 DEF Next

LEMMA KnownAlone == Known => Alone
<1> SUFFICES ASSUME Known PROVE Alone
  OBVIOUS
<1> DEFINE L == {s \in Threads : Live(s)}
<1>1. L \subseteq {cur}
  BY DEF Known
<1>2. IsFiniteSet({cur}) /\ Cardinality({cur}) = 1
  BY FS_Singleton
<1>3. Cardinality(L) <= 1
  BY <1>1, <1>2, FS_Subset
<1> QED BY <1>3 DEF Alone

\* The window never has two services at work, however starts, stops, passwords
\* and ends of threads follow each other: its status only leaves "Running" when
\* the thread has ended, not when it is told to.
THEOREM AloneSafe == Spec => []Alone
<1>1. Init => Known
  BY DEF Init, Known, Live
<1>2. TypeOK /\ Known /\ [Next]_vars => Known'
  <2>1. TypeOK /\ Known /\ UNCHANGED vars => Known'
    BY DEF Known, Live, vars, gui, window
  <2> QED BY <2>1, KnownStep
<1> QED BY <1>1, <1>2, TypeCorrect, KnownAlone, PTL DEF Spec
-----------------------------------------------------------------------------
(* The last administrator. *)

\* What Allowed has let in: users are changed by one who says that he is an
\* administrator, and not to his own disadvantage, or are registered.
Guarded ==
  \A t \in Tasks : job[t] \in UserJobs =>
    \/ caller[t].user = Nobody /\ job[t] \in Creates
    \/ /\ caller[t].user \in Users
       /\ job[t] \in Deletes => job[t].user # caller[t].user
       /\ job[t] \in Edits /\ job[t].user = caller[t].user =>
            job[t].admin # FALSE /\ job[t].active # FALSE

LEMMA GuardedAccept ==
  ASSUME TypeOK, Guarded, NEW t \in Tasks, NEW j, NEW u, NEW a,
         Accept(t, j, u, a), Allowed(u, a, j), u \in Users
  PROVE  Guarded'
<1>1. job' = [job EXCEPT ![t] = j] /\ caller' = [caller EXCEPT ![t] = [user |-> u, admin |-> a]]
  BY DEF Accept
<1>2. \A o \in Tasks : o # t => job'[o] = job[o] /\ caller'[o] = caller[o]
  BY <1>1 DEF TypeOK, AccountsTypeOK
<1>3. job'[t] = j /\ caller'[t].user = u
  BY <1>1 DEF TypeOK, AccountsTypeOK
<1> QED BY <1>2, <1>3 DEF Guarded, Allowed

LEMMA NoJobIsNone == NoJob \notin UserJobs
BY DEF NoJob, UserJobs, Creates, Edits, Deletes

LEMMA GuardedReturn ==
  ASSUME TypeOK, Guarded, NEW t \in Tasks, Return(t)
  PROVE  Guarded'
<1>1. \A o \in Tasks : o # t => job'[o] = job[o] /\ caller'[o] = caller[o]
  BY DEF Return, TypeOK, AccountsTypeOK
<1>2. job'[t] = NoJob
  BY DEF Return, TypeOK, AccountsTypeOK
<1> QED BY <1>1, <1>2, NoJobIsNone DEF Guarded

LEMMA GuardedStep ==
  ASSUME TypeOK, Guarded, [Next]_vars
  PROVE  Guarded'
<1>1. ASSUME UNCHANGED local
      PROVE  Guarded'
  BY <1>1 DEF Guarded, local
<1>2. CASE UNCHANGED vars \/ StartService \/ StopService \/ Tick \/ ConfirmSetupPassword
  BY <1>1, <1>2 DEF vars, accounts, StartService, StopService, Tick, ConfirmSetupPassword
<1>3. CASE Exit
  BY <1>3, NoJobIsNone DEF Exit, Guarded
<1>4. ASSUME NEW s \in Threads, ThreadStep(s)
      PROVE  Guarded'
  BY <1>1, <1>4 DEF ThreadStep, Configure, CheckAdmin, Receive, TimeOut, CreateAdmin, Load,
                    Bind, Fail, Shutdown, Drained, accounts
<1>5. CASE Handlers
  <2>1. ASSUME NEW u \in Users, Login(u)
        PROVE  Guarded'
    BY <1>1, <2>1 DEF Login
  <2>2. ASSUME NEW t \in Tasks, Ask(t)
        PROVE  Guarded'
    <3>1. PICK tok \in tokens, j \in Asked :
            Allowed(tok[1], tok[2], j) /\ Accept(t, j, tok[1], tok[2])
      BY <2>2 DEF Ask
    <3>2. tok[1] \in Users
      BY <3>1 DEF TypeOK, AccountsTypeOK
    <3> QED BY <3>1, <3>2, GuardedAccept
  <2>3. ASSUME NEW t \in Tasks, Register(t)
        PROVE  Guarded'
    <3>1. PICK j \in Asked \cap Creates : Accept(t, j, Nobody, FALSE)
      BY <2>3 DEF Register
    <3>2. \A o \in Tasks : o # t => job'[o] = job[o] /\ caller'[o] = caller[o]
      BY <3>1 DEF Accept, TypeOK, AccountsTypeOK
    <3>3. job'[t] = j /\ caller'[t].user = Nobody
      BY <3>1 DEF Accept, TypeOK, AccountsTypeOK
    <3> QED BY <3>1, <3>2, <3>3 DEF Guarded
  <2>4. ASSUME NEW t \in Tasks, TaskStep(t)
        PROVE  Guarded'
    <3>1. UNCHANGED local \/ Return(t)
      BY <2>4 DEF TaskStep, Find, Write, Abort, Fetch, Install
    <3> QED BY <3>1, <1>1, GuardedReturn
  <2> QED BY <1>5, <2>1, <2>2, <2>3, <2>4 DEF Handlers
<1> QED BY <1>2, <1>3, <1>4, <1>5 DEF Next

\* A write leaves its caller an administrator, if he is one still; the write of
\* a caller who is none is what outdated excuses.
LEMMA AdminWrites ==
  ASSUME TypeOK, Guarded, AdminExists, NEW t \in Tasks, Write(t), ~outdated'
  PROVE  AdminExists'
<1> USE DEF TypeOK, AccountsTypeOK
<1>1. CASE job[t] \in KeyJobs /\ WriteKey(job[t])
  BY <1>1 DEF WriteKey, AdminExists, ActiveAdmin, IsUser
<1>2. CASE job[t] \in UserJobs /\ WriteUser(job[t])
  <2>1. CASE job[t] \in Creates
    <3>1. /\ row[job[t].user] = Unborn
          /\ row' = [row EXCEPT ![job[t].user] =
                      [name |-> job[t].name, admin |-> job[t].admin, active |-> TRUE]]
      BY <1>2, <2>1 DEF WriteUser, Creates, Edits, Deletes
    <3>2. PICK v \in Users : ActiveAdmin(v)
      BY DEF AdminExists
    <3>3. v # job[t].user /\ row'[v] = row[v]
      BY <3>1, <3>2 DEF ActiveAdmin, IsUser
    <3> QED BY <3>2, <3>3 DEF AdminExists, ActiveAdmin, IsUser
  <2>2. CASE job[t] \notin Creates
    <3>1. PICK c \in Users :
            /\ c = caller[t].user /\ c # Nobody
            /\ job[t] \in Deletes => job[t].user # c
            /\ job[t] \in Edits /\ job[t].user = c =>
                 job[t].admin # FALSE /\ job[t].active # FALSE
      BY <1>2, <2>2, AccountsAssumption DEF Guarded
    <3>2. ActiveAdmin(c)
      BY <1>2, <3>1 DEF Write
    <3>3. ASSUME row'[c] = row[c]
          PROVE  AdminExists'
      BY <3>1, <3>2, <3>3 DEF AdminExists, ActiveAdmin, IsUser
    <3>4. CASE job[t] \in Deletes
      <4>1. row' = [row EXCEPT ![job[t].user] = Gone]
        BY <1>2, <3>4 DEF WriteUser, Creates, Edits, Deletes
      <4> QED BY <4>1, <3>1, <3>3, <3>4
    <3>5. CASE job[t] \in Edits
      <4>1. row' = [row EXCEPT ![job[t].user] = Edited(@, job[t])]
        BY <1>2, <3>5 DEF WriteUser, Creates, Edits, Deletes
      <4>2. CASE job[t].user # c
        BY <4>1, <4>2, <3>1, <3>3
      <4>3. CASE job[t].user = c
        <5>1. /\ job[t].admin \in {TRUE, Keep} /\ job[t].active \in {TRUE, Keep}
          BY <3>1, <3>5, <4>3 DEF Edits, Field
        <5>2. row[c] \in UserRows /\ row[c].admin = TRUE /\ row[c].active = TRUE
          BY <3>1, <3>2 DEF ActiveAdmin, IsUser, UserRows
        <5>3. row'[c] = Edited(row[c], job[t])
          BY <4>1, <4>3, <3>1
        <5>4. Edited(row[c], job[t]).admin /\ Edited(row[c], job[t]).active
          BY <5>1, <5>2 DEF Edited, UserRows
        <5>5. row'[c] \in UserRows
          BY <5>2, <5>3, <3>5, EditedType
        <5>6. row'[c] \notin {Unborn, Gone}
          BY <5>5, AccountsAssumption
        <5> QED BY <3>1, <5>3, <5>4, <5>6 DEF AdminExists, ActiveAdmin, IsUser
      <4> QED BY <4>2, <4>3
    <3> QED BY <1>2, <2>2, <3>4, <3>5 DEF UserJobs
  <2> QED BY <2>1, <2>2
<1> QED BY <1>1, <1>2 DEF Write

\* Stages in which the service has an administrator.
Kept == {"load", "bind", "serve", "drain"}

LEMMA LastAdminStep ==
  ASSUME TypeOK, Guarded, LastAdmin, [Next]_vars
  PROVE  LastAdmin'
<1> DEFINE Up == \E s \in Threads : stage[s] \in Kept
<1> USE DEF TypeOK, Kept
<1>1. ASSUME Up' => Up, UNCHANGED <<row, outdated>>
      PROVE  LastAdmin'
  BY <1>1 DEF LastAdmin, AdminExists, ActiveAdmin, IsUser
<1>2. CASE UNCHANGED vars \/ StopService \/ Tick \/ ConfirmSetupPassword
  BY <1>1, <1>2 DEF vars, accounts, gui, tables, StopService, Tick, ConfirmSetupPassword
<1>3. CASE StartService
  <2>1. \A s \in Threads : stage'[s] \in Kept => stage[s] \in Kept
    BY <1>3 DEF StartService, Goto
  <2> QED BY <1>1, <1>3, <2>1 DEF StartService, accounts, tables
<1>4. CASE Exit
  <2>1. ~Up'
    BY <1>4 DEF Exit, Live
  <2> QED BY <2>1 DEF LastAdmin
<1>5. ASSUME NEW s \in Threads, ThreadStep(s)
      PROVE  LastAdmin'
  <2>1. CASE CheckAdmin(s)
    <3>1. CASE AdminExists
      BY <2>1, <3>1 DEF CheckAdmin, LastAdmin, AdminExists, ActiveAdmin, IsUser, tables
    <3>2. CASE ~AdminExists
      <4>1. \A o \in Threads : stage'[o] \in Kept => stage[o] \in Kept
        BY <2>1, <3>2 DEF CheckAdmin, Goto
      <4> QED BY <1>1, <2>1, <3>2, <4>1 DEF CheckAdmin, tables
    <3> QED BY <3>1, <3>2
  <2>2. CASE CreateAdmin(s)
    <3>1. PICK u \in Users :
            row' = [row EXCEPT ![u] = [name |-> "admin", admin |-> TRUE, active |-> TRUE]]
      BY <2>2 DEF CreateAdmin
    <3>2. [name |-> "admin", admin |-> TRUE, active |-> TRUE] \in UserRows
      BY DEF UserRows, Names
    <3>3. row'[u] = [name |-> "admin", admin |-> TRUE, active |-> TRUE]
      BY <3>1 DEF AccountsTypeOK
    <3>4. row'[u] \notin {Unborn, Gone}
      BY <3>2, <3>3, AccountsAssumption
    <3>5. row'[u].admin /\ row'[u].active
      BY <3>3
    <3> QED BY <3>4, <3>5 DEF LastAdmin, AdminExists, ActiveAdmin, IsUser
  <2>3. CASE Load(s) \/ Bind(s) \/ Shutdown(s)
    <3>1. stage[s] \in Kept
      BY <2>3 DEF Load, Bind, Shutdown
    <3> QED BY <1>1, <2>3, <3>1 DEF Load, Bind, Shutdown, accounts, tables
  <2>4. CASE Configure(s) \/ Receive(s) \/ TimeOut(s) \/ Fail(s) \/ Drained(s)
    <3>1. \A o \in Threads : stage'[o] \in Kept => stage[o] \in Kept
      BY <2>4 DEF Configure, Receive, TimeOut, Fail, Drained, Goto
    <3> QED BY <1>1, <2>4, <3>1 DEF Configure, Receive, TimeOut, Fail, Drained, accounts, tables
  <2> QED BY <1>5, <2>1, <2>2, <2>3, <2>4 DEF ThreadStep
<1>6. CASE Handlers
  <2>1. Up' = Up
    BY <1>6 DEF Handlers, gui
  <2>2. ASSUME NEW t \in Tasks, Write(t)
        PROVE  LastAdmin'
    <3>1. outdated => outdated'
      BY <2>2 DEF Write
    <3> QED BY <2>1, <2>2, <3>1, AdminWrites DEF LastAdmin
  <2>3. ASSUME UNCHANGED <<row, outdated>>
        PROVE  LastAdmin'
    BY <1>1, <2>1, <2>3
  <2> QED BY <1>6, <2>2, <2>3 DEF Handlers, Login, Ask, Register, Accept, TaskStep,
                                  Find, Abort, Fetch, Install, tables
<1> QED BY <1>2, <1>3, <1>4, <1>5, <1>6 DEF Next

\* A service that loads or serves has an active administrator, whatever users
\* and administrators do at the same time, unless one changed users who had
\* ceased to be an administrator while his token was good.
THEOREM LastAdminSafe == Spec => []LastAdmin
<1>1. Init => Guarded /\ LastAdmin
  <2>1. Init => Guarded
    BY NoJobIsNone DEF Init, AccountsInit, Guarded
  <2>2. Init => LastAdmin
    BY DEF Init, LastAdmin
  <2> QED BY <2>1, <2>2
<1>2. TypeOK /\ (Guarded /\ LastAdmin) /\ [Next]_vars => (Guarded /\ LastAdmin)'
  BY GuardedStep, LastAdminStep
<1> QED BY <1>1, <1>2, TypeCorrect, PTL DEF Spec
-----------------------------------------------------------------------------
(* The caches of users and keys. *)

Caches == {"users", "keys"}
Truth(c) == IF c = "users" THEN ActiveUsers ELSE ActiveKeys
Cached(c) == IF c = "users" THEN known ELSE honoured

\* Task t is at the reload of cache c: before its query, or after it.
Before(t, c) == pc[t] = "fetch" /\ Cache(job[t]) = c
After(t, c) == pc[t] = "install" /\ Cache(job[t]) = c

\* When nobody is to reload c it is right, unless it is hazy.  A reload that no
\* other has crossed is alone after its query, and has fetched what the table
\* says, unless somebody who wrote since is about to fetch.
Synced(c) ==
  /\ c \notin hazy /\ (\A t \in Tasks : ~Before(t, c) /\ ~After(t, c)) => Cached(c) = Truth(c)
  /\ \A t \in Tasks : After(t, c) /\ t \notin crossed =>
       /\ snap[t] = Truth(c) \/ \E o \in Tasks : Before(o, c)
       /\ \A o \in Tasks \ {t} : ~After(o, c)

\* The caches are filled from "bind" on, and handlers run from "serve" on.
Filled == {"bind", "serve", "drain"}
Mirrored == (\E s \in Threads : stage[s] \in Filled) => \A c \in Caches : Synced(c)
Attended == Quiet \/ \E s \in Threads : stage[s] \in {"serve", "drain"}

LEMMA TwoKinds == UserJobs \cap KeyJobs = {}
BY DEF UserJobs, KeyJobs, Creates, Edits, Deletes

\* All tasks but t are where they were, with what they have.
Rest(t) ==
  \A o \in Tasks \ {t} : pc'[o] = pc[o] /\ job'[o] = job[o] /\ snap'[o] = snap[o]

LEMMA RestStays ==
  ASSUME NEW t \in Tasks, Rest(t), NEW c \in Caches
  PROVE  \A o \in Tasks \ {t} : /\ Before(o, c)' <=> Before(o, c)
                                /\ After(o, c)' <=> After(o, c)
                                /\ snap'[o] = snap[o]
BY DEF Rest, Before, After, Cache, UserJobs, Creates, Edits, Deletes

LEMMA Truths ==
  ASSUME UNCHANGED tables, NEW c \in Caches
  PROVE  Truth(c)' = Truth(c)
BY DEF tables, Truth, ActiveUsers, ActiveKeys, IsUser, IsKey

\* A step of a task that is neither before nor after its query.
LEMMA Elsewhere ==
  ASSUME NEW c \in Caches, Synced(c), NEW t \in Tasks, Rest(t),
         ~Before(t, c), ~After(t, c), ~Before(t, c)', ~After(t, c)',
         Truth(c)' = Truth(c), Cached(c)' = Cached(c),
         c \in hazy => c \in hazy', \A o \in Tasks \ {t} : o \in crossed => o \in crossed'
  PROVE  Synced(c)'
<1>1. \A o \in Tasks : /\ Before(o, c)' <=> Before(o, c)
                       /\ After(o, c)' <=> After(o, c)
  BY RestStays
<1>2. \A o \in Tasks \ {t} : snap'[o] = snap[o]
  BY RestStays
<1> QED BY <1>1, <1>2 DEF Synced

LEMMA StepRest ==
  ASSUME TypeOK, NEW t \in Tasks, TaskStep(t)
  PROVE  Rest(t)
BY DEF TypeOK, AccountsTypeOK, Rest, TaskStep, Find, Write, Abort, Fetch, Install, Return, local

LEMMA ReturnIdle ==
  ASSUME TypeOK, NEW t \in Tasks, Return(t)
  PROVE  pc'[t] = "idle"
BY DEF TypeOK, AccountsTypeOK, Return

\* The write of t makes it the one that is about to fetch, if it changes what
\* the cache should say.
LEMMA WriteSynced ==
  ASSUME TypeOK, NEW c \in Caches, Synced(c), NEW t \in Tasks, Write(t)
  PROVE  Synced(c)'
<1>1. Rest(t)
  BY StepRest DEF TaskStep
<1>2. pc[t] = "write" /\ pc'[t] = "fetch" /\ UNCHANGED <<known, honoured, job, crossed, hazy>>
  BY DEF Write, caches, local, TypeOK, AccountsTypeOK
<1>3. Cached(c)' = Cached(c)
  BY <1>2 DEF Cached
<1>4. CASE Cache(job[t]) = c
  <2>1. Before(t, c)' /\ ~After(t, c)'
    BY <1>2, <1>4 DEF Before, After, Cache
  <2>2. \A o \in Tasks : After(o, c)' => After(o, c)
    BY <1>1, <2>1, RestStays
  <2> QED BY <1>2, <2>1, <2>2 DEF Synced
<1>5. CASE Cache(job[t]) # c
  <2>1. ~Before(t, c) /\ ~After(t, c) /\ ~Before(t, c)' /\ ~After(t, c)'
    BY <1>2, <1>5 DEF Before, After, Cache
  <2>2. Truth(c)' = Truth(c)
    <3>1. CASE c = "users"
      <4>1. job[t] \notin UserJobs
        BY <1>5, <3>1 DEF Cache
      <4>2. UNCHANGED row
        BY <4>1 DEF Write, WriteKey
      <4> QED BY <3>1, <4>2 DEF Truth, ActiveUsers, IsUser
    <3>2. CASE c = "keys"
      <4>1. job[t] \in UserJobs
        BY <1>5, <3>2 DEF Cache
      <4>2. UNCHANGED key
        BY <4>1, TwoKinds DEF Write, WriteUser
      <4> QED BY <3>2, <4>2 DEF Truth, ActiveKeys, IsKey
    <3> QED BY <3>1, <3>2 DEF Caches
  <2> QED BY <1>1, <1>2, <1>3, <2>1, <2>2, Elsewhere
<1> QED BY <1>4, <1>5

\* Who gives up between its write and its query leaves the cache hazy and every
\* reload that is under way crossed.
LEMMA AbortSynced ==
  ASSUME TypeOK, NEW c \in Caches, Synced(c), NEW t \in Tasks, Abort(t)
  PROVE  Synced(c)'
<1>1. Rest(t)
  BY StepRest DEF TaskStep
<1>2. pc'[t] = "idle" /\ pc[t] # "install" /\ UNCHANGED <<tables, known, honoured>>
  BY ReturnIdle DEF Abort, caches
<1>3. Cached(c)' = Cached(c) /\ Truth(c)' = Truth(c)
  BY <1>2, Truths DEF Cached
<1>4. ~Before(t, c)' /\ ~After(t, c)' /\ ~After(t, c)
  BY <1>2 DEF Before, After
<1>5. CASE Before(t, c)
  <2>1. c \in hazy' /\ crossed' = crossed \cup Rivals(t)
    BY <1>5 DEF Abort, Before
  <2>2. \A o \in Tasks \ {t} : After(o, c) => o \in crossed'
    BY <1>5, <2>1 DEF Rivals, Before, After
  <2>3. \A o \in Tasks : After(o, c)' => o \in crossed'
    BY <1>1, <1>4, <2>2, RestStays
  <2> QED BY <2>1, <2>3 DEF Synced
<1>6. CASE ~Before(t, c)
  <2>1. hazy \subseteq hazy' /\ crossed \subseteq crossed'
    BY DEF Abort
  <2> QED BY <1>1, <1>3, <1>4, <1>6, <2>1, Elsewhere
<1> QED BY <1>5, <1>6

\* A query while another reload is between its own and its end: both are crossed.
LEMMA FetchSynced ==
  ASSUME TypeOK, NEW c \in Caches, Synced(c), NEW t \in Tasks, Fetch(t)
  PROVE  Synced(c)'
<1>1. Rest(t)
  BY StepRest DEF TaskStep
<1>2. /\ pc[t] = "fetch" /\ pc'[t] = "install" /\ UNCHANGED <<tables, known, honoured, job, hazy>>
      /\ snap'[t] = IF job[t] \in UserJobs THEN ActiveUsers ELSE ActiveKeys
      /\ crossed' = IF Rivals(t) = {} THEN crossed \ {t} ELSE crossed \cup Rivals(t) \cup {t}
  BY DEF Fetch, caches, local, TypeOK, AccountsTypeOK
<1>3. Cached(c)' = Cached(c) /\ Truth(c)' = Truth(c)
  BY <1>2, Truths DEF Cached
<1>4. CASE Cache(job[t]) = c
  <2>1. After(t, c)'
    BY <1>2, <1>4 DEF After, Cache
  <2>2. snap'[t] = Truth(c)'
    BY <1>2, <1>3, <1>4 DEF Truth, Cache
  <2>3. \A o \in Tasks \ {t} : After(o, c)' => o \in Rivals(t)
    BY <1>1, <1>4, RestStays DEF Rivals, After
  <2>4. \A o \in Tasks : After(o, c)' /\ o \notin crossed' => o = t /\ Rivals(t) = {}
    BY <1>2, <2>3
  <2> QED BY <2>1, <2>2, <2>3, <2>4 DEF Synced
<1>5. CASE Cache(job[t]) # c
  <2>1. ~Before(t, c) /\ ~After(t, c) /\ ~Before(t, c)' /\ ~After(t, c)'
    BY <1>2, <1>5 DEF Before, After, Cache
  <2>2. \A o \in Tasks \ {t} : o \in crossed => o \in crossed'
    BY <1>2
  <2> QED BY <1>1, <1>2, <1>3, <2>1, <2>2, Elsewhere
<1> QED BY <1>4, <1>5

\* A reload that was not crossed leaves its cache right, or to the next one.
LEMMA InstallSynced ==
  ASSUME TypeOK, NEW c \in Caches, Synced(c), NEW t \in Tasks, Install(t)
  PROVE  Synced(c)'
<1>1. Rest(t)
  BY StepRest DEF TaskStep
<1>2. pc[t] = "install" /\ pc'[t] = "idle" /\ UNCHANGED tables /\ crossed' = crossed \ {t}
  BY ReturnIdle DEF Install
<1>3. Truth(c)' = Truth(c)
  BY <1>2, Truths
<1>4. ~Before(t, c) /\ ~Before(t, c)' /\ ~After(t, c)'
  BY <1>2 DEF Before, After
<1>5. CASE Cache(job[t]) = c /\ t \in crossed
  <2>1. c \in hazy'
    BY <1>5 DEF Install
  <2>2. \A o \in Tasks : After(o, c)' /\ o \notin crossed' => FALSE
    <3>1. After(t, c)
      BY <1>2, <1>5 DEF After
    <3> QED BY <1>1, <1>2, <1>4, <3>1, RestStays DEF Synced
  <2> QED BY <2>1, <2>2 DEF Synced
<1>6. CASE Cache(job[t]) = c /\ t \notin crossed
  <2>1. After(t, c)
    BY <1>2, <1>6 DEF After
  <2>2. /\ snap[t] = Truth(c) \/ \E o \in Tasks : Before(o, c)
        /\ \A o \in Tasks \ {t} : ~After(o, c)
    BY <1>6, <2>1 DEF Synced
  <2>3. \A o \in Tasks : ~After(o, c)'
    BY <1>1, <1>4, <2>2, RestStays
  <2>4. Cached(c)' = snap[t]
    BY <1>6 DEF Install, Cached, Cache
  <2>5. \A o \in Tasks : Before(o, c) => Before(o, c)'
    BY <1>1, <1>4, RestStays
  <2>6. (\A o \in Tasks : ~Before(o, c)') => Cached(c)' = Truth(c)'
    BY <1>3, <2>2, <2>4, <2>5
  <2> QED BY <2>3, <2>6 DEF Synced
<1>7. CASE Cache(job[t]) # c
  <2>1. ~After(t, c)
    BY <1>7 DEF After
  <2>2. Cached(c)' = Cached(c) /\ (c \in hazy => c \in hazy')
    BY <1>7 DEF Install, Cached, Cache, Caches
  <2>3. \A o \in Tasks \ {t} : o \in crossed => o \in crossed'
    BY <1>2
  <2> QED BY <1>1, <1>3, <1>4, <2>1, <2>2, <2>3, Elsewhere
<1> QED BY <1>5, <1>6, <1>7

LEMMA TaskSynced ==
  ASSUME TypeOK, NEW c \in Caches, Synced(c), NEW t \in Tasks,
         \/ TaskStep(t)
         \/ \E j, u, a : Accept(t, j, u, a)
  PROVE  Synced(c)'
<1>1. CASE \E j, u, a : Accept(t, j, u, a)
  <2>1. /\ pc[t] = "idle" /\ pc'[t] = "find" /\ Rest(t)
        /\ UNCHANGED <<tables, known, honoured, crossed, hazy>>
    BY <1>1 DEF Accept, Rest, caches, TypeOK, AccountsTypeOK
  <2>2. ~Before(t, c) /\ ~After(t, c) /\ ~Before(t, c)' /\ ~After(t, c)'
    BY <2>1 DEF Before, After
  <2> QED BY <2>1, <2>2, Elsewhere, Truths DEF Cached
<1>2. CASE Find(t)
  <2>1. /\ pc[t] = "find" /\ pc'[t] \in {"idle", "write"}
        /\ UNCHANGED <<tables, known, honoured, crossed, hazy>>
    BY <1>2, ReturnIdle DEF Find, caches, TypeOK, AccountsTypeOK
  <2>2. ~Before(t, c) /\ ~After(t, c) /\ ~Before(t, c)' /\ ~After(t, c)'
    BY <2>1 DEF Before, After
  <2>3. Rest(t)
    BY <1>2, StepRest DEF TaskStep
  <2> QED BY <2>1, <2>2, <2>3, Elsewhere, Truths DEF Cached
<1> QED BY <1>1, <1>2, WriteSynced, AbortSynced, FetchSynced, InstallSynced DEF TaskStep

LEMMA AttendedStep ==
  ASSUME TypeOK, Known, Attended, [Next]_vars
  PROVE  Attended'
<1> USE DEF TypeOK, AccountsTypeOK, Goto
<1>1. CASE UNCHANGED vars \/ StopService \/ Tick \/ ConfirmSetupPassword
  BY <1>1 DEF vars, accounts, gui, Attended, Quiet, StopService, Tick, ConfirmSetupPassword
<1>2. CASE StartService
  <2>1. \A s \in Threads : stage[s] \in {"serve", "drain"} => stage'[s] \in {"serve", "drain"}
    BY <1>2 DEF StartService, Known, Live
  <2> QED BY <1>2, <2>1 DEF StartService, accounts, Attended, Quiet
<1>3. CASE Exit
  BY <1>3 DEF Exit, Attended, Quiet
<1>4. ASSUME NEW s \in Threads, ThreadStep(s) PROVE Attended'
  <2>1. pc' = pc
    BY <1>4 DEF ThreadStep, Configure, CheckAdmin, Receive, TimeOut, CreateAdmin, Load,
                Bind, Fail, Shutdown, Drained, accounts
  <2>2. CASE Quiet
    BY <2>1, <2>2 DEF Attended, Quiet
  <2>3. CASE ~Quiet
    <3>1. PICK o \in Threads : stage[o] \in {"serve", "drain"}
      BY <2>3 DEF Attended
    <3>2. o = s
      BY <1>4, <3>1 DEF Known, Live, ThreadStep, Configure, CheckAdmin, Receive, TimeOut,
                        CreateAdmin, Load, Bind, Fail, Shutdown, Drained
    <3>3. Shutdown(s)
      BY <1>4, <2>3, <3>1, <3>2 DEF ThreadStep, Configure, CheckAdmin, Receive, TimeOut,
                        CreateAdmin, Load, Bind, Fail, Drained
    <3> QED BY <3>3 DEF Shutdown, Attended
  <2> QED BY <2>2, <2>3
<1>5. CASE Handlers
  <2>1. \E s \in Threads : stage[s] \in {"serve", "drain"}
    <3>1. CASE Serving
      BY <3>1 DEF Serving
    <3>2. ASSUME NEW t \in Tasks, TaskStep(t) PROVE ~Quiet
      BY <3>2 DEF TaskStep, Find, Write, Abort, Fetch, Install, Quiet
    <3> QED BY <1>5, <3>1, <3>2 DEF Handlers, Attended
  <2> QED BY <1>5, <2>1 DEF Handlers, gui, Attended
<1> QED BY <1>1, <1>2, <1>3, <1>4, <1>5 DEF Next

LEMMA MirroredStep ==
  ASSUME TypeOK, Known, Attended, Mirrored, [Next]_vars
  PROVE  Mirrored'
<1> USE DEF TypeOK, AccountsTypeOK, Goto
<1>1. ASSUME UNCHANGED <<tables, known, honoured, pc, job, snap, crossed, hazy>>,
             \A s \in Threads : stage'[s] \in Filled => \E o \in Threads : stage[o] \in Filled
      PROVE  Mirrored'
  <2> SUFFICES ASSUME \E s \in Threads : stage'[s] \in Filled, NEW c \in Caches
               PROVE  Synced(c)'
    BY DEF Mirrored
  <2>1. Synced(c)
    BY <1>1 DEF Mirrored
  <2>2. Truth(c)' = Truth(c) /\ Cached(c)' = Cached(c)
    BY <1>1, Truths DEF Cached
  <2> QED BY <1>1, <2>1, <2>2 DEF Synced, Before, After, Cache
<1>2. CASE UNCHANGED vars \/ StopService \/ Tick \/ ConfirmSetupPassword
  BY <1>1, <1>2 DEF vars, accounts, caches, local, gui, StopService, Tick, ConfirmSetupPassword
<1>3. CASE StartService
  <2>1. \A s \in Threads : stage'[s] \in Filled => stage[s] \in Filled
    BY <1>3 DEF StartService, Filled
  <2> QED BY <1>1, <1>3, <2>1 DEF StartService, accounts, caches, local
<1>4. CASE Exit
  <2>1. \A s \in Threads : stage'[s] \notin Filled
    BY <1>4 DEF Exit, Live, Filled
  <2> QED BY <2>1 DEF Mirrored
<1>5. ASSUME NEW s \in Threads, ThreadStep(s) PROVE Mirrored'
  <2>1. \A o \in Threads \ {s} : stage'[o] \notin Filled
    <3>1. Live(s) /\ \A o \in Threads \ {s} : stage'[o] = stage[o]
      BY <1>5 DEF ThreadStep, Configure, CheckAdmin, Receive, TimeOut, CreateAdmin, Load,
                  Bind, Fail, Shutdown, Drained, Live
    <3>2. \A o \in Threads \ {s} : ~Live(o)
      BY <3>1 DEF Known
    <3> QED BY <3>1, <3>2 DEF Live, Filled
  <2>2. CASE Load(s)
    <3>1. Quiet
      <4>1. \A o \in Threads : stage[o] \notin {"serve", "drain"}
        BY <2>2 DEF Load, Known, Live
      <4> QED BY <4>1 DEF Attended
    <3>2. /\ known' = ActiveUsers /\ honoured' = ActiveKeys
          /\ UNCHANGED <<tables, pc, job>>
      BY <2>2 DEF Load, local
    <3>3. \A c \in Caches : Cached(c)' = Truth(c)'
      BY <3>2, Truths DEF Cached, Truth
    <3>4. \A c \in Caches, t \in Tasks : ~After(t, c)'
      BY <3>1, <3>2 DEF Quiet, After
    <3> QED BY <3>3, <3>4 DEF Mirrored, Synced
  <2>3. CASE Bind(s) \/ Shutdown(s)
    <3>1. stage[s] \in Filled
      BY <2>3 DEF Bind, Shutdown, Filled
    <3> QED BY <1>1, <2>3, <3>1 DEF Bind, Shutdown, accounts, caches, local
  <2>4. CASE ~Load(s) /\ ~Bind(s) /\ ~Shutdown(s)
    <3>1. stage'[s] \notin Filled
      BY <1>5, <2>4 DEF ThreadStep, Configure, CheckAdmin, Receive, TimeOut, CreateAdmin, Fail,
                        Drained, Filled
    <3> QED BY <2>1, <3>1 DEF Mirrored
  <2> QED BY <2>2, <2>3, <2>4
<1>6. CASE Handlers
  <2>1. stage' = stage
    BY <1>6 DEF Handlers, gui
  <2>2. ASSUME NEW t \in Tasks, TaskStep(t) \/ \E j, u, a : Accept(t, j, u, a)
        PROVE  Mirrored'
    BY <2>1, <2>2, TaskSynced DEF Mirrored
  <2>3. ASSUME NEW u \in Users, Login(u) PROVE Mirrored'
    BY <1>1, <2>1, <2>3 DEF Login, caches, local
  <2> QED BY <1>6, <2>2, <2>3 DEF Handlers, Ask, Register
<1> QED BY <1>2, <1>3, <1>4, <1>5, <1>6 DEF Next

\* When no handler is at work, whoever is active is let in and nobody else is,
\* unless the last reload of that cache overlapped another or failed.
THEOREM AdmittedSafe == Spec => []Admitted
<1>1. Init => Known /\ Attended /\ Mirrored
  BY DEF Init, AccountsInit, Known, Live, Attended, Quiet, Mirrored, Filled
<1>2. TypeOK /\ (Known /\ Attended /\ Mirrored) /\ [Next]_vars => (Known /\ Attended /\ Mirrored)'
  <2>1. TypeOK /\ Known /\ UNCHANGED vars => Known'
    BY DEF Known, Live, vars, gui, window
  <2> QED BY <2>1, KnownStep, AttendedStep, MirroredStep
<1>3. Mirrored => Admitted
  <2> SUFFICES ASSUME Mirrored, Serving, Quiet
               PROVE  /\ "users" \notin hazy => known = ActiveUsers
                      /\ "keys" \notin hazy => honoured = ActiveKeys
    BY DEF Admitted
  <2>1. Synced("users") /\ Synced("keys")
    BY DEF Mirrored, Serving, Filled, Caches
  <2>2. \A c \in Caches, t \in Tasks : ~Before(t, c) /\ ~After(t, c)
    BY DEF Quiet, Before, After
  <2> QED BY <2>1, <2>2 DEF Synced, Cached, Truth, Caches
<1> QED BY <1>1, <1>2, <1>3, TypeCorrect, PTL DEF Spec
=============================================================================
