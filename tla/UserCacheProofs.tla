-------------------------- MODULE UserCacheProofs --------------------------
(***************************************************************************)
(* UserCache for every number of users, administrators, requests, limits   *)
(* and days: the cache catches up with the database, a reload drops the    *)
(* right counters, and the quota is overrun by no more than was dropped.   *)
(***************************************************************************)
EXTENDS UserCache, TLAPS

USE DEF Passes, base, quota, reloads

-----------------------------------------------------------------------------
(* Types. *)

LEMMA VisibleType ==
  ASSUME NEW rows \in [Users -> Rows \cup {None}]
  PROVE  Visible(rows) \in [Users -> Rows \cup {None}]
BY DEF Visible

LEMMA NothingType ==
  /\ NoCount \in [n : Nat, date : 0..MaxDay]
  /\ NoRows \in [Users -> Rows \cup {None}]
BY UserCacheAssumption DEF NoCount, NoRows

LEMMA InitType == Init => TypeOK
<1> SUFFICES ASSUME Init PROVE TypeOK
  OBVIOUS
<1>1. db \in [Users -> Rows \cup {None}] /\ born \in SUBSET Users
  BY DEF Init, Present
<1>2. cache \in [Users -> Rows \cup {None}]
  BY <1>1, VisibleType DEF Init
<1>3. /\ count \in [Users -> [n : Nat, date : 0..MaxDay]]
      /\ snap \in [Tasks -> [Users -> Rows \cup {None}]]
  BY NothingType DEF Init
<1>4. /\ pc \in [Tasks -> {"idle", "fetch"} \cup Passes]
      /\ todo \in [Tasks -> SUBSET Users] /\ alive \in [Tasks -> SUBSET Users]
      /\ held \in [Gates -> [user : Users, row : Rows, since : 0..MaxDay] \cup {None}]
  BY DEF Init
<1>5. day \in 0..MaxDay /\ writes \in 0..MaxWrites
  BY UserCacheAssumption DEF Init
<1>6. /\ crossed \in [Tasks -> BOOLEAN] /\ hazy \in BOOLEAN
      /\ served \in [Users -> Nat] /\ resets \in [Users -> Nat]
  BY DEF Init
<1> QED BY <1>1, <1>2, <1>3, <1>4, <1>5, <1>6 DEF TypeOK

LEMMA ReachType ==
  ASSUME TypeOK, NEW t \in Tasks, NEW pass \in Passes, NEW u \in Users,
         NEW next \in Passes \cup {"idle"}, Reach(t, pass, u, next)
  PROVE  /\ pc' \in [Tasks -> {"idle", "fetch"} \cup Passes]
         /\ todo' \in [Tasks -> SUBSET Users]
<1>1. /\ pc \in [Tasks -> {"idle", "fetch"} \cup Passes]
      /\ todo \in [Tasks -> SUBSET Users]
      /\ next \in {"idle", "fetch"} \cup Passes
  BY DEF TypeOK
<1>2. CASE todo[t] = {u}
  <2>1. pc' = [pc EXCEPT ![t] = next]
    BY <1>2 DEF Reach
  <2>2. \E rest \in {{}, Users} : todo' = [todo EXCEPT ![t] = rest]
    BY <1>2 DEF Reach
  <2> QED BY <1>1, <2>1, <2>2
<1>3. CASE todo[t] # {u}
  <2>1. pc' = pc /\ todo' = [todo EXCEPT ![t] = @ \ {u}]
    BY <1>3 DEF Reach
  <2> QED BY <1>1, <2>1
<1> QED BY <1>2, <1>3

LEMMA ThrownType ==
  ASSUME NEW u \in Users
  PROVE  Thrown(u) \in {0, 1}
BY DEF Thrown

LEMMA QuotaType ==
  ASSUME TypeOK, NEW g \in Gates, CheckQuota(g)
  PROVE  TypeOK'
<1>1. held[g] \in [user : Users, row : Rows, since : 0..MaxDay]
  BY DEF TypeOK, CheckQuota
<1>2. PICK u \in Users : u = held[g].user
  BY <1>1
<1>3. PICK today \in held[g].since .. day :
        \E n \in {IF count[u].date = today THEN count[u].n ELSE 0} :
         \E over \in BOOLEAN :
          /\ count' = [count EXCEPT ![u] = [n |-> IF over THEN n ELSE n + 1, date |-> today]]
          /\ served' = IF over \/ today # day THEN served ELSE [served EXCEPT ![u] = @ + 1]
          /\ resets' = IF today = day THEN resets ELSE [resets EXCEPT ![u] = @ + Thrown(u)]
  BY <1>2 DEF CheckQuota, OverQuota
<1>4. today \in 0 .. MaxDay
  <2>1. held[g].since \in 0 .. MaxDay /\ day \in 0 .. MaxDay
    BY <1>1 DEF TypeOK
  <2> QED BY <2>1, UserCacheAssumption
<1>5. count[u].n \in Nat
  BY DEF TypeOK
<1>6. count' \in [Users -> [n : Nat, date : 0..MaxDay]]
  BY <1>3, <1>4, <1>5 DEF TypeOK
<1>7. served' \in [Users -> Nat] /\ resets' \in [Users -> Nat]
  BY <1>3, ThrownType DEF TypeOK
<1> QED BY <1>6, <1>7 DEF TypeOK, CheckQuota

LEMMA StepType == TypeOK /\ [Next]_vars => TypeOK'
<1> SUFFICES ASSUME TypeOK, [Next]_vars PROVE TypeOK'
  OBVIOUS
<1>1. ASSUME NEW t \in Tasks, Write(t) PROVE TypeOK'
  <2>1. \A n \in Limits : [active |-> TRUE, limit |-> n] \in Rows
    BY DEF Rows
  <2>2. db' \in [Users -> Rows \cup {None}] /\ born' \in SUBSET Users
    <3>1. PICK u \in Users : Create(u) \/ Update(u) \/ Delete(u)
      BY <1>1 DEF Write
    <3>2. PICK row \in Rows \cup {None} : db' = [db EXCEPT ![u] = row]
      BY <2>1, <3>1 DEF Create, Update, Delete
    <3>3. born' \in {born, born \cup {u}}
      BY <3>1 DEF Create, Update, Delete
    <3> QED BY <3>2, <3>3 DEF TypeOK
  <2>3. writes' \in 0 .. MaxWrites
    BY <1>1, UserCacheAssumption DEF Write, TypeOK
  <2>4. pc' \in [Tasks -> {"idle", "fetch"} \cup Passes]
    BY <1>1 DEF Write, TypeOK
  <2> QED BY <1>1, <2>2, <2>3, <2>4 DEF Write, TypeOK
<1>2. ASSUME NEW t \in Tasks, Fetch(t) PROVE TypeOK'
  <2>1. snap' \in [Tasks -> [Users -> Rows \cup {None}]]
    BY <1>2, VisibleType DEF Fetch, TypeOK
  <2>2. crossed' \in [Tasks -> BOOLEAN] /\ hazy' \in BOOLEAN
    BY <1>2 DEF Fetch, TypeOK
  <2> QED BY <1>2, <2>1, <2>2 DEF Fetch, TypeOK
<1>3. ASSUME NEW t \in Tasks, FetchFails(t) PROVE TypeOK'
  <2>1. crossed' \in [Tasks -> BOOLEAN]
    BY <1>3 DEF FetchFails, TypeOK
  <2> QED BY <1>3, <2>1 DEF FetchFails, TypeOK
<1>4. ASSUME NEW t \in Tasks, Clear(t) PROVE TypeOK'
  BY <1>4, ReachType DEF Clear, TypeOK
<1>5. ASSUME NEW t \in Tasks, Fill(t) PROVE TypeOK'
  BY <1>5, ReachType DEF Fill, TypeOK
<1>6. ASSUME NEW t \in Tasks, Survey(t) PROVE TypeOK'
  BY <1>6, ReachType DEF Survey, TypeOK
<1>7. ASSUME NEW t \in Tasks, Prune(t) PROVE TypeOK'
  <2>1. PICK u \in Users :
          /\ Reach(t, "prune", u, "idle")
          /\ IF u \in alive[t]
             THEN UNCHANGED quota
             ELSE /\ count' = [count EXCEPT ![u] = NoCount]
                  /\ resets' = [resets EXCEPT ![u] = @ + Thrown(u)]
                  /\ UNCHANGED served
          /\ IF todo[t] = {u}
             THEN /\ hazy' = (hazy /\ crossed[t])
                  /\ snap' = [snap EXCEPT ![t] = NoRows]
                  /\ alive' = [alive EXCEPT ![t] = {}]
                  /\ crossed' = [crossed EXCEPT ![t] = FALSE]
             ELSE UNCHANGED <<hazy, snap, alive, crossed>>
    BY <1>7 DEF Prune
  <2>2. count' \in [Users -> [n : Nat, date : 0..MaxDay]]
    BY <2>1, NothingType DEF TypeOK
  <2>3. resets' \in [Users -> Nat] /\ served' \in [Users -> Nat]
    <3>1. resets \in [Users -> Nat] /\ served \in [Users -> Nat]
      BY DEF TypeOK
    <3>2. PICK k \in {0, 1} : k = Thrown(u)
      BY ThrownType
    <3>3. served' = served /\ (resets' = resets \/ resets' = [resets EXCEPT ![u] = @ + k])
      BY <2>1, <3>2
    <3> QED BY <3>1, <3>3
  <2>4. /\ pc' \in [Tasks -> {"idle", "fetch"} \cup Passes]
        /\ todo' \in [Tasks -> SUBSET Users]
    BY <2>1, ReachType
  <2>6. /\ hazy' \in BOOLEAN /\ crossed' \in [Tasks -> BOOLEAN]
        /\ snap' \in [Tasks -> [Users -> Rows \cup {None}]]
        /\ alive' \in [Tasks -> SUBSET Users]
    <3>1. CASE todo[t] = {u}
      <4>1. hazy' = (hazy /\ crossed[t]) /\ crossed' = [crossed EXCEPT ![t] = FALSE]
        BY <2>1, <3>1
      <4>2. hazy' \in BOOLEAN
        BY <4>1
      <4>3. crossed' \in [Tasks -> BOOLEAN]
        BY <4>1 DEF TypeOK
      <4>4. snap' = [snap EXCEPT ![t] = NoRows] /\ alive' = [alive EXCEPT ![t] = {}]
        BY <2>1, <3>1
      <4>5. /\ snap' \in [Tasks -> [Users -> Rows \cup {None}]]
            /\ alive' \in [Tasks -> SUBSET Users]
        BY <4>4, NothingType DEF TypeOK
      <4> QED BY <4>2, <4>3, <4>5
    <3>2. CASE todo[t] # {u}
      BY <2>1, <3>2 DEF TypeOK
    <3> QED BY <3>1, <3>2
  <2> QED BY <1>7, <2>2, <2>3, <2>4, <2>6 DEF Prune, TypeOK
<1>8. ASSUME NEW g \in Gates, Look(g) PROVE TypeOK'
  BY <1>8 DEF Look, TypeOK
<1>9. ASSUME NEW g \in Gates, CheckQuota(g) PROVE TypeOK'
  BY <1>9, QuotaType
<1>10. CASE Midnight
  BY <1>10, UserCacheAssumption DEF Midnight, TypeOK
<1>11. CASE UNCHANGED vars
  BY <1>11 DEF vars, TypeOK
<1> QED BY <1>1, <1>2, <1>3, <1>4, <1>5, <1>6, <1>7, <1>8, <1>9, <1>10, <1>11 DEF Next

\* Every variable keeps its type; a counter never has a date to come.
THEOREM TypeCorrect == Spec => []TypeOK
BY InitType, StepType, PTL DEF Spec

-----------------------------------------------------------------------------
(* The quota. *)

\* What today's counter of u says.
Counted(u) == IF count[u].date = day THEN count[u].n ELSE 0

\* Of the requests served today, those the counter does not know of are no
\* more than one allowance for each time it was thrown away.
QuotaInv ==
  \A u \in Users, max \in Limits :
    (\A n \in Limits : n <= max) =>
      count[u].n <= max /\ served[u] <= max * resets[u] + Counted(u)

\* Everything is dated today or earlier, and so are the requests under way.
Dated ==
  /\ \A u \in Users : count[u].date <= day
  /\ \A g \in Gates : held[g] # None => held[g].since <= day

LEMMA Allowance ==
  ASSUME NEW max \in Nat, NEW n \in Nat, NEW k \in Nat
  PROVE  max * (n + 1) = max * n + max /\ max * (n + 0) = max * n /\ max * k \in Nat
OBVIOUS

LEMMA ThrowAway ==
  ASSUME TypeOK, QuotaInv, NEW u \in Users, NEW max \in Limits,
         \A n \in Limits : n <= max
  PROVE  served[u] <= max * (resets[u] + Thrown(u))
<1>1. /\ max \in Nat /\ resets[u] \in Nat /\ served[u] \in Nat
      /\ count[u].n \in Nat /\ count[u].n <= max
      /\ served[u] <= max * resets[u] + Counted(u)
  BY UserCacheAssumption DEF TypeOK, QuotaInv
<1>2. CASE Counted(u) = 0
  <2>1. served[u] <= max * resets[u] /\ max * resets[u] <= max * (resets[u] + Thrown(u))
    BY <1>1, <1>2, Allowance, ThrownType
  <2>2. max * resets[u] \in Nat /\ max * (resets[u] + Thrown(u)) \in Nat
    BY <1>1, Allowance, ThrownType
  <2> QED BY <1>1, <2>1, <2>2
<1>3. CASE Counted(u) # 0
  <2>1. Thrown(u) = 1 /\ Counted(u) = count[u].n
    BY <1>1, <1>3 DEF Counted, Thrown
  <2>2. max * (resets[u] + 1) = max * resets[u] + max /\ max * resets[u] \in Nat
    BY <1>1, Allowance
  <2> QED BY <1>1, <2>1, <2>2
<1> QED BY <1>2, <1>3

LEMMA CheckKeepsQuota ==
  ASSUME TypeOK, TypeOK', QuotaInv, Dated, NEW g \in Gates, CheckQuota(g)
  PROVE  QuotaInv' /\ Dated'
<1>1. /\ held[g] \in [user : Users, row : Rows, since : 0..MaxDay]
      /\ held[g].row.limit \in Limits
  BY DEF TypeOK, CheckQuota, Rows
<1>2. PICK u \in Users, cap \in Limits : u = held[g].user /\ cap = held[g].row.limit
  BY <1>1
<1>3. PICK today \in held[g].since .. day :
      \E n \in {IF count[u].date = today THEN count[u].n ELSE 0} :
        /\ count' = [count EXCEPT ![u] = [n |-> IF n >= cap THEN n ELSE n + 1, date |-> today]]
        /\ served' = IF n >= cap \/ today # day THEN served ELSE [served EXCEPT ![u] = @ + 1]
        /\ resets' = IF today = day THEN resets ELSE [resets EXCEPT ![u] = @ + Thrown(u)]
  BY <1>2 DEF CheckQuota, OverQuota
<1>31. PICK n \in {IF count[u].date = today THEN count[u].n ELSE 0} :
        /\ count' = [count EXCEPT ![u] = [n |-> IF n >= cap THEN n ELSE n + 1, date |-> today]]
        /\ served' = IF n >= cap \/ today # day THEN served ELSE [served EXCEPT ![u] = @ + 1]
        /\ resets' = IF today = day THEN resets ELSE [resets EXCEPT ![u] = @ + Thrown(u)]
  BY <1>3
<1>32. n = IF count[u].date = today THEN count[u].n ELSE 0
  OBVIOUS
<1>4. day' = day /\ held' = [held EXCEPT ![g] = None] /\ day \in Nat /\ today \in Nat
  <2>1. held[g].since \in 0 .. MaxDay /\ day \in 0 .. MaxDay
    BY <1>1 DEF TypeOK
  <2> QED BY <2>1, UserCacheAssumption DEF CheckQuota
<1>5. ASSUME NEW v \in Users, NEW max \in Limits, \A k \in Limits : k <= max
      PROVE  count'[v].n <= max /\ served'[v] <= max * resets'[v] + Counted(v)'
  <2>1. CASE v # u
    <3>1. count'[v] = count[v] /\ served'[v] = served[v] /\ resets'[v] = resets[v]
      BY <1>31, <1>32, <2>1 DEF TypeOK
    <3>2. Counted(v)' = Counted(v)
      BY <1>4, <3>1 DEF Counted
    <3> QED BY <1>5, <3>1, <3>2 DEF QuotaInv
  <2>2. CASE v = u
    <3>1. /\ n \in Nat /\ max \in Nat /\ cap \in Nat
          /\ cap <= max /\ n <= max
          /\ served[u] \in Nat /\ resets[u] \in Nat
          /\ served[u] <= max * resets[u] + Counted(u)
      <4>1. /\ max \in Nat /\ cap \in Nat /\ cap <= max
            /\ served[u] \in Nat /\ resets[u] \in Nat /\ count[u].n \in Nat
        BY <1>1, <1>5, UserCacheAssumption DEF TypeOK
      <4>2. count[u].n <= max /\ served[u] <= max * resets[u] + Counted(u)
        BY <1>5 DEF QuotaInv
      <4> QED BY <1>32, <4>1, <4>2
    <3>2. count'[u] = [n |-> IF n >= cap THEN n ELSE n + 1, date |-> today]
      BY <1>31, <1>32 DEF TypeOK
    <3>3. count'[u].n <= max /\ count'[u].n >= n
      BY <1>31, <1>32, <3>1, <3>2
    <3>4. max * resets[u] \in Nat
      BY <3>1, Allowance
    <3>5. CASE today = day
      <4>1. resets'[u] = resets[u] /\ Counted(u) = n
        BY <1>31, <1>32, <3>5 DEF Counted
      <4>2. Counted(u)' = IF n >= cap THEN n ELSE n + 1
        BY <1>4, <3>2, <3>5 DEF Counted
      <4>3. served'[u] = IF n >= cap THEN served[u] ELSE served[u] + 1
        BY <1>31, <1>32, <3>5 DEF TypeOK
      <4> QED BY <2>2, <3>1, <3>3, <3>4, <4>1, <4>2, <4>3
    <3>6. CASE today # day
      <4>1. resets'[u] = resets[u] + Thrown(u) /\ served'[u] = served[u]
        BY <1>31, <1>32, <3>6 DEF TypeOK
      <4>2. Counted(u)' = 0
        BY <1>4, <3>2, <3>6 DEF Counted
      <4>3. served[u] <= max * (resets[u] + Thrown(u))
        BY <1>5, ThrowAway
      <4>4. max * (resets[u] + Thrown(u)) \in Nat
        BY <3>1, Allowance, ThrownType
      <4> QED BY <2>2, <3>1, <3>3, <4>1, <4>2, <4>3, <4>4
    <3> QED BY <3>5, <3>6
  <2> QED BY <2>1, <2>2
<1>6. \A v \in Users : count'[v].date <= day
  <2>1. count'[u].date = today
    BY <1>31, <1>32 DEF TypeOK
  <2>2. \A v \in Users \ {u} : count'[v] = count[v]
    BY <1>31, <1>32 DEF TypeOK
  <2> QED BY <1>31, <1>32, <1>4, <2>1, <2>2 DEF Dated
<1>7. \A h \in Gates : held'[h] # None => held'[h].since <= day
  BY <1>4 DEF Dated, TypeOK
<1> QED BY <1>4, <1>5, <1>6, <1>7 DEF QuotaInv, Dated

LEMMA PruneKeepsQuota ==
  ASSUME TypeOK, TypeOK', QuotaInv, Dated, NEW t \in Tasks, Prune(t)
  PROVE  QuotaInv' /\ Dated'
<1>1. PICK u \in Users :
        IF u \in alive[t]
        THEN UNCHANGED quota
        ELSE /\ count' = [count EXCEPT ![u] = NoCount]
             /\ resets' = [resets EXCEPT ![u] = @ + Thrown(u)]
             /\ UNCHANGED served
  BY DEF Prune
<1>2. UNCHANGED <<day, held>> /\ day \in Nat
  BY DEF Prune, TypeOK
<1>3. CASE UNCHANGED quota
  BY <1>2, <1>3 DEF QuotaInv, Dated, Counted
<1>4. CASE ~ UNCHANGED quota
  <2>1. /\ count' = [count EXCEPT ![u] = NoCount]
        /\ resets' = [resets EXCEPT ![u] = @ + Thrown(u)]
        /\ UNCHANGED served
    BY <1>1, <1>4
  <2>2. ASSUME NEW v \in Users, NEW max \in Limits, \A k \in Limits : k <= max
        PROVE  count'[v].n <= max /\ served'[v] <= max * resets'[v] + Counted(v)'
    <3>1. CASE v # u
      <4>1. count'[v] = count[v] /\ served'[v] = served[v] /\ resets'[v] = resets[v]
        BY <2>1, <3>1 DEF TypeOK
      <4>2. Counted(v)' = Counted(v)
        BY <1>2, <4>1 DEF Counted
      <4> QED BY <2>2, <4>1, <4>2 DEF QuotaInv
    <3>2. CASE v = u
      <4>1. count'[u] = NoCount /\ resets'[u] = resets[u] + Thrown(u)
        BY <2>1 DEF TypeOK
      <4>2. Counted(u)' = 0 /\ count'[u].n = 0
        BY <4>1 DEF Counted, NoCount
      <4>3. served[u] <= max * (resets[u] + Thrown(u))
        BY <2>2, ThrowAway
      <4>4. max \in Nat /\ max * (resets[u] + Thrown(u)) \in Nat
        <5>1. max \in Nat /\ resets[u] \in Nat
          BY UserCacheAssumption DEF TypeOK
        <5>2. Thrown(u) \in Nat
          BY ThrownType
        <5> QED BY <5>1, <5>2, Allowance
      <4> QED BY <2>1, <3>2, <4>1, <4>2, <4>3, <4>4
    <3> QED BY <3>1, <3>2
  <2>3. \A v \in Users : count'[v].date <= day
    BY <1>2, <2>1 DEF Dated, NoCount, TypeOK
  <2> QED BY <1>2, <2>2, <2>3 DEF QuotaInv, Dated
<1> QED BY <1>3, <1>4

LEMMA StepQuota == TypeOK /\ TypeOK' /\ QuotaInv /\ Dated /\ [Next]_vars => QuotaInv' /\ Dated'
<1> SUFFICES ASSUME TypeOK, TypeOK', QuotaInv, Dated, [Next]_vars PROVE QuotaInv' /\ Dated'
  OBVIOUS
<1>1. ASSUME UNCHANGED <<count, served, resets, day, held>> PROVE QuotaInv' /\ Dated'
  BY <1>1 DEF QuotaInv, Dated, Counted
<1>2. ASSUME NEW t \in Tasks, \/ Write(t) \/ Fetch(t) \/ FetchFails(t)
                              \/ Clear(t) \/ Fill(t) \/ Survey(t)
      PROVE  QuotaInv' /\ Dated'
  BY <1>1, <1>2 DEF Write, Fetch, FetchFails, Clear, Fill, Survey
<1>3. ASSUME NEW g \in Gates, Look(g) PROVE QuotaInv' /\ Dated'
  <2>1. UNCHANGED <<count, served, resets, day>> /\ day \in Nat
    BY <1>3 DEF Look, TypeOK
  <2>2. QuotaInv'
    BY <2>1 DEF QuotaInv, Counted
  <2>3. \A h \in Gates : held'[h] # None => held'[h].since <= day
    BY <1>3, <2>1 DEF Look, Dated, TypeOK
  <2> QED BY <2>1, <2>2, <2>3 DEF Dated
<1>4. CASE Midnight
  <2>1. /\ day' = day + 1 /\ UNCHANGED <<count, held>> /\ day \in Nat
        /\ served' = [u \in Users |-> 0] /\ resets' = [u \in Users |-> 0]
    BY <1>4 DEF Midnight, TypeOK
  <2>2. \A u \in Users : count[u].date # day' /\ count[u].date \in Nat
    BY <2>1 DEF Dated, TypeOK
  <2>3. \A u \in Users : Counted(u)' = 0 /\ served'[u] = 0 /\ resets'[u] = 0
    BY <2>1, <2>2 DEF Counted
  <2>4. QuotaInv'
    <3> SUFFICES ASSUME NEW u \in Users, NEW max \in Limits, \A n \in Limits : n <= max
                 PROVE  count'[u].n <= max /\ served'[u] <= max * resets'[u] + Counted(u)'
      BY DEF QuotaInv
    <3>1. count[u].n <= max
      BY DEF QuotaInv
    <3>2. max \in Nat
      BY UserCacheAssumption
    <3> QED BY <2>1, <2>3, <3>1, <3>2
  <2>5. \A g \in Gates : held[g] # None => held[g].since \in Nat
    BY DEF TypeOK
  <2>6. Dated'
    BY <2>1, <2>2, <2>5 DEF Dated
  <2> QED BY <2>4, <2>6
<1>5. CASE UNCHANGED vars
  BY <1>1, <1>5 DEF vars
<1> QED BY <1>2, <1>3, <1>4, <1>5, CheckKeepsQuota, PruneKeepsQuota DEF Next

LEMMA InitQuota == Init => QuotaInv /\ Dated
<1> SUFFICES ASSUME Init PROVE QuotaInv /\ Dated
  OBVIOUS
<1>1. \A u \in Users : /\ count[u].n = 0 /\ count[u].date = 0
                       /\ served[u] = 0 /\ resets[u] = 0
  BY DEF Init, NoCount
<1>2. \A g \in Gates : held[g] = None
  BY DEF Init
<1>3. day = 0
  BY DEF Init
<1> QED BY <1>1, <1>2, <1>3, UserCacheAssumption DEF QuotaInv, Dated, Counted

\* A user is served at most one allowance a day, and one more for each time that
\* the count of the day was thrown away.
THEOREM QuotaSafe == Spec => []QuotaBound
<1>1. Init => TypeOK /\ QuotaInv /\ Dated
  BY InitType, InitQuota
<1>2. (TypeOK /\ QuotaInv /\ Dated) /\ [Next]_vars => (TypeOK /\ QuotaInv /\ Dated)'
  BY StepType, StepQuota
<1>3. TypeOK /\ QuotaInv => QuotaBound
  <2> SUFFICES ASSUME TypeOK, QuotaInv, NEW u \in Users, NEW max \in Limits,
                      \A n \in Limits : n <= max
               PROVE  served[u] <= max * (1 + resets[u])
    BY DEF QuotaBound
  <2>1. /\ max \in Nat /\ resets[u] \in Nat /\ served[u] \in Nat /\ count[u].n \in Nat
        /\ count[u].n <= max /\ served[u] <= max * resets[u] + Counted(u)
    BY UserCacheAssumption DEF TypeOK, QuotaInv
  <2>2. Counted(u) \in Nat /\ Counted(u) <= max
    BY <2>1 DEF Counted
  <2>3. max * (resets[u] + 1) = max * resets[u] + max /\ max * resets[u] \in Nat
    BY <2>1, Allowance
  <2>4. 1 + resets[u] = resets[u] + 1
    BY <2>1
  <2> QED BY <2>1, <2>2, <2>3, <2>4
<1> QED BY <1>1, <1>2, <1>3, PTL DEF Spec
-----------------------------------------------------------------------------
(* Reloads.  One that nobody crosses has the cache to itself. *)

\* What a reload that nobody crosses has done when it is at its place.
Phase(t) ==
  /\ pc[t] = "clear" => \A u \in Users \ todo[t] : cache[u] = None
  /\ pc[t] = "fill" => \A u \in Users :
                         cache[u] = IF u \in todo[t] THEN None ELSE snap[t][u]
  /\ pc[t] = "survey" => /\ cache = snap[t]
                         /\ alive[t] = {u \in Users \ todo[t] : cache[u] # None}
  /\ pc[t] = "prune" => cache = snap[t] /\ alive[t] = Present(snap[t])

\* The list of active users is empty until it is collected.
Blank == \A t \in Tasks : pc[t] \notin {"survey", "prune"} => alive[t] = {}

\* A crossed reload leaves a mark, and only reloads are crossed.
Marked == \A t \in Tasks : crossed[t] => hazy /\ pc[t] \in Passes

\* A reload that is not crossed is the only one.
Sole == \A t \in Tasks : pc[t] \in Passes /\ ~crossed[t] =>
          \A o \in Tasks \ {t} : pc[o] \notin Passes

\* Unless somebody has written since and is about to fetch, such a reload has
\* what the database holds.
Fresh == \A t \in Tasks :
  (pc[t] \in Passes /\ ~crossed[t] /\ \A o \in Tasks : pc[o] # "fetch") =>
    snap[t] = Visible(db)

ReloadInv ==
  /\ Blank /\ Marked /\ Sole /\ Fresh /\ Agrees
  /\ \A t \in Tasks : ~crossed[t] => Phase(t)

\* A pass of t moves nobody else, so its own phase is all there is to show.
LEMMA PassKeeps ==
  ASSUME TypeOK, ReloadInv, NEW t \in Tasks,
         pc[t] \in Passes, pc'[t] \in Passes,
         \A o \in Tasks \ {t} : pc'[o] = pc[o],
         UNCHANGED <<db, crossed, hazy, snap>>,
         \A o \in Tasks \ {t} : alive'[o] = alive[o],
         pc'[t] \notin {"survey", "prune"} => alive'[t] = {},
         ~crossed[t] => Phase(t)'
  PROVE  ReloadInv'
<1>1. Blank' /\ Marked' /\ Sole'
  BY DEF ReloadInv, Blank, Marked, Sole
<1>2. Fresh'
  <2> SUFFICES ASSUME NEW o \in Tasks, pc'[o] \in Passes, ~crossed[o],
                      \A p \in Tasks : pc'[p] # "fetch"
               PROVE  snap[o] = Visible(db)
    BY DEF Fresh, Visible
  <2>1. o = t
    BY DEF ReloadInv, Sole
  <2>2. \A p \in Tasks : pc[p] # "fetch"
    BY DEF TypeOK
  <2> QED BY <2>1, <2>2 DEF ReloadInv, Fresh
<1>3. Agrees'
  BY DEF Agrees, Quiet
<1>4. ASSUME NEW o \in Tasks, ~crossed'[o], o # t PROVE Phase(o)'
  <2>1. pc'[o] \notin Passes
    BY <1>4 DEF ReloadInv, Sole
  <2> QED BY <2>1 DEF Phase
<1> QED BY <1>1, <1>2, <1>3, <1>4 DEF ReloadInv

\* What Reach does, and that it leaves the others where they are.
LEMMA ReachMoves ==
  ASSUME TypeOK, NEW t \in Tasks, NEW pass \in Passes, NEW u \in Users,
         NEW next \in Passes \cup {"idle"}, Reach(t, pass, u, next)
  PROVE  /\ pc[t] = pass /\ u \in todo[t] /\ todo[t] \subseteq Users
         /\ \A o \in Tasks \ {t} : pc'[o] = pc[o]
         /\ \/ /\ todo[t] = {u} /\ pc'[t] = next
               /\ todo'[t] = IF next = "idle" THEN {} ELSE Users
            \/ /\ todo[t] # {u} /\ pc' = pc /\ todo'[t] = todo[t] \ {u}
<1>1. pc \in [Tasks -> {"idle", "fetch"} \cup Passes] /\ todo \in [Tasks -> SUBSET Users]
  BY DEF TypeOK
<1>2. pc[t] = pass /\ u \in todo[t] /\ todo[t] \subseteq Users
  BY <1>1 DEF Reach
<1>3. CASE todo[t] = {u}
  <2>1. /\ pc' = [pc EXCEPT ![t] = next]
        /\ todo' = [todo EXCEPT ![t] = IF next = "idle" THEN {} ELSE Users]
    BY <1>3 DEF Reach
  <2>2. pc'[t] = next /\ \A o \in Tasks \ {t} : pc'[o] = pc[o]
    BY <1>1, <2>1
  <2>3. todo'[t] = IF next = "idle" THEN {} ELSE Users
    BY <1>1, <2>1
  <2> QED BY <1>2, <1>3, <2>2, <2>3
<1>4. CASE todo[t] # {u}
  <2>1. pc' = pc /\ todo' = [todo EXCEPT ![t] = @ \ {u}]
    BY <1>4 DEF Reach
  <2> QED BY <1>1, <1>2, <1>4, <2>1
<1> QED BY <1>3, <1>4

LEMMA ClearKeeps ==
  ASSUME TypeOK, ReloadInv, NEW t \in Tasks, Clear(t)
  PROVE  ReloadInv'
<1>1. PICK u \in Users :
        /\ Reach(t, "clear", u, "fill")
        /\ cache' = [cache EXCEPT ![u] = None]
  BY DEF Clear
<1>2. UNCHANGED <<db, crossed, hazy, snap, alive>>
  BY DEF Clear
<1>3. /\ pc[t] = "clear" /\ u \in todo[t] /\ todo[t] \subseteq Users
      /\ \A o \in Tasks \ {t} : pc'[o] = pc[o]
      /\ \/ todo[t] = {u} /\ pc'[t] = "fill" /\ todo'[t] = Users
         \/ todo[t] # {u} /\ pc' = pc /\ todo'[t] = todo[t] \ {u}
  BY <1>1, ReachMoves
<1>4. cache'[u] = None /\ \A v \in Users \ {u} : cache'[v] = cache[v]
  BY <1>1 DEF TypeOK
<1>5. ASSUME ~crossed[t] PROVE Phase(t)'
  <2>1. \A v \in Users \ todo[t] : cache[v] = None
    BY <1>3, <1>5 DEF ReloadInv, Phase
  <2>2. CASE todo[t] = {u}
    <3>1. \A v \in Users : cache'[v] = None
      BY <1>4, <2>1, <2>2
    <3> QED BY <1>3, <2>2, <3>1 DEF Phase
  <2>3. CASE todo[t] # {u}
    <3>1. \A v \in Users \ todo'[t] : cache'[v] = None
      BY <1>3, <1>4, <2>1, <2>3
    <3>2. pc'[t] = "clear"
      BY <1>3, <2>3
    <3> QED BY <3>1, <3>2 DEF Phase
  <2> QED BY <2>2, <2>3
<1>6. alive[t] = {}
  BY <1>3 DEF ReloadInv, Blank
<1> QED BY <1>2, <1>3, <1>5, <1>6, PassKeeps

LEMMA FillKeeps ==
  ASSUME TypeOK, ReloadInv, NEW t \in Tasks, Fill(t)
  PROVE  ReloadInv'
<1>1. PICK u \in Users :
        /\ Reach(t, "fill", u, "survey")
        /\ cache' = IF snap[t][u] # None
                    THEN [cache EXCEPT ![u] = snap[t][u]] ELSE cache
  BY DEF Fill
<1>2. UNCHANGED <<db, crossed, hazy, snap, alive>>
  BY DEF Fill
<1>3. /\ pc[t] = "fill" /\ u \in todo[t] /\ todo[t] \subseteq Users
      /\ \A o \in Tasks \ {t} : pc'[o] = pc[o]
      /\ \/ todo[t] = {u} /\ pc'[t] = "survey" /\ todo'[t] = Users
         \/ todo[t] # {u} /\ pc' = pc /\ todo'[t] = todo[t] \ {u}
  BY <1>1, ReachMoves
<1>4. cache \in [Users -> Rows \cup {None}] /\ snap[t] \in [Users -> Rows \cup {None}]
  BY DEF TypeOK
<1>5. alive[t] = {}
  BY <1>3 DEF ReloadInv, Blank
<1>6. ASSUME ~crossed[t] PROVE Phase(t)'
  <2>1. \A v \in Users : cache[v] = IF v \in todo[t] THEN None ELSE snap[t][v]
    BY <1>3, <1>6 DEF ReloadInv, Phase
  <2>2. cache'[u] = snap[t][u] /\ \A v \in Users \ {u} : cache'[v] = cache[v]
    BY <1>1, <1>3, <1>4, <2>1
  <2>3. cache' \in [Users -> Rows \cup {None}]
    BY <1>1, <1>4
  <2>4. CASE todo[t] = {u}
    <3>1. \A v \in Users : cache'[v] = snap[t][v]
      BY <2>1, <2>2, <2>4
    <3>2. cache' = snap'[t]
      BY <1>2, <1>4, <2>3, <3>1
    <3>3. pc'[t] = "survey" /\ todo'[t] = Users /\ alive'[t] = {}
      BY <1>2, <1>3, <1>5, <2>4
    <3> QED BY <3>2, <3>3 DEF Phase
  <2>5. CASE todo[t] # {u}
    <3>1. \A v \in Users : cache'[v] = IF v \in todo'[t] THEN None ELSE snap'[t][v]
      BY <1>2, <1>3, <2>1, <2>2, <2>5
    <3>2. pc'[t] = "fill"
      BY <1>3, <2>5
    <3> QED BY <3>1, <3>2 DEF Phase
  <2> QED BY <2>4, <2>5
<1> QED BY <1>2, <1>3, <1>5, <1>6, PassKeeps

LEMMA SurveyKeeps ==
  ASSUME TypeOK, ReloadInv, NEW t \in Tasks, Survey(t)
  PROVE  ReloadInv'
<1>1. PICK u \in Users :
        /\ Reach(t, "survey", u, "prune")
        /\ alive' = [alive EXCEPT ![t] = IF cache[u] # None THEN @ \cup {u} ELSE @]
  BY DEF Survey
<1>2. UNCHANGED <<db, cache, crossed, hazy, snap>>
  BY DEF Survey
<1>3. /\ pc[t] = "survey" /\ u \in todo[t] /\ todo[t] \subseteq Users
      /\ \A o \in Tasks \ {t} : pc'[o] = pc[o]
      /\ \/ todo[t] = {u} /\ pc'[t] = "prune" /\ todo'[t] = Users
         \/ todo[t] # {u} /\ pc' = pc /\ todo'[t] = todo[t] \ {u}
  BY <1>1, ReachMoves
<1>4. /\ alive'[t] = IF cache[u] # None THEN alive[t] \cup {u} ELSE alive[t]
      /\ \A o \in Tasks \ {t} : alive'[o] = alive[o]
  BY <1>1 DEF TypeOK
<1>5. ASSUME ~crossed[t] PROVE Phase(t)'
  <2>1. cache = snap[t] /\ alive[t] = {v \in Users \ todo[t] : cache[v] # None}
    BY <1>3, <1>5 DEF ReloadInv, Phase
  <2>2. alive'[t] = {v \in Users \ (todo[t] \ {u}) : cache[v] # None}
    BY <1>3, <1>4, <2>1
  <2>3. CASE todo[t] = {u}
    <3>1. alive'[t] = {v \in Users : snap[t][v] # None}
      BY <2>1, <2>2, <2>3
    <3>2. pc'[t] = "prune" /\ cache' = snap'[t] /\ snap' = snap
      BY <1>2, <1>3, <2>1, <2>3
    <3> QED BY <3>1, <3>2 DEF Phase, Present
  <2>4. CASE todo[t] # {u}
    <3>1. pc'[t] = "survey" /\ todo'[t] = todo[t] \ {u} /\ cache' = snap'[t] /\ cache' = cache
      BY <1>2, <1>3, <2>1, <2>4
    <3> QED BY <2>2, <3>1 DEF Phase
  <2> QED BY <2>3, <2>4
<1>6. pc'[t] \in {"survey", "prune"}
  BY <1>3
<1> QED BY <1>2, <1>3, <1>4, <1>5, <1>6, PassKeeps

LEMMA PruneKeeps ==
  ASSUME TypeOK, ReloadInv, NEW t \in Tasks, Prune(t)
  PROVE  ReloadInv'
<1>1. PICK u \in Users :
        /\ Reach(t, "prune", u, "idle")
        /\ IF todo[t] = {u}
           THEN /\ hazy' = (hazy /\ crossed[t])
                /\ snap' = [snap EXCEPT ![t] = NoRows]
                /\ alive' = [alive EXCEPT ![t] = {}]
                /\ crossed' = [crossed EXCEPT ![t] = FALSE]
           ELSE UNCHANGED <<hazy, snap, alive, crossed>>
  BY DEF Prune
<1>2. UNCHANGED <<db, cache>>
  BY DEF Prune
<1>3. /\ pc[t] = "prune" /\ u \in todo[t] /\ todo[t] \subseteq Users
      /\ \A o \in Tasks \ {t} : pc'[o] = pc[o]
      /\ \/ todo[t] = {u} /\ pc'[t] = "idle"
         \/ todo[t] # {u} /\ pc' = pc
  BY <1>1, ReachMoves
<1>4. CASE todo[t] # {u}
  <2>1. UNCHANGED <<hazy, snap, alive, crossed, pc>>
    BY <1>1, <1>3, <1>4
  <2>2. ~crossed[t] => Phase(t)'
    BY <1>2, <1>3, <2>1 DEF ReloadInv, Phase
  <2> QED BY <1>2, <1>3, <2>1, <2>2, PassKeeps
<1>5. CASE todo[t] = {u}
  <2>1. /\ hazy' = (hazy /\ crossed[t])
        /\ snap' = [snap EXCEPT ![t] = NoRows]
        /\ alive' = [alive EXCEPT ![t] = {}]
        /\ crossed' = [crossed EXCEPT ![t] = FALSE]
    BY <1>1, <1>5
  <2>2. pc'[t] = "idle"
    BY <1>3, <1>5
  <2>3. /\ alive'[t] = {} /\ ~crossed'[t]
        /\ \A o \in Tasks \ {t} : /\ alive'[o] = alive[o] /\ snap'[o] = snap[o]
                                  /\ crossed'[o] = crossed[o]
    BY <2>1 DEF TypeOK
  <2>4. Blank'
    BY <1>3, <2>2, <2>3 DEF ReloadInv, Blank
  <2>5. ASSUME NEW o \in Tasks, crossed'[o] PROVE hazy' /\ pc'[o] \in Passes
    <3>1. o # t /\ crossed[o] /\ hazy /\ pc[o] \in Passes
      BY <2>3, <2>5 DEF ReloadInv, Marked
    <3>2. crossed[t]
      BY <1>3, <3>1 DEF ReloadInv, Sole
    <3> QED BY <1>3, <2>1, <3>1, <3>2
  <2>6. Sole'
    BY <1>3, <2>2, <2>3 DEF ReloadInv, Sole
  <2>7. Fresh'
    <3> SUFFICES ASSUME NEW o \in Tasks, pc'[o] \in Passes, ~crossed'[o],
                        \A p \in Tasks : pc'[p] # "fetch"
                 PROVE  snap'[o] = Visible(db)
      BY <1>2 DEF Fresh, Visible
    <3>1. o # t /\ pc[o] \in Passes /\ ~crossed[o] /\ snap'[o] = snap[o]
      BY <1>3, <2>2, <2>3
    <3>2. \A p \in Tasks : pc[p] # "fetch"
      BY <1>3
    <3> QED BY <3>1, <3>2 DEF ReloadInv, Fresh
  <2>8. ASSUME Quiet', ~hazy' PROVE cache = Visible(db)
    <3>1. ~crossed[t]
      BY <2>1, <2>8 DEF ReloadInv, Marked
    <3>2. cache = snap[t]
      BY <1>3, <3>1 DEF ReloadInv, Phase
    <3>3. \A p \in Tasks : pc[p] # "fetch"
      BY <1>3, <2>8 DEF Quiet
    <3>4. snap[t] = Visible(db)
      BY <1>3, <3>1, <3>3 DEF ReloadInv, Fresh
    <3> QED BY <3>2, <3>4
  <2>9. Agrees'
    BY <1>2, <2>8 DEF Agrees, Visible
  <2>10. ASSUME NEW o \in Tasks, ~crossed'[o] PROVE Phase(o)'
    <3>1. CASE o = t
      BY <2>2, <3>1 DEF Phase
    <3>2. CASE o # t
      <4>1. pc'[o] \notin Passes \/ (pc'[o] = pc[o] /\ crossed'[o] = crossed[o])
        BY <1>3, <2>3, <3>2
      <4>2. pc[t] \in Passes
        BY <1>3
      <4>3. pc'[o] \notin Passes
        BY <2>10, <3>2, <4>1, <4>2 DEF ReloadInv, Sole
      <4> QED BY <4>3 DEF Phase
    <3> QED BY <3>1, <3>2
  <2> QED BY <2>4, <2>5, <2>6, <2>7, <2>9, <2>10 DEF ReloadInv, Marked
<1> QED BY <1>4, <1>5

LEMMA FetchKeeps ==
  ASSUME TypeOK, ReloadInv, NEW t \in Tasks, Fetch(t)
  PROVE  ReloadInv'
<1>1. PICK others \in SUBSET Tasks :
        /\ others = {o \in Tasks \ {t} : pc[o] \in Passes}
        /\ crossed' = [o \in Tasks |->
                         IF o = t THEN others # {} ELSE crossed[o] \/ o \in others]
        /\ hazy' = (hazy \/ others # {})
  BY DEF Fetch, Reloading
<1>2. /\ pc[t] = "fetch" /\ UNCHANGED <<db, cache, alive>>
      /\ snap' = [snap EXCEPT ![t] = Visible(db)]
      /\ pc' = [pc EXCEPT ![t] = "clear"]
      /\ todo' = [todo EXCEPT ![t] = Users]
  BY DEF Fetch
<1>3. /\ pc'[t] = "clear" /\ todo'[t] = Users /\ snap'[t] = Visible(db)
      /\ \A o \in Tasks \ {t} : pc'[o] = pc[o] /\ snap'[o] = snap[o]
  BY <1>2 DEF TypeOK
<1>4. \A o \in Tasks \ {t} : crossed'[o] <=> pc[o] \in Passes
  BY <1>1 DEF ReloadInv, Marked, Sole
<1>5. crossed'[t] <=> \E o \in Tasks \ {t} : pc[o] \in Passes
  BY <1>1
<1>6. Blank'
  BY <1>2, <1>3 DEF ReloadInv, Blank
<1>7. Marked'
  <2>1. ASSUME NEW o \in Tasks, crossed'[o] PROVE hazy'
    BY <1>1, <1>4, <1>5, <2>1
  <2> QED BY <1>3, <1>4, <2>1 DEF Marked
<1>8. Sole'
  BY <1>3, <1>4, <1>5 DEF Sole
<1>9. Fresh'
  <2>1. ASSUME NEW o \in Tasks, pc'[o] \in Passes, ~crossed'[o]
        PROVE  snap'[o] = Visible(db)
    BY <1>3, <1>4, <2>1
  <2> QED BY <1>2, <2>1 DEF Fresh, Visible
<1>10. Agrees'
  BY <1>3 DEF Agrees, Quiet
<1>11. ASSUME NEW o \in Tasks, ~crossed'[o] PROVE Phase(o)'
  <2>1. CASE o = t
    BY <1>3, <2>1 DEF Phase
  <2>2. CASE o # t
    <3>1. pc'[o] \notin Passes
      BY <1>3, <1>4, <1>11, <2>2
    <3> QED BY <3>1 DEF Phase
  <2> QED BY <2>1, <2>2
<1> QED BY <1>6, <1>7, <1>8, <1>9, <1>10, <1>11 DEF ReloadInv

LEMMA FailKeeps ==
  ASSUME TypeOK, ReloadInv, NEW t \in Tasks, FetchFails(t)
  PROVE  ReloadInv'
<1>1. /\ pc[t] = "fetch" /\ hazy' = TRUE /\ UNCHANGED <<cache, snap, alive>>
      /\ pc' = [pc EXCEPT ![t] = "idle"]
      /\ crossed' = [o \in Tasks |-> crossed[o] \/ Reloading(o)]
  BY DEF FetchFails
<1>2. pc'[t] = "idle" /\ \A o \in Tasks \ {t} : pc'[o] = pc[o]
  BY <1>1 DEF TypeOK
<1>3. \A o \in Tasks : crossed'[o] <=> pc[o] \in Passes
  BY <1>1 DEF ReloadInv, Marked, Reloading
<1>4. \A o \in Tasks : crossed'[o] <=> pc'[o] \in Passes
  BY <1>1, <1>2, <1>3
<1>5. Blank'
  BY <1>1, <1>2 DEF ReloadInv, Blank
<1>6. Marked' /\ Sole' /\ Fresh' /\ Agrees'
  BY <1>1, <1>4 DEF Marked, Sole, Fresh, Agrees
<1>7. \A o \in Tasks : ~crossed'[o] => Phase(o)'
  BY <1>4 DEF Phase
<1> QED BY <1>5, <1>6, <1>7 DEF ReloadInv

LEMMA WriteKeeps ==
  ASSUME TypeOK, ReloadInv, NEW t \in Tasks, Write(t)
  PROVE  ReloadInv'
<1>1. /\ pc[t] = "idle" /\ UNCHANGED <<cache, snap, todo, alive, crossed, hazy>>
      /\ pc' = [pc EXCEPT ![t] = "fetch"]
  BY DEF Write
<1>2. pc'[t] = "fetch" /\ \A o \in Tasks \ {t} : pc'[o] = pc[o]
  BY <1>1 DEF TypeOK
<1>3. Blank' /\ Marked' /\ Sole'
  BY <1>1, <1>2 DEF ReloadInv, Blank, Marked, Sole
<1>4. Fresh' /\ Agrees'
  BY <1>2 DEF Fresh, Agrees, Quiet
<1>5. ASSUME NEW o \in Tasks, ~crossed'[o] PROVE Phase(o)'
  <2>1. CASE o = t
    BY <1>2, <2>1 DEF Phase
  <2>2. CASE o # t
    BY <1>1, <1>2, <1>5, <2>2 DEF ReloadInv, Phase
  <2> QED BY <2>1, <2>2
<1> QED BY <1>3, <1>4, <1>5 DEF ReloadInv

LEMMA StepReload == TypeOK /\ ReloadInv /\ [Next]_vars => ReloadInv'
<1> SUFFICES ASSUME TypeOK, ReloadInv, [Next]_vars PROVE ReloadInv'
  OBVIOUS
<1>1. ASSUME UNCHANGED <<db, cache, pc, snap, todo, alive, crossed, hazy>>
      PROVE  ReloadInv'
  <2>1. Blank' /\ Marked' /\ Sole' /\ Fresh' /\ Agrees'
    BY <1>1 DEF ReloadInv, Blank, Marked, Sole, Fresh, Agrees, Quiet, Visible
  <2>2. \A t \in Tasks : Phase(t)' <=> Phase(t)
    BY <1>1 DEF Phase, Present
  <2> QED BY <1>1, <2>1, <2>2 DEF ReloadInv
<1>2. ASSUME NEW g \in Gates, Look(g) \/ CheckQuota(g) PROVE ReloadInv'
  BY <1>1, <1>2 DEF Look, CheckQuota
<1>3. CASE Midnight
  BY <1>1, <1>3 DEF Midnight
<1>4. CASE UNCHANGED vars
  BY <1>1, <1>4 DEF vars
<1> QED BY <1>2, <1>3, <1>4, WriteKeeps, FetchKeeps, FailKeeps, ClearKeeps,
           FillKeeps, SurveyKeeps, PruneKeeps DEF Next

LEMMA InitReload == Init => ReloadInv
<1> SUFFICES ASSUME Init PROVE ReloadInv
  OBVIOUS
<1>1. \A t \in Tasks : pc[t] = "idle" /\ alive[t] = {} /\ crossed[t] = FALSE
  BY DEF Init
<1>2. cache = Visible(db)
  BY DEF Init
<1>3. Blank /\ Marked /\ Sole /\ Fresh /\ Agrees
  BY <1>1, <1>2 DEF Blank, Marked, Sole, Fresh, Agrees
<1>4. \A t \in Tasks : Phase(t)
  BY <1>1 DEF Phase
<1> QED BY <1>3, <1>4 DEF ReloadInv

\* A reload that nobody crosses drops the counters of exactly the users that
\* were not active when it fetched.
THEOREM PruneIsSafe == Spec => []PruneSafe
<1>1. ReloadInv => PruneSafe
  BY DEF ReloadInv, Phase, PruneSafe
<1> QED BY <1>1, InitType, StepType, InitReload, StepReload, PTL DEF Spec

\* With no administrator at work the cache shows what the database holds, unless
\* reloads overlapped or failed and none has run alone since.
THEOREM CacheAgrees == Spec => []Agrees
<1>1. ReloadInv => Agrees
  BY DEF ReloadInv
<1> QED BY <1>1, InitType, StepType, InitReload, StepReload, PTL DEF Spec
=============================================================================
