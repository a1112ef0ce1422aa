--------------------------- MODULE FailoverProofs ---------------------------
(***************************************************************************)
(* What Failover guarantees for every number of requests, upstreams,       *)
(* models, aliases, retries, fallbacks and administrator edits.            *)
(***************************************************************************)
EXTENDS Failover, SequenceTheorems, FiniteSetTheorems, TLAPS

\* A handler that has an upstream at hand has a current entry.
Looping == {"check", "await", "body", "stream", "exhausted"}
HasCurrent == \A r \in Slots : pc[r] \in Looping => queue[r] # <<>>

TypeInv == TypeOK /\ HasCurrent

LEMMA CurrentType ==
  ASSUME TypeOK, NEW r \in Slots, queue[r] # <<>>
  PROVE  /\ Current(r) \in Entries
         /\ CurrentUp(r) \in Upstreams
         /\ Current(r).fallback \in Routes \cup {NoRoute}
         /\ Tail(queue[r]) \in Seq(Entries)
         /\ Len(Tail(queue[r])) = Len(queue[r]) - 1
         /\ Len(queue[r]) \in Nat \ {0}
<1>1. queue[r] \in Seq(Entries)
  BY DEF TypeOK
<1>2. /\ Current(r) \in Entries
      /\ Tail(queue[r]) \in Seq(Entries)
      /\ Len(Tail(queue[r])) = Len(queue[r]) - 1
  BY <1>1, HeadTailProperties DEF Current
<1>3. CurrentUp(r) \in Upstreams /\ Current(r).fallback \in Routes \cup {NoRoute}
  BY <1>2 DEF CurrentUp, Up, Entries, Routes
<1>4. Len(queue[r]) \in Nat \ {0}
  BY <1>1, EmptySeq, LenProperties
<1> QED BY <1>2, <1>3, <1>4

LEMMA EntryType ==
  ASSUME TypeOK, NEW route \in Routes
  PROVE  Entry(route) \in Entries
BY DEF TypeOK, Entry, Settings, Entries

\* Recording usage keeps the counters natural numbers.
LEMMA ChargeType ==
  ASSUME TypeOK, NEW r \in Slots, queue[r] # <<>>, Charge(r)
  PROVE  used' \in [Upstreams -> Nat] /\ bill' \in [Slots -> Nat]
<1>1. used \in [Upstreams -> Nat] /\ bill \in [Slots -> Nat]
  BY DEF TypeOK
<1> DEFINE u == CurrentUp(r)
<1>2. used' = [used EXCEPT ![u] = used[u] + 1]
  BY DEF Charge
<1>0. u \in Upstreams
  BY CurrentType
<1> HIDE DEF u
<1>3. used' \in [Upstreams -> Nat]
  BY <1>1, <1>2, <1>0
<1>4. bill' \in [Slots -> Nat]
  BY <1>1 DEF Charge
<1> QED BY <1>3, <1>4

LEMMA InitType == Init => TypeInv
BY FailoverAssumption, EmptySeq DEF Init, TypeInv, TypeOK, HasCurrent, Looping,
  PCs, Errors, Replies

LEMMA StepType == TypeInv /\ [Next]_vars => TypeInv'
<1> SUFFICES ASSUME TypeInv, [Next]_vars PROVE TypeInv'
    OBVIOUS
<1> USE FailoverAssumption DEF TypeInv, admin, request, books, loop, Goto
<1>1. ASSUME NEW r \in Slots, Refuse(r) PROVE TypeInv'
  <2>1. TypeOK'
    BY <1>1 DEF Refuse, Replies, PCs, TypeOK
  <2>2. HasCurrent'
    BY <1>1 DEF Refuse, TypeOK, HasCurrent, Looping
  <2> QED BY <2>1, <2>2
<1>2. ASSUME NEW r \in Slots, Admit(r) PROVE TypeInv'
  <2>1. TypeOK'
    BY <1>2 DEF Admit, TypeOK, PCs
  <2>2. HasCurrent'
    BY <1>2 DEF Admit, TypeOK, HasCurrent, Looping
  <2> QED BY <2>1, <2>2
<1>3. ASSUME NEW r \in Slots, ConsiderAlias(r) PROVE TypeInv'
  <2>1. Head(alias[r]) \in Routes /\ Tail(alias[r]) \in Seq(Routes)
    BY <1>3, HeadTailProperties DEF ConsiderAlias, TypeOK
  <2>2. Append(queue[r], Entry(Head(alias[r]))) \in Seq(Entries)
    BY <2>1, EntryType, AppendProperties DEF TypeOK
  <2>3. TypeOK'
    BY <1>3, <2>1, <2>2 DEF ConsiderAlias, TypeOK
  <2>4. HasCurrent'
    BY <1>3 DEF ConsiderAlias, TypeOK, HasCurrent, Looping
  <2> QED BY <2>3, <2>4
<1>4. ASSUME NEW r \in Slots, ConsiderTenant(r) PROVE TypeInv'
  <2> DEFINE u == Head(tenant[r])
  <2>1. u \in Upstreams /\ Tail(tenant[r]) \in Seq(Upstreams)
    BY <1>4, HeadTailProperties DEF ConsiderTenant, TypeOK
  <2>2. Resolve[u] # NoModel => Append(queue[r], Entry(<<u, Resolve[u]>>)) \in Seq(Entries)
    <3> SUFFICES ASSUME Resolve[u] # NoModel
                 PROVE  Append(queue[r], Entry(<<u, Resolve[u]>>)) \in Seq(Entries)
      OBVIOUS
    <3>1. <<u, Resolve[u]>> \in Routes
      BY <2>1 DEF Routes
    <3>2. Entry(<<u, Resolve[u]>>) \in Entries
      BY <3>1, EntryType
    <3> QED BY <3>2, AppendProperties DEF TypeOK
  <2>3. TypeOK'
    BY <1>4, <2>1, <2>2 DEF ConsiderTenant, TypeOK
  <2>4. HasCurrent'
    BY <1>4 DEF ConsiderTenant, TypeOK, HasCurrent, Looping
  <2> QED BY <2>3, <2>4
<1>23. ASSUME NEW r \in Slots, ListTenant(r) PROVE TypeInv'
  <2>1. TypeOK'
    BY <1>23 DEF ListTenant, PCs, TypeOK
  <2>2. HasCurrent'
    BY <1>23 DEF ListTenant, TypeOK, HasCurrent, Looping
  <2> QED BY <2>1, <2>2
<1>5. ASSUME NEW r \in Slots, StartLoop(r) PROVE TypeInv'
  <2>1. TypeOK'
    BY <1>5 DEF StartLoop, Replies, PCs, TypeOK
  <2>2. HasCurrent'
    BY <1>5 DEF StartLoop, TypeOK, HasCurrent, Looping
  <2> QED BY <2>1, <2>2
<1>6. ASSUME NEW r \in Slots, LimitRefuses(r) PROVE TypeInv'
  <2>1. TypeOK'
    BY <1>6 DEF LimitRefuses, Errors, PCs, TypeOK
  <2>2. HasCurrent'
    BY <1>6 DEF LimitRefuses, TypeOK, HasCurrent, Looping
  <2> QED BY <2>1, <2>2
<1>7. ASSUME NEW r \in Slots, Send(r) PROVE TypeInv'
  <2>1. TypeOK'
    BY <1>7 DEF Send, PCs, TypeOK
  <2>2. HasCurrent'
    BY <1>7 DEF Send, TypeOK, HasCurrent, Looping
  <2> QED BY <2>1, <2>2
<1>8. ASSUME NEW r \in Slots, UpstreamFails(r) PROVE TypeInv'
  <2>1. TypeOK'
    BY <1>8 DEF UpstreamFails, AttemptFails, Errors, PCs, TypeOK
  <2>2. HasCurrent'
    BY <1>8 DEF UpstreamFails, AttemptFails, TypeOK, HasCurrent, Looping
  <2> QED BY <2>1, <2>2
<1>9. ASSUME NEW r \in Slots, AnswerStream(r) PROVE TypeInv'
  <2>1. TypeOK'
    BY <1>9 DEF AnswerStream, Replies, PCs, TypeOK
  <2>2. HasCurrent'
    BY <1>9 DEF AnswerStream, TypeOK, HasCurrent, Looping
  <2> QED BY <2>1, <2>2
<1>10. ASSUME NEW r \in Slots, ReadBody(r) PROVE TypeInv'
  <2>1. TypeOK'
    BY <1>10 DEF ReadBody, PCs, TypeOK
  <2>2. HasCurrent'
    BY <1>10 DEF ReadBody, TypeOK, HasCurrent, Looping
  <2> QED BY <2>1, <2>2
<1>11. ASSUME NEW r \in Slots, BodyFails(r) PROVE TypeInv'
  <2>1. TypeOK'
    BY <1>11 DEF BodyFails, AttemptFails, Errors, PCs, TypeOK
  <2>2. HasCurrent'
    BY <1>11 DEF BodyFails, AttemptFails, TypeOK, HasCurrent, Looping
  <2> QED BY <2>1, <2>2
<1>12. ASSUME NEW r \in Slots, AnswerWhole(r) PROVE TypeInv'
  <2>1. TypeOK'
    <3>1. used' \in [Upstreams -> Nat] /\ bill' \in [Slots -> Nat]
      BY <1>12, ChargeType DEF AnswerWhole, TypeOK, HasCurrent, Looping
    <3> QED BY <1>12, <3>1 DEF AnswerWhole, Replies, PCs, TypeOK
  <2>2. HasCurrent'
    BY <1>12 DEF AnswerWhole, TypeOK, HasCurrent, Looping
  <2> QED BY <2>1, <2>2
<1>13. ASSUME NEW r \in Slots, StreamEnds(r) PROVE TypeInv'
  <2>1. TypeOK'
    <3>1. used' \in [Upstreams -> Nat] /\ bill' \in [Slots -> Nat]
      BY <1>13, ChargeType DEF StreamEnds, TypeOK, HasCurrent, Looping
    <3> QED BY <1>13, <3>1 DEF StreamEnds, PCs, TypeOK
  <2>2. HasCurrent'
    BY <1>13 DEF StreamEnds, TypeOK, HasCurrent, Looping
  <2> QED BY <2>1, <2>2
<1>14. ASSUME NEW r \in Slots, NextUpstream(r) PROVE TypeInv'
  <2> DEFINE f == Current(r).fallback
  <2> DEFINE rest == IF FallbackUsable(r, f, tried[r] \cup {CurrentUp(r)})
                     THEN <<Entry(f)>> \o Tail(queue[r]) ELSE Tail(queue[r])
  <2>1. queue[r] # <<>>
    BY <1>14 DEF NextUpstream, HasCurrent, Looping
  <2>2. CurrentUp(r) \in Upstreams /\ Tail(queue[r]) \in Seq(Entries)
        /\ f \in Routes \cup {NoRoute}
    BY <2>1, CurrentType
  <2>3. rest \in Seq(Entries)
    <3>1. CASE FallbackUsable(r, f, tried[r] \cup {CurrentUp(r)})
      <4>1. Entry(f) \in Entries
        BY <3>1, <2>2, EntryType DEF FallbackUsable
      <4>2. <<Entry(f)>> \in Seq(Entries)
        BY <4>1
      <4> QED BY <4>2, <2>2, <3>1, ConcatProperties
    <3>2. CASE ~FallbackUsable(r, f, tried[r] \cup {CurrentUp(r)})
      BY <3>2, <2>2
    <3> QED BY <3>1, <3>2
  <2>4. /\ queue' = [queue EXCEPT ![r] = rest]
        /\ tried' = [tried EXCEPT ![r] = tried[r] \cup {CurrentUp(r)}]
        /\ pc' = [pc EXCEPT ![r] = IF rest = <<>> THEN "giveup" ELSE "check"]
        /\ idx' = [idx EXCEPT ![r] = idx[r] + 1]
        /\ attempt' = [attempt EXCEPT ![r] = 0]
        /\ UNCHANGED <<live, vis, used, edits, stream, alias, tenant, snap, err,
                       reply, book, bill, dead>>
    BY <1>14 DEF NextUpstream
  <2> HIDE DEF rest, f
  <2>5. TypeOK'
    <3>1. queue' \in [Slots -> Seq(Entries)] /\ tried' \in [Slots -> SUBSET Upstreams]
      BY <2>2, <2>3, <2>4 DEF TypeOK
    <3>2. pc' \in [Slots -> PCs]
      BY <2>4 DEF TypeOK, PCs
    <3>3. idx' \in [Slots -> Nat] /\ attempt' \in [Slots -> Nat]
      BY <2>4 DEF TypeOK
    <3>4. /\ live' \in SUBSET Upstreams /\ vis' \in [Routes -> Settings]
          /\ used' \in [Upstreams -> Nat] /\ edits' \in 0..MaxEdits
          /\ stream' \in [Slots -> BOOLEAN] /\ alias' \in [Slots -> Seq(Routes)]
          /\ tenant' \in [Slots -> Seq(Upstreams)]
          /\ snap' \in [Slots -> SUBSET Upstreams]
      BY ONLY <2>4, TypeInv DEF TypeInv, TypeOK
    <3>5. /\ err' \in [Slots -> Errors] /\ reply' \in [Slots -> Replies]
          /\ book' \in [Slots -> {"none", "open", "success", "failed"}]
          /\ bill' \in [Slots -> Nat] /\ dead' \in [Slots -> SUBSET Upstreams]
      BY ONLY <2>4, TypeInv DEF TypeInv, TypeOK
    <3> QED BY ONLY <3>1, <3>2, <3>3, <3>4, <3>5 DEF TypeOK
  <2>6. HasCurrent'
    BY <2>3, <2>4 DEF TypeOK, HasCurrent, Looping
  <2> QED BY <2>5, <2>6
<1>15. ASSUME NEW r \in Slots, GiveUp(r) PROVE TypeInv'
  <2>1. ErrorReply(r) \in Replies
    BY <1>15 DEF ErrorReply, TypeOK, Errors, Replies
  <2>2. TypeOK'
    BY <1>15, <2>1 DEF GiveUp, TypeOK, PCs
  <2>3. HasCurrent'
    BY <1>15 DEF GiveUp, TypeOK, HasCurrent, Looping
  <2> QED BY <2>2, <2>3
<1>16. ASSUME NEW r \in Slots, Disconnect(r) PROVE TypeInv'
  <2>1. TypeOK'
    BY <1>16 DEF Disconnect, Replies, PCs, TypeOK
  <2>2. HasCurrent'
    BY <1>16 DEF Disconnect, TypeOK, HasCurrent, Looping
  <2> QED BY <2>1, <2>2
<1>17. ASSUME NEW r \in Slots, Recycle(r) PROVE TypeInv'
  <2>1. TypeOK'
    BY <1>17 DEF Recycle, Replies, Errors, PCs, TypeOK
  <2>2. HasCurrent'
    BY <1>17 DEF Recycle, TypeOK, HasCurrent, Looping
  <2> QED BY <2>1, <2>2
<1>18. ASSUME NEW u \in Upstreams, SetUpstream(u) PROVE TypeInv'
  <2>1. TypeOK'
    BY <1>18 DEF SetUpstream, Edit, PCs, TypeOK
  <2>2. HasCurrent'
    BY <1>18 DEF SetUpstream, Edit, TypeOK, HasCurrent, Looping
  <2> QED BY <2>1, <2>2
<1>19. ASSUME NEW u \in Upstreams, ResetWindow(u) PROVE TypeInv'
  <2>1. TypeOK'
    BY <1>19 DEF ResetWindow, PCs, TypeOK
  <2>2. HasCurrent'
    BY <1>19 DEF ResetWindow, TypeOK, HasCurrent, Looping
  <2> QED BY <2>1, <2>2
<1>20. ASSUME NEW route \in Routes, SetVisibility(route) PROVE TypeInv'
  <2>1. TypeOK'
    BY <1>20 DEF SetVisibility, Edit, PCs, TypeOK
  <2>2. HasCurrent'
    BY <1>20 DEF SetVisibility, Edit, TypeOK, HasCurrent, Looping
  <2> QED BY <2>1, <2>2
<1>21. ASSUME NewDay PROVE TypeInv'
  <2>1. TypeOK'
    BY <1>21 DEF NewDay, PCs, TypeOK
  <2>2. HasCurrent'
    BY <1>21 DEF NewDay, TypeOK, HasCurrent, Looping
  <2> QED BY <2>1, <2>2
<1>22. ASSUME UNCHANGED vars PROVE TypeInv'
  BY <1>22 DEF vars, TypeOK, HasCurrent, Looping
<1> QED
  BY <1>1, <1>2, <1>3, <1>4, <1>5, <1>6, <1>7, <1>8, <1>9, <1>10, <1>11, <1>12,
     <1>13, <1>14, <1>15, <1>16, <1>17, <1>18, <1>19, <1>20, <1>21, <1>22, <1>23
     DEF Next, Handler, Client, Admin

LEMMA TypeInvariant == Spec => []TypeInv
BY InitType, StepType, PTL DEF Spec

\* TYPE CORRECTNESS.  Every variable of the handlers, the caches and the upstream
\* windows keeps its type, and a handler in its loop has a current upstream:
\* proxy_handler never indexes past available_upstreams.
THEOREM TypeCorrect == Spec => [](TypeOK /\ HasCurrent)
BY TypeInvariant, PTL DEF TypeInv

-----------------------------------------------------------------------------
(* The loop over the candidates ends. *)

LEMMA SeenSubset ==
  ASSUME TypeOK, NEW r \in Slots
  PROVE  /\ Seen(r) \subseteq Upstreams
         /\ IsFiniteSet(Upstreams \ Seen(r))
         /\ Cardinality(Upstreams \ Seen(r)) \in Nat
         /\ Cardinality(Upstreams \ Seen(r)) <= Cardinality(Upstreams)
<1>1. Seen(r) \subseteq Upstreams
  BY CurrentType DEF Seen, TypeOK
<1>2. Upstreams \ Seen(r) \subseteq Upstreams
  OBVIOUS
<1> QED BY <1>1, <1>2, FS_Subset, FS_CardinalityType, FailoverAssumption

LEMMA NextUpstreamBurns ==
  ASSUME TypeInv, TypeInv', NEW r \in Slots, NextUpstream(r)
  PROVE  Fuel(r)' < Fuel(r)
<1> DEFINE f == Current(r).fallback
           now == tried[r] \cup {CurrentUp(r)}
           Left == Upstreams \ now
<1>1. queue[r] # <<>> /\ tried'[r] = now
  BY DEF NextUpstream, TypeInv, TypeOK, HasCurrent, Looping
<1>2. Seen(r) = now
  BY <1>1 DEF Seen
<1>3. /\ Tail(queue[r]) \in Seq(Entries)
      /\ Len(Tail(queue[r])) = Len(queue[r]) - 1
      /\ Len(queue[r]) \in Nat \ {0}
  BY <1>1, CurrentType DEF TypeInv
<1>4. IsFiniteSet(Left) /\ Cardinality(Left) \in Nat
  BY <1>2, SeenSubset DEF TypeInv
<1>5. CASE FallbackUsable(r, f, now)
  <2>1. f \in Routes /\ Up(f) \in Upstreams /\ Up(f) \notin now
    BY <1>5, FailoverAssumption DEF FallbackUsable, Routes, Up
  <2>2. Entry(f) \in Entries /\ Entry(f).route = f
    BY <2>1, EntryType DEF Entry, TypeInv
  <2>3. queue'[r] = <<Entry(f)>> \o Tail(queue[r])
    BY <1>5 DEF NextUpstream, TypeInv, TypeOK
  <2>4. Len(queue'[r]) = Len(queue[r]) /\ queue'[r] # <<>> /\ Head(queue'[r]) = Entry(f)
    <3> DEFINE e == Entry(f)
               q == queue[r]
    <3>1. e \in Entries /\ q \in Seq(Entries) /\ Tail(q) \in Seq(Entries)
          /\ Len(Tail(q)) = Len(q) - 1 /\ Len(q) \in Nat \ {0}
      BY <2>2, <1>3 DEF TypeInv, TypeOK
    <3> HIDE DEF e, q
    <3>2. <<e>> \in Seq(Entries) /\ Len(<<e>>) = 1 /\ <<e>>[1] = e
      BY <3>1
    <3>3. /\ Len(<<e>> \o Tail(q)) = Len(q)
          /\ (<<e>> \o Tail(q))[1] = e
      BY <3>1, <3>2, ConcatProperties
    <3>4. <<e>> \o Tail(q) # <<>> /\ Head(<<e>> \o Tail(q)) = e
      BY <3>1, <3>3
    <3> QED BY <2>3, <3>3, <3>4 DEF e, q
  <2>5. Seen(r)' = now \cup {Up(f)}
    BY <1>1, <2>2, <2>4 DEF Seen, CurrentUp, Current
  <2>6. (Upstreams \ Seen(r))' = Left \ {Up(f)} /\ Up(f) \in Left
    BY <2>1, <2>5
  <2>7. Cardinality(Left \ {Up(f)}) = Cardinality(Left) - 1
    BY <1>4, <2>6, FS_RemoveElement
  <2>8. Fuel(r) = Len(queue[r]) + Cardinality(Left)
    BY <1>2 DEF Fuel
  <2>9. Fuel(r)' = Len(queue'[r]) + Cardinality((Upstreams \ Seen(r))')
    BY DEF Fuel
  <2>10. Fuel(r)' = Len(queue[r]) + (Cardinality(Left) - 1)
    BY <2>4, <2>6, <2>7, <2>9
  <2> HIDE DEF Left
  <2> QED BY <1>3, <1>4, <2>8, <2>10
<1>6. CASE ~FallbackUsable(r, f, now)
  <2>1. queue'[r] = Tail(queue[r])
    BY <1>6 DEF NextUpstream, TypeInv, TypeOK
  <2>2. (Upstreams \ Seen(r))' \subseteq Left
    BY <1>1 DEF Seen
  <2>3. /\ Cardinality((Upstreams \ Seen(r))') <= Cardinality(Left)
        /\ Cardinality((Upstreams \ Seen(r))') \in Nat
    BY <2>2, <1>4, FS_Subset, FS_CardinalityType
  <2> QED BY <1>2, <1>3, <1>4, <2>1, <2>3 DEF Fuel
<1> QED BY <1>5, <1>6

\* No other step advances upstream_idx.
LEMMA OnlyNextUpstreamAdvances ==
  ASSUME TypeInv, Next, NEW r \in Slots, idx'[r] > idx[r]
  PROVE  NextUpstream(r)
<1> USE DEF TypeInv, TypeOK, admin, request, loop, books
<1>1. ASSUME NEW q \in Slots, Handler(q) PROVE NextUpstream(r)
  <2>1. CASE NextUpstream(q)
    <3>1. idx' = [idx EXCEPT ![q] = idx[q] + 1] /\ idx \in [Slots -> Nat]
      BY <2>1 DEF NextUpstream
    <3>2. CASE q = r
      BY <2>1, <3>2
    <3>3. CASE q # r
      BY <3>1, <3>3
    <3> QED BY <3>2, <3>3
  <2>2. CASE ~NextUpstream(q)
    <3>1. idx' = idx
      BY <1>1, <2>2 DEF Handler, ConsiderAlias, ListTenant, ConsiderTenant, StartLoop, LimitRefuses,
         Send, UpstreamFails, AttemptFails, AnswerStream, ReadBody, BodyFails,
         AnswerWhole, StreamEnds, GiveUp
    <3> QED BY <3>1
  <2> QED BY <2>1, <2>2
<1>2. ASSUME NEW q \in Slots, Client(q) PROVE FALSE
  <2>1. CASE Recycle(q)
    BY <2>1 DEF Recycle
  <2>2. CASE ~Recycle(q)
    BY <1>2, <2>2 DEF Client, Refuse, Admit, Disconnect
  <2> QED BY <2>1, <2>2
<1>3. ASSUME Admin PROVE FALSE
  BY <1>3 DEF Admin, SetUpstream, ResetWindow, SetVisibility, NewDay
<1> QED BY <1>1, <1>2, <1>3 DEF Next

\* TERMINATION ARGUMENT.  Each upstream the handlers give up on leaves strictly
\* less to do, although fallbacks are inserted while the list is walked.
THEOREM FuelBurnsSafe == Spec => FuelBurns
<1>1. ASSUME TypeInv, TypeInv', Next
      PROVE  \A r \in Slots : idx'[r] > idx[r] => Fuel(r)' < Fuel(r)
  BY <1>1, OnlyNextUpstreamAdvances, NextUpstreamBurns
<1>2. TypeInv /\ TypeInv' /\ [Next]_vars
        => [\A r \in Slots : idx'[r] > idx[r] => Fuel(r)' < Fuel(r)]_vars
  BY <1>1
<1> QED BY <1>2, TypeInvariant, PTL DEF Spec, FuelBurns

-----------------------------------------------------------------------------
(* The number of upstreams a request walks over is bounded. *)

Local(r) == <<alias[r], tenant[r], queue[r], idx[r], tried[r]>>
Work(r) == idx[r] + Len(alias[r]) + Len(tenant[r]) + Fuel(r)
Bound == MaxAlias + Len(TenantOrder) + Cardinality(Upstreams)

WorkInv ==
  \A r \in Slots :
    /\ Work(r) <= Bound
    /\ pc[r] = "new" => queue[r] = <<>> /\ idx[r] = 0

\* A sum of four lengths.
LEMMA FourNats ==
  ASSUME NEW a \in Nat, NEW b \in Nat, NEW c \in Nat, NEW d \in Nat
  PROVE  a + b + c + d \in Nat
OBVIOUS

LEMMA WorkType ==
  ASSUME TypeOK, NEW r \in Slots
  PROVE  /\ Len(alias[r]) \in Nat /\ Len(tenant[r]) \in Nat /\ Len(queue[r]) \in Nat
         /\ idx[r] \in Nat /\ Fuel(r) \in Nat /\ Work(r) \in Nat
<1>1. Len(alias[r]) \in Nat /\ Len(tenant[r]) \in Nat /\ Len(queue[r]) \in Nat
  BY LenProperties DEF TypeOK
<1>2. idx[r] \in Nat
  BY DEF TypeOK
<1>3. Cardinality(Upstreams \ Seen(r)) \in Nat
  BY SeenSubset
<1>4. Fuel(r) \in Nat
  BY <1>1, <1>3 DEF Fuel
<1>5. Work(r) \in Nat
  BY ONLY <1>1, <1>2, <1>4, FourNats DEF Work
<1> QED BY <1>1, <1>2, <1>4, <1>5

\* Sums over lengths and cardinalities, as bare arithmetic.
LEMMA SumSteps ==
  ASSUME NEW i \in Nat, NEW a \in Nat, NEW t \in Nat, NEW f \in Nat,
         NEW b \in Nat, NEW w \in Nat, NEW g \in Nat
  PROVE  /\ b + w = a + t - 1 /\ g <= f + 1 => i + b + w + g <= i + a + t + f
         /\ g < f => i + 1 + a + t + g <= i + a + t + f
OBVIOUS

LEMMA BoundType == Bound \in Nat /\ Cardinality(Upstreams) \in Nat /\ Len(TenantOrder) \in Nat
BY FailoverAssumption, LenProperties, FS_CardinalityType DEF Bound, MaxAlias

LEMMA OneMore ==
  ASSUME NEW p \in Nat, NEW q \in Nat, NEW c \in Nat, NEW d \in Nat,
         p <= q + 1, c <= d
  PROVE  p + c \in Nat /\ q + d \in Nat /\ p + c <= (q + d) + 1
OBVIOUS

\* A request's work depends only on its own part of the state.
LEMMA SameLocal ==
  ASSUME TypeOK, NEW r \in Slots, Local(r)' = Local(r)
  PROVE  Work(r)' = Work(r)
BY DEF Local, Work, Fuel, Seen, CurrentUp, Current

\* Appending a candidate uses up one that was still to be considered.
LEMMA AppendWork ==
  ASSUME TypeOK, TypeOK', NEW r \in Slots, NEW e \in Entries,
         queue'[r] = queue[r] \/ queue'[r] = Append(queue[r], e),
         tried'[r] = tried[r], idx'[r] = idx[r],
         Len(alias'[r]) + Len(tenant'[r]) = Len(alias[r]) + Len(tenant[r]) - 1
  PROVE  Work(r)' <= Work(r)
<1>1. queue[r] \in Seq(Entries)
  BY DEF TypeOK
<1>2. Seen(r) \subseteq Seen(r)'
  <2>1. CASE queue[r] = <<>>
    BY <2>1 DEF Seen
  <2>2. CASE queue[r] # <<>>
    <3>1. queue'[r] # <<>> /\ Head(queue'[r]) = Head(queue[r])
      BY <1>1, <2>2, HeadTailAppend, AppendProperties
    <3> QED BY <2>2, <3>1 DEF Seen, CurrentUp, Current
  <2> QED BY <2>1, <2>2
<1>3. Len(queue'[r]) <= Len(queue[r]) + 1
  BY <1>1, AppendProperties, LenProperties
<1>4. (Upstreams \ Seen(r))' \subseteq Upstreams \ Seen(r)
  BY <1>2
<1>5. Cardinality((Upstreams \ Seen(r))') <= Cardinality(Upstreams \ Seen(r))
  BY <1>4, SeenSubset, FS_Subset
<1>6. Cardinality((Upstreams \ Seen(r))') \in Nat /\ Cardinality(Upstreams \ Seen(r)) \in Nat
  BY <1>4, SeenSubset, FS_Subset, FS_CardinalityType
<1>7. /\ Fuel(r) = Len(queue[r]) + Cardinality(Upstreams \ Seen(r))
      /\ Fuel(r)' = Len(queue'[r]) + Cardinality((Upstreams \ Seen(r))')
  BY DEF Fuel
<1>8. /\ Len(alias[r]) \in Nat /\ Len(tenant[r]) \in Nat /\ Len(queue[r]) \in Nat
      /\ Len(alias'[r]) \in Nat /\ Len(tenant'[r]) \in Nat /\ Len(queue'[r]) \in Nat
      /\ idx[r] \in Nat
  BY LenProperties DEF TypeOK
<1>9. /\ Work(r) = idx[r] + Len(alias[r]) + Len(tenant[r]) + Fuel(r)
      /\ Work(r)' = idx'[r] + Len(alias'[r]) + Len(tenant'[r]) + Fuel(r)'
  BY DEF Work
<1>10. Fuel(r) \in Nat /\ Fuel(r)' \in Nat /\ Fuel(r)' <= Fuel(r) + 1
  <2>1. /\ Len(queue'[r]) + Cardinality((Upstreams \ Seen(r))') \in Nat
        /\ Len(queue[r]) + Cardinality(Upstreams \ Seen(r)) \in Nat
        /\ Len(queue'[r]) + Cardinality((Upstreams \ Seen(r))')
             <= (Len(queue[r]) + Cardinality(Upstreams \ Seen(r))) + 1
    BY <1>3, <1>5, <1>6, <1>8, OneMore
  <2> QED BY <1>7, <2>1
<1>11. Work(r)' = idx[r] + Len(alias'[r]) + Len(tenant'[r]) + Fuel(r)'
  BY <1>9
<1>12. idx[r] + Len(alias'[r]) + Len(tenant'[r]) + Fuel(r)'
         <= idx[r] + Len(alias[r]) + Len(tenant[r]) + Fuel(r)
  BY <1>8, <1>10, SumSteps
<1> QED BY <1>9, <1>11, <1>12

LEMMA OthersKeepLocal ==
  ASSUME TypeOK, NEW r \in Slots, NEW q \in Slots, q # r, Handler(q) \/ Client(q)
  PROVE  Local(r)' = Local(r) /\ pc'[r] = pc[r]
<1> USE DEF TypeOK, Local, Goto, admin, request, loop, books
<1>1. CASE ConsiderAlias(q) \/ ListTenant(q) \/ ConsiderTenant(q) \/ StartLoop(q)
  BY <1>1 DEF ConsiderAlias, ListTenant, ConsiderTenant, StartLoop
<1>2. CASE LimitRefuses(q) \/ Send(q) \/ UpstreamFails(q) \/ AnswerStream(q) \/ ReadBody(q)
  BY <1>2 DEF LimitRefuses, Send, UpstreamFails, AttemptFails, AnswerStream, ReadBody
<1>3. CASE BodyFails(q) \/ AnswerWhole(q) \/ StreamEnds(q)
  BY <1>3 DEF BodyFails, AttemptFails, AnswerWhole, StreamEnds
<1>4. CASE NextUpstream(q)
  BY <1>4 DEF NextUpstream
<1>5. CASE GiveUp(q) \/ Refuse(q) \/ Admit(q) \/ Disconnect(q) \/ Recycle(q)
  BY <1>5 DEF GiveUp, Refuse, Admit, Disconnect, Recycle
<1> QED BY <1>1, <1>2, <1>3, <1>4, <1>5 DEF Handler, Client

LEMMA WorkStep == TypeInv /\ TypeInv' /\ WorkInv /\ [Next]_vars => WorkInv'
<1> SUFFICES ASSUME TypeInv, TypeInv', WorkInv, [Next]_vars, NEW r \in Slots
             PROVE  /\ (Work(r) <= Bound)'
                    /\ (pc[r] = "new" => queue[r] = <<>> /\ idx[r] = 0)'
    BY DEF WorkInv
<1> DEFINE Goal == /\ (Work(r) <= Bound)'
                   /\ (pc[r] = "new" => queue[r] = <<>> /\ idx[r] = 0)'
<1>0. /\ TypeOK /\ TypeOK'
      /\ Work(r) <= Bound /\ Work(r) \in Nat /\ Bound \in Nat /\ Bound' = Bound
      /\ Work(r)' \in Nat
      /\ pc[r] = "new" => queue[r] = <<>> /\ idx[r] = 0
  <2>1. Work(r)' \in Nat
    <3>1. /\ Len(alias'[r]) \in Nat /\ Len(tenant'[r]) \in Nat /\ Len(queue'[r]) \in Nat
          /\ idx'[r] \in Nat
      BY LenProperties DEF TypeInv, TypeOK
    <3>2. (Upstreams \ Seen(r))' \subseteq Upstreams
      OBVIOUS
    <3>3. Cardinality((Upstreams \ Seen(r))') \in Nat
      BY <3>2, FS_Subset, FS_CardinalityType, FailoverAssumption
    <3>4. Fuel(r)' \in Nat
      BY <3>1, <3>3 DEF Fuel
    <3> QED BY ONLY <3>1, <3>4, FourNats DEF Work
  <2> QED BY <2>1, WorkType, BoundType DEF TypeInv, WorkInv, Bound
<1>1. ASSUME Local(r)' = Local(r), pc'[r] = "new" => pc[r] = "new" PROVE Goal
  <2>1. Work(r)' = Work(r) BY <1>0, <1>1, SameLocal
  <2> QED BY <1>0, <1>1, <2>1 DEF Local
<1>2. ASSUME NEW q \in Slots, q # r, Handler(q) \/ Client(q) PROVE Goal
  BY <1>0, <1>1, <1>2, OthersKeepLocal
<1>3. ASSUME Admin PROVE Goal
  <2>1. Local(r)' = Local(r) /\ pc' = pc
    BY <1>3 DEF Admin, SetUpstream, ResetWindow, SetVisibility, NewDay, Local,
                admin, request, loop, books
  <2> QED BY <1>1, <2>1
<1>4. CASE UNCHANGED vars
  BY <1>1, <1>4 DEF vars, Local
<1>5. CASE ConsiderAlias(r)
  <2> DEFINE e == Entry(Head(alias[r]))
  <2>1. /\ Len(alias'[r]) = Len(alias[r]) - 1
        /\ Head(alias[r]) \in Routes
    BY <1>5, HeadTailProperties DEF ConsiderAlias, TypeInv, TypeOK
  <2>2. e \in Entries
    BY <1>0, <2>1, EntryType
  <2>3. /\ queue'[r] = queue[r] \/ queue'[r] = Append(queue[r], e)
        /\ tried'[r] = tried[r] /\ idx'[r] = idx[r] /\ tenant'[r] = tenant[r]
        /\ pc'[r] # "new"
    BY <1>5 DEF ConsiderAlias, TypeInv, TypeOK
  <2> HIDE DEF e
  <2>5. Len(alias'[r]) + Len(tenant'[r]) = Len(alias[r]) + Len(tenant[r]) - 1
    BY <1>0, <2>1, <2>3, WorkType
  <2>4. Work(r)' <= Work(r)
    BY <1>0, <2>2, <2>3, <2>5, AppendWork
  <2> QED BY <1>0, <2>3, <2>4
<1>6. CASE ConsiderTenant(r)
  <2> DEFINE u == Head(tenant[r])
             e == Entry(<<u, Resolve[u]>>)
  <2>1. /\ Len(tenant'[r]) = Len(tenant[r]) - 1
        /\ u \in Upstreams
    BY <1>6, HeadTailProperties DEF ConsiderTenant, TypeInv, TypeOK
  <2>3. /\ queue'[r] = queue[r] \/ (queue'[r] = Append(queue[r], e) /\ Resolve[u] # NoModel)
        /\ tried'[r] = tried[r] /\ idx'[r] = idx[r] /\ alias'[r] = alias[r]
        /\ pc'[r] # "new"
    <3>1. queue' = IF u \in snap[r] /\ Speaks(r, u) /\ u \notin Listed(r) /\ Resolve[u] # NoModel
                   THEN [queue EXCEPT ![r] = Append(queue[r], e)] ELSE queue
      BY <1>6 DEF ConsiderTenant
    <3>2. queue'[r] = queue[r] \/ (queue'[r] = Append(queue[r], e) /\ Resolve[u] # NoModel)
      <4>1. queue \in [Slots -> Seq(Entries)]
        BY DEF TypeInv, TypeOK
      <4> HIDE DEF e, u
      <4>2. CASE u \in snap[r] /\ Speaks(r, u) /\ u \notin Listed(r) /\ Resolve[u] # NoModel
        <5>1. queue' = [queue EXCEPT ![r] = Append(queue[r], e)]
          BY <3>1, <4>2
        <5> QED BY <4>1, <4>2, <5>1
      <4>3. CASE ~(u \in snap[r] /\ Speaks(r, u) /\ u \notin Listed(r) /\ Resolve[u] # NoModel)
        BY <3>1, <4>3
      <4> QED BY <4>2, <4>3
    <3>3. /\ tried' = tried /\ idx' = idx /\ alias' = alias /\ pc' = pc /\ pc[r] = "tenant"
      BY <1>6 DEF ConsiderTenant
    <3> QED BY <3>2, <3>3
  <2>4. CASE Resolve[u] # NoModel
    <3>1. <<u, Resolve[u]>> \in Routes
      BY <2>1, <2>4, FailoverAssumption DEF Routes
    <3>2. e \in Entries
      BY <1>0, <3>1, EntryType
    <3> HIDE DEF e
    <3>4. Len(alias'[r]) + Len(tenant'[r]) = Len(alias[r]) + Len(tenant[r]) - 1
      BY <1>0, <2>1, <2>3, WorkType
    <3>3. Work(r)' <= Work(r)
      BY <1>0, <2>3, <3>2, <3>4, AppendWork
    <3> QED BY <1>0, <2>3, <3>3
  <2>5. CASE Resolve[u] = NoModel
    <3>1. Fuel(r)' = Fuel(r)
      BY <2>3, <2>5 DEF Fuel, Seen, CurrentUp, Current
    <3>2. /\ Work(r) = idx[r] + Len(alias[r]) + Len(tenant[r]) + Fuel(r)
          /\ Work(r)' = idx[r] + Len(alias[r]) + (Len(tenant[r]) - 1) + Fuel(r)
      BY <2>1, <2>3, <3>1 DEF Work
    <3>3. Len(tenant'[r]) \in Nat /\ Len(tenant[r]) \in Nat /\ Len(alias[r]) \in Nat
          /\ idx[r] \in Nat /\ Fuel(r) \in Nat /\ Fuel(r) <= Fuel(r) + 1
      <4>1. Len(tenant'[r]) \in Nat
        BY LenProperties DEF TypeInv, TypeOK
      <4> QED BY <1>0, <4>1, WorkType
    <3>4. idx[r] + Len(alias[r]) + Len(tenant'[r]) + Fuel(r)
            <= idx[r] + Len(alias[r]) + Len(tenant[r]) + Fuel(r)
      BY <2>1, <3>3, SumSteps
    <3>5. Work(r)' <= Work(r)
      BY <2>1, <3>2, <3>4
    <3> QED BY <1>0, <2>3, <3>5
  <2> QED BY <2>4, <2>5
<1>7. CASE NextUpstream(r)
  <2>1. Fuel(r)' < Fuel(r)
    BY <1>7, NextUpstreamBurns
  <2>2. idx'[r] = idx[r] + 1 /\ alias' = alias /\ tenant' = tenant /\ pc'[r] # "new"
    BY <1>7 DEF NextUpstream, TypeInv, TypeOK, request, Goto
  <2>3. Fuel(r)' \in Nat
    <3>1. Len(queue'[r]) \in Nat
      BY LenProperties DEF TypeInv, TypeOK
    <3>2. Cardinality((Upstreams \ Seen(r))') \in Nat
      <4>1. (Upstreams \ Seen(r))' \subseteq Upstreams
        OBVIOUS
      <4> QED BY <4>1, FS_Subset, FS_CardinalityType, FailoverAssumption
    <3> QED BY <3>1, <3>2 DEF Fuel
  <2>4. /\ Work(r) = idx[r] + Len(alias[r]) + Len(tenant[r]) + Fuel(r)
        /\ Work(r)' = idx[r] + 1 + Len(alias[r]) + Len(tenant[r]) + Fuel(r)'
    BY <2>2 DEF Work
  <2>6. Len(tenant[r]) \in Nat /\ Len(alias[r]) \in Nat /\ idx[r] \in Nat /\ Fuel(r) \in Nat
    BY <1>0, WorkType
  <2>7. idx[r] + 1 + Len(alias[r]) + Len(tenant[r]) + Fuel(r)'
          <= idx[r] + Len(alias[r]) + Len(tenant[r]) + Fuel(r)
    BY <2>1, <2>3, <2>6, SumSteps
  <2>5. Work(r)' <= Work(r)
    BY <2>4, <2>7
  <2> QED BY <1>0, <2>2, <2>5
<1>8. CASE Admit(r)
  <2>1. /\ queue'[r] = <<>> /\ idx'[r] = 0
        /\ alias'[r] \in AliasChoices /\ tenant'[r] = TenantOrder
        /\ pc'[r] # "new"
    BY <1>0, <1>8 DEF Admit, TypeInv, TypeOK, Goto, loop
  <2>2. Len(alias'[r]) \in Nat /\ Len(alias'[r]) <= 2
    BY <2>1, FailoverAssumption, LenProperties DEF MaxAlias
  <2>3. /\ Cardinality((Upstreams \ Seen(r))') \in Nat
        /\ Cardinality((Upstreams \ Seen(r))') <= Cardinality(Upstreams)
    <3>1. (Upstreams \ Seen(r))' \subseteq Upstreams
      OBVIOUS
    <3> QED BY <3>1, FS_Subset, FS_CardinalityType, FailoverAssumption
  <2>4. Work(r)' = Len(alias'[r]) + Len(TenantOrder) + Cardinality((Upstreams \ Seen(r))')
    BY <2>1, <2>2, <2>3, BoundType, EmptySeq DEF Work, Fuel
  <2> QED BY <1>0, <2>1, <2>2, <2>3, <2>4, BoundType DEF Bound, MaxAlias
<1>9. CASE Recycle(r)
  <2>1. /\ queue'[r] = <<>> /\ idx'[r] = 0 /\ alias'[r] = <<>> /\ tenant'[r] = <<>>
    BY ONLY <1>9, TypeInv DEF Recycle, TypeInv, TypeOK
  <2>3. /\ Cardinality((Upstreams \ Seen(r))') \in Nat
        /\ Cardinality((Upstreams \ Seen(r))') <= Cardinality(Upstreams)
    <3>1. (Upstreams \ Seen(r))' \subseteq Upstreams
      OBVIOUS
    <3> QED BY <3>1, FS_Subset, FS_CardinalityType, FailoverAssumption
  <2>4. Work(r)' = Cardinality((Upstreams \ Seen(r))')
    BY <2>1, <2>3, EmptySeq DEF Work, Fuel
  <2> QED BY <1>0, <2>1, <2>3, <2>4, BoundType DEF Bound, MaxAlias
<1>10. CASE ListTenant(r) \/ StartLoop(r) \/ LimitRefuses(r) \/ Send(r) \/ UpstreamFails(r)
            \/ AnswerStream(r) \/ ReadBody(r) \/ BodyFails(r)
  <2>1. Local(r)' = Local(r) /\ pc'[r] # "new"
    BY <1>10 DEF ListTenant, StartLoop, LimitRefuses, Send, UpstreamFails, AttemptFails,
       AnswerStream, ReadBody, BodyFails, Local, TypeInv, TypeOK, Goto, request, loop
  <2> QED BY <1>1, <2>1
<1>11. CASE AnswerWhole(r) \/ StreamEnds(r) \/ GiveUp(r) \/ Refuse(r) \/ Disconnect(r)
  <2>1. Local(r)' = Local(r) /\ pc'[r] # "new"
    BY <1>11 DEF AnswerWhole, StreamEnds, GiveUp, Refuse, Disconnect,
       Local, TypeInv, TypeOK, Goto, request, loop
  <2> QED BY <1>1, <2>1
<1>12. ASSUME Handler(r) \/ Client(r) PROVE Goal
  BY <1>5, <1>6, <1>7, <1>8, <1>9, <1>10, <1>11, <1>12 DEF Handler, Client
<1> QED BY <1>2, <1>3, <1>4, <1>12 DEF Next

\* BOUNDED WORK.  Whatever retries and fallbacks are configured, also ones that
\* name each other, a request gives up on at most as many candidates as the alias
\* and the tenant list, plus one per upstream.
THEOREM VisitBoundSafe == Spec => []VisitBound
<1>1. Init => WorkInv
  <2> SUFFICES ASSUME Init, NEW r \in Slots
               PROVE  Work(r) <= Bound /\ queue[r] = <<>> /\ idx[r] = 0
      BY DEF WorkInv
  <2>1. /\ queue[r] = <<>> /\ idx[r] = 0 /\ alias[r] = <<>> /\ tenant[r] = <<>>
    BY DEF Init
  <2>2. TypeOK
    BY InitType DEF TypeInv
  <2>3. Cardinality(Upstreams \ Seen(r)) \in Nat
        /\ Cardinality(Upstreams \ Seen(r)) <= Cardinality(Upstreams)
    BY <2>2, SeenSubset
  <2>4. Work(r) = Cardinality(Upstreams \ Seen(r))
    BY <2>1, <2>3, EmptySeq DEF Work, Fuel
  <2> QED BY <2>1, <2>3, <2>4, BoundType DEF Bound, MaxAlias
<1>2. TypeInv /\ WorkInv => VisitBound
  <2> SUFFICES ASSUME TypeInv, WorkInv, NEW r \in Slots
               PROVE  idx[r] + Fuel(r) <= Bound
      BY DEF VisitBound, Bound
  <2>1. Work(r) <= Bound /\ Work(r) = idx[r] + Len(alias[r]) + Len(tenant[r]) + Fuel(r)
    BY DEF WorkInv, Work
  <2>2. /\ Len(alias[r]) \in Nat /\ Len(tenant[r]) \in Nat
        /\ idx[r] \in Nat /\ Fuel(r) \in Nat /\ Bound \in Nat
    BY WorkType, BoundType DEF TypeInv
  <2> QED BY <2>1, <2>2
<1> QED BY <1>1, <1>2, WorkStep, TypeInvariant, PTL DEF Spec


-----------------------------------------------------------------------------
(* The overshoot of an upstream's daily limit is bounded. *)

Flight == {"await", "body", "stream"}

\* OvershootInv for one upstream.
Over(u) ==
  Limit[u] > 0 /\ used[u] >= Limit[u] =>
    used[u] + Cardinality(Using(u)) <= Limit[u] + Cardinality(Slots) - 1

LEMMA UsingType ==
  ASSUME NEW u \in Upstreams
  PROVE  /\ Using(u) \subseteq Slots /\ IsFiniteSet(Using(u))
         /\ Cardinality(Using(u)) \in Nat /\ Cardinality(Slots) \in Nat
         /\ Cardinality(Using(u)) <= Cardinality(Slots)
<1>1. Using(u) \subseteq Slots
  BY DEF Using
<1> QED BY <1>1, FS_Subset, FS_CardinalityType, FailoverAssumption

\* A request that was not sent just now is in flight only where it was before.
LEMMA FlightShrinks ==
  ASSUME TypeInv, Next, \A r \in Slots : ~Send(r), NEW r \in Slots, pc'[r] \in Flight
  PROVE  pc[r] \in Flight /\ queue'[r] = queue[r]
<1> USE DEF Flight, TypeInv, TypeOK, Goto, loop, request, admin, books
<1>1. ASSUME NEW q \in Slots, Handler(q) \/ Client(q)
      PROVE  pc[r] \in Flight /\ queue'[r] = queue[r]
  <2>1. CASE q # r
    <3>1. pc'[r] = pc[r] /\ queue'[r] = queue[r]
      BY <1>1, <2>1, OthersKeepLocal DEF Local
    <3> QED BY <3>1
  <2>2. CASE q = r
    <3>1. ~ConsiderAlias(r) /\ ~ListTenant(r) /\ ~ConsiderTenant(r) /\ ~StartLoop(r) /\ ~LimitRefuses(r)
      BY DEF ConsiderAlias, ListTenant, ConsiderTenant, StartLoop, LimitRefuses
    <3>2. ~UpstreamFails(r) /\ ~BodyFails(r) /\ ~AnswerWhole(r) /\ ~StreamEnds(r) /\ ~GiveUp(r)
      BY DEF UpstreamFails, AttemptFails, BodyFails, AnswerWhole, StreamEnds, GiveUp
    <3>3. ~NextUpstream(r)
      BY DEF NextUpstream
    <3>4. ~Client(r)
      BY DEF Client, Refuse, Admit, Disconnect, Recycle
    <3>5. AnswerStream(r) \/ ReadBody(r)
      BY <1>1, <2>2, <3>1, <3>2, <3>3, <3>4 DEF Handler
    <3> QED BY <3>5 DEF AnswerStream, ReadBody
  <2> QED BY <2>1, <2>2
<1>2. ASSUME Admin PROVE pc[r] \in Flight /\ queue'[r] = queue[r]
  BY <1>2 DEF Admin, SetUpstream, ResetWindow, SetVisibility, NewDay
<1> QED BY <1>1, <1>2 DEF Next

LEMMA UsingShrinks ==
  ASSUME TypeInv, Next, \A r \in Slots : ~Send(r), NEW u \in Upstreams
  PROVE  Using(u)' \subseteq Using(u)
BY FlightShrinks DEF Using, Flight, CurrentUp, Current

\* A step by which u's count does not grow, and nobody comes to use u.
LEMMA OverKept ==
  ASSUME NEW u \in Upstreams, TypeOK, TypeOK', Over(u),
         Using(u)' \subseteq Using(u), used'[u] = used[u] \/ used'[u] = 0
  PROVE  Over(u)'
<1>1. Cardinality(Using(u)') <= Cardinality(Using(u)) /\ Cardinality(Using(u)') \in Nat
  BY UsingType, FS_Subset, FS_CardinalityType
<1>2. /\ used[u] \in Nat /\ used'[u] \in Nat /\ Limit[u] \in Nat
      /\ Cardinality(Using(u)) \in Nat /\ Cardinality(Slots) \in Nat
  BY UsingType, FailoverAssumption DEF TypeOK
<1>3. CASE used'[u] = used[u]
  <2> DEFINE c == Cardinality(Using(u))
             d == Cardinality(Using(u)')
             z == Cardinality(Slots)
  <2>1. c \in Nat /\ d \in Nat /\ z \in Nat /\ d <= c
    BY <1>1, <1>2
  <2>2. Limit[u] > 0 /\ used[u] >= Limit[u] => used[u] + c <= Limit[u] + z - 1
    BY DEF Over
  <2> HIDE DEF c, d, z
  <2>3. Limit[u] > 0 /\ used'[u] >= Limit[u] => used'[u] + d <= Limit[u] + z - 1
    BY <1>2, <1>3, <2>1, <2>2
  <2> QED BY <2>3 DEF Over, d, z
<1>4. CASE used'[u] = 0
  BY <1>2, <1>4 DEF Over
<1> QED BY <1>3, <1>4

\* The step that charges r's answer: r leaves, and u counts one more.
LEMMA OverCharged ==
  ASSUME NEW u \in Upstreams, TypeOK, TypeOK', Over(u), NEW r \in Using(u),
         Using(u)' \subseteq Using(u) \ {r}, used'[u] = used[u] + 1
  PROVE  Over(u)'
<1>1. /\ IsFiniteSet(Using(u) \ {r})
      /\ Cardinality(Using(u) \ {r}) = Cardinality(Using(u)) - 1
  BY UsingType, FS_RemoveElement
<1>2. /\ Cardinality(Using(u)') <= Cardinality(Using(u) \ {r})
      /\ Cardinality(Using(u)') \in Nat
  BY <1>1, FS_Subset, FS_CardinalityType
<1>3. /\ used[u] \in Nat /\ Limit[u] \in Nat
      /\ Cardinality(Using(u)) \in Nat /\ Cardinality(Slots) \in Nat
      /\ Cardinality(Using(u)) <= Cardinality(Slots)
  BY UsingType, FailoverAssumption DEF TypeOK
<1> DEFINE c == Cardinality(Using(u))
           d == Cardinality(Using(u)')
           z == Cardinality(Slots)
<1>4. c \in Nat /\ d \in Nat /\ z \in Nat /\ d <= c - 1 /\ c <= z
  BY <1>1, <1>2, <1>3
<1>5. Limit[u] > 0 /\ used[u] >= Limit[u] => used[u] + c <= Limit[u] + z - 1
  BY DEF Over
<1> HIDE DEF c, d, z
<1>6. Limit[u] > 0 /\ used'[u] >= Limit[u] => used'[u] + d <= Limit[u] + z - 1
  BY <1>3, <1>4, <1>5
<1> QED BY <1>6 DEF Over, d, z

LEMMA OvershootStep == TypeInv /\ TypeInv' /\ OvershootInv /\ [Next]_vars => OvershootInv'
<1> SUFFICES ASSUME TypeInv, TypeInv', OvershootInv, [Next]_vars, NEW u \in Upstreams
             PROVE  Over(u)'
    BY DEF OvershootInv, Over
<1>0. TypeOK /\ TypeOK' /\ Over(u)
  BY DEF TypeInv, OvershootInv, Over
<1>1. CASE UNCHANGED vars
  <2>1. Using(u)' \subseteq Using(u) /\ used'[u] = used[u]
    BY <1>1 DEF vars, Using, CurrentUp, Current
  <2> QED BY <1>0, <2>1, OverKept
<1>2. ASSUME NEW r \in Slots, Send(r) PROVE Over(u)'
  <2>1. used' = used /\ queue' = queue /\ pc' = [pc EXCEPT ![r] = "await"]
    BY <1>2 DEF Send, Goto, loop
  <2>2. CASE CurrentUp(r) = u
    <3>1. ~(Limit[u] > 0 /\ used'[u] >= Limit[u])
      BY <1>2, <2>1, <2>2 DEF Send, AtLimit
    <3> QED BY <3>1 DEF Over
  <2>3. CASE CurrentUp(r) # u
    <3>1. Using(u)' \subseteq Using(u)
      BY <1>0, <2>1, <2>3 DEF Using, CurrentUp, Current, TypeOK
    <3> QED BY <1>0, <2>1, <3>1, OverKept
  <2> QED BY <2>2, <2>3
<1>3. ASSUME Next, \A r \in Slots : ~Send(r) PROVE Over(u)'
  <2>1. Using(u)' \subseteq Using(u)
    BY <1>3, UsingShrinks
  <2>2. CASE used'[u] = used[u] \/ used'[u] = 0
    BY <1>0, <2>1, <2>2, OverKept
  <2>3. ASSUME NEW r \in Slots, AnswerWhole(r) \/ StreamEnds(r), Charge(r),
               ~(used'[u] = used[u] \/ used'[u] = 0)
        PROVE  Over(u)'
    <3>1. pc[r] \in Flight /\ pc'[r] = "done"
      BY <1>0, <2>3 DEF AnswerWhole, StreamEnds, Goto, Flight, TypeOK
    <3>2. used' = [used EXCEPT ![CurrentUp(r)] = used[CurrentUp(r)] + 1]
      BY <2>3 DEF Charge
    <3>3. CurrentUp(r) = u /\ used'[u] = used[u] + 1
      BY <1>0, <2>3, <3>2 DEF TypeOK
    <3>4. r \in Using(u) /\ r \notin Using(u)'
      BY <3>1, <3>3 DEF Using, Flight
    <3> QED BY <1>0, <2>1, <3>3, <3>4, OverCharged
  <2>4. ASSUME NEW r \in Slots, Handler(r) \/ Client(r),
               ~((AnswerWhole(r) \/ StreamEnds(r)) /\ Charge(r))
        PROVE  used' = used
    <3>1. CASE AnswerWhole(r) \/ StreamEnds(r)
      BY <2>4, <3>1 DEF AnswerWhole, StreamEnds
    <3>2. CASE ConsiderAlias(r) \/ ListTenant(r) \/ ConsiderTenant(r) \/ StartLoop(r)
            \/ LimitRefuses(r)
      BY <3>2 DEF ConsiderAlias, ListTenant, ConsiderTenant, StartLoop, LimitRefuses
    <3>3. CASE Send(r) \/ UpstreamFails(r) \/ AnswerStream(r) \/ ReadBody(r) \/ BodyFails(r)
      BY <3>3 DEF Send, UpstreamFails, AttemptFails, AnswerStream, ReadBody, BodyFails
    <3>4. CASE NextUpstream(r) \/ GiveUp(r)
      BY <3>4 DEF NextUpstream, GiveUp
    <3>5. CASE Client(r)
      BY <3>5 DEF Client, Refuse, Admit, Disconnect, Recycle
    <3> QED BY <2>4, <3>1, <3>2, <3>3, <3>4, <3>5 DEF Handler
  <2>5. CASE Admin
    <3>1. used' = used \/ used' = [v \in Upstreams |-> 0]
          \/ \E v \in Upstreams : used' = [used EXCEPT ![v] = 0]
      BY <2>5 DEF Admin, SetUpstream, ResetWindow, SetVisibility, NewDay
    <3>2. used'[u] = used[u] \/ used'[u] = 0
      BY <1>0, <3>1 DEF TypeOK
    <3> QED BY <2>2, <3>2
  <2> QED BY <1>3, <2>2, <2>3, <2>4, <2>5 DEF Next
<1> QED BY <1>1, <1>2, <1>3

\* LIMITS UNDER CONCURRENCY.  However many requests, retries and resets there
\* are, an upstream never counts more than its daily limit and one for each other
\* request that may be in flight.
THEOREM OvershootSafe == Spec => []UpstreamOvershoot
<1>1. Init => OvershootInv
  <2> SUFFICES ASSUME Init, NEW u \in Upstreams, Limit[u] > 0, used[u] >= Limit[u]
               PROVE  FALSE
      BY DEF OvershootInv
  <2> QED BY FailoverAssumption DEF Init
<1>2. TypeInv /\ OvershootInv => UpstreamOvershoot
  <2> SUFFICES ASSUME TypeInv, OvershootInv, NEW u \in Upstreams, Limit[u] > 0
               PROVE  used[u] <= Limit[u] + Cardinality(Slots) - 1
      BY DEF UpstreamOvershoot
  <2>1. /\ used[u] \in Nat /\ Limit[u] \in Nat
        /\ Cardinality(Using(u)) \in Nat /\ Cardinality(Slots) \in Nat
    BY UsingType, FailoverAssumption DEF TypeInv, TypeOK
  <2>2. used[u] >= Limit[u] => used[u] + Cardinality(Using(u)) <= Limit[u] + Cardinality(Slots) - 1
    BY DEF OvershootInv
  <2> QED BY <2>1, <2>2
<1> QED BY <1>1, <1>2, OvershootStep, TypeInvariant, PTL DEF Spec

-----------------------------------------------------------------------------
(***************************************************************************)
(* Where requests may go: never to an upstream that was gone before they   *)
(* came, and never where their user may not go; and the last reply always  *)
(* has a reason.                                                           *)
(***************************************************************************)

AliasRoutes == {route \in Routes : \E a \in AliasChoices : \E k \in DOMAIN a : a[k] = route}

Permitted(r, route) ==
  /\ ApiType[Up(route)] = KindOf[r]
  /\ \/ route \in AliasRoutes
     \/ Resolve[Up(route)] = route[2]
     \/ route \in Access

\* What the list of r may hold.
Candidates(r) ==
  {e \in Entries : Up(e.route) \notin dead[r] /\ Permitted(r, e.route)}

\* Listed entries are candidates, and so is all that may still be listed: what
\* is live, the tenant's clones and the conditional routes.
RoutingInv ==
  \A r \in Slots :
    /\ live \cap dead[r] = {}
    /\ snap[r] \cap dead[r] = {}
    /\ alias[r] \in Seq(AliasRoutes)
    /\ queue[r] \in Seq(Candidates(r))
    /\ pc[r] = "new" => queue[r] = <<>> /\ snap[r] = {}

LEMMA SeqMono ==
  ASSUME NEW S, NEW T, S \subseteq T, NEW q \in Seq(S)
  PROVE  q \in Seq(T)
OBVIOUS

LEMMA ListedEntry ==
  ASSUME RoutingInv, NEW r \in Slots, NEW i \in DOMAIN queue[r]
  PROVE  queue[r][i] \in Entries /\ Up(queue[r][i].route) \notin dead[r]
         /\ Permitted(r, queue[r][i].route)
<1>1. ASSUME NEW S, NEW q \in Seq(S), NEW k \in DOMAIN q
      PROVE  q[k] \in S
  OBVIOUS
<1>2. queue[r][i] \in Candidates(r)
  BY <1>1 DEF RoutingInv
<1> QED BY <1>2 DEF Candidates

LEMMA InitRouting == Init => RoutingInv
BY EmptySeq DEF Init, RoutingInv

LEMMA Listing ==
  ASSUME TypeInv, RoutingInv, NEW r \in Slots, NEW route \in Routes,
         Up(route) \notin dead[r], Permitted(r, route)
  PROVE  Append(queue[r], Entry(route)) \in Seq(Candidates(r))
<1>1. Entry(route) \in Entries /\ Entry(route).route = route
  BY EntryType DEF TypeInv, Entry
<1>2. Entry(route) \in Candidates(r)
  BY <1>1 DEF Candidates
<1> QED BY <1>2, AppendProperties DEF RoutingInv

LEMMA ConsiderRouting ==
  ASSUME TypeInv, RoutingInv, NEW r \in Slots, ConsiderAlias(r) \/ ConsiderTenant(r)
  PROVE  RoutingInv'
<1>1. UNCHANGED <<live, dead, snap, pc>> /\ pc[r] # "new"
  BY DEF ConsiderAlias, ConsiderTenant, admin
<1>2. \A s \in Slots : Candidates(s)' = Candidates(s)
  BY <1>1 DEF Candidates, Permitted
<1>3. CASE ConsiderAlias(r)
  <2>1. alias[r] \in Seq(AliasRoutes) /\ alias[r] # <<>>
    BY <1>3 DEF ConsiderAlias, RoutingInv
  <2>2. Head(alias[r]) \in AliasRoutes /\ Tail(alias[r]) \in Seq(AliasRoutes)
    BY <2>1, HeadTailProperties
  <2>3. alias' = [alias EXCEPT ![r] = Tail(@)]
    BY <1>3 DEF ConsiderAlias
  <2>4. \A s \in Slots : alias'[s] \in Seq(AliasRoutes)
    BY <2>2, <2>3 DEF RoutingInv, TypeInv, TypeOK
  <2>5. CASE Eligible(r, Up(Head(alias[r])))
    <3> DEFINE route == Head(alias[r])
    <3>1. route \in Routes /\ Up(route) \notin dead[r] /\ Permitted(r, route)
      BY <2>2, <2>5 DEF AliasRoutes, Permitted, Eligible, Speaks, RoutingInv
    <3>2. Append(queue[r], Entry(route)) \in Seq(Candidates(r))
      BY <3>1, Listing
    <3>3. queue' = [queue EXCEPT ![r] = Append(@, Entry(route))]
      BY <1>3, <2>5 DEF ConsiderAlias
    <3>4. \A s \in Slots : queue'[s] \in Seq(Candidates(s))
      BY <3>2, <3>3 DEF RoutingInv, TypeInv, TypeOK
    <3> HIDE DEF route
    <3>5. \A s \in Slots : pc[s] = "new" => queue'[s] = <<>>
      BY <1>1, <3>3 DEF RoutingInv, TypeInv, TypeOK
    <3> QED BY <1>1, <1>2, <2>4, <3>4, <3>5 DEF RoutingInv
  <2>6. CASE ~ Eligible(r, Up(Head(alias[r])))
    <3>1. queue' = queue
      BY <1>3, <2>6 DEF ConsiderAlias
    <3> QED BY <1>1, <1>2, <2>4, <3>1 DEF RoutingInv
  <2> QED BY <2>5, <2>6
<1>4. CASE ConsiderTenant(r)
  <2> DEFINE u == Head(tenant[r])
  <2>1. u \in Upstreams /\ UNCHANGED alias
    BY <1>4, HeadTailProperties DEF ConsiderTenant, TypeInv, TypeOK
  <2>2. CASE /\ u \in snap[r] /\ Speaks(r, u)
             /\ u \notin Listed(r) /\ Resolve[u] # NoModel
    <3> DEFINE route == <<u, Resolve[u]>>
    <3>1. route \in Routes /\ Up(route) = u /\ route[2] = Resolve[u]
      BY <2>1, <2>2, FailoverAssumption DEF Routes, Up
    <3>2. Up(route) \notin dead[r] /\ Permitted(r, route)
      BY <2>2, <3>1 DEF Permitted, Speaks, RoutingInv
    <3>3. queue' = [queue EXCEPT ![r] = Append(@, Entry(route))]
      BY <1>4, <2>2 DEF ConsiderTenant
    <3> HIDE DEF route
    <3>4. Append(queue[r], Entry(route)) \in Seq(Candidates(r))
      BY <3>1, <3>2, Listing
    <3>5. \A s \in Slots : queue'[s] \in Seq(Candidates(s))
      BY <3>3, <3>4 DEF RoutingInv, TypeInv, TypeOK
    <3>6. \A s \in Slots : pc[s] = "new" => queue'[s] = <<>>
      BY <1>1, <3>3 DEF RoutingInv, TypeInv, TypeOK
    <3> QED BY <1>1, <1>2, <2>1, <3>5, <3>6 DEF RoutingInv
  <2>3. CASE ~ (/\ u \in snap[r] /\ Speaks(r, u)
                /\ u \notin Listed(r) /\ Resolve[u] # NoModel)
    <3>1. queue' = queue
      BY <1>4, <2>3 DEF ConsiderTenant
    <3> QED BY <1>1, <1>2, <2>1, <3>1 DEF RoutingInv
  <2> QED BY <2>2, <2>3
<1> QED BY <1>3, <1>4

LEMMA NextUpstreamRouting ==
  ASSUME TypeInv, RoutingInv, NEW r \in Slots, NextUpstream(r)
  PROVE  RoutingInv'
<1> DEFINE f == Current(r).fallback
           now == tried[r] \cup {CurrentUp(r)}
           rest == IF FallbackUsable(r, f, now)
                   THEN <<Entry(f)>> \o Tail(queue[r]) ELSE Tail(queue[r])
<1>1. queue[r] # <<>> /\ queue[r] \in Seq(Candidates(r))
  BY DEF NextUpstream, TypeInv, HasCurrent, Looping, RoutingInv
<1>2. Tail(queue[r]) \in Seq(Candidates(r))
  BY <1>1, HeadTailProperties
<1>3. f \in Routes \cup {NoRoute}
  BY <1>1, CurrentType DEF TypeInv
<1>4. rest \in Seq(Candidates(r))
  <2>1. CASE FallbackUsable(r, f, now)
    <3>1. f \in Routes /\ Up(f) \notin dead[r] /\ Permitted(r, f)
      BY <1>3, <2>1 DEF FallbackUsable, Eligible, Speaks, Permitted, RoutingInv
    <3>2. Entry(f) \in Entries /\ Entry(f).route = f
      BY <3>1, EntryType DEF TypeInv, Entry
    <3>3. <<Entry(f)>> \in Seq(Candidates(r))
      BY <3>1, <3>2 DEF Candidates
    <3> QED BY <1>2, <2>1, <3>3, ConcatProperties
  <2>2. CASE ~ FallbackUsable(r, f, now)
    BY <1>2, <2>2
  <2> QED BY <2>1, <2>2
<1>5. /\ queue' = [queue EXCEPT ![r] = rest]
      /\ \E l \in {"giveup", "check"} : pc' = [pc EXCEPT ![r] = l]
      /\ UNCHANGED <<live, dead, snap, alias>> /\ pc[r] = "exhausted"
  BY DEF NextUpstream, Goto, admin, request
<1> HIDE DEF rest, f, now
<1>6. \A s \in Slots : Candidates(s)' = Candidates(s)
  BY <1>5 DEF Candidates, Permitted
<1>7. \A s \in Slots : queue'[s] \in Seq(Candidates(s))
  BY <1>4, <1>5 DEF RoutingInv, TypeInv, TypeOK
<1>8. \A s \in Slots : pc'[s] = "new" => queue'[s] = <<>> /\ snap[s] = {}
  BY <1>5 DEF RoutingInv, TypeInv, TypeOK
<1> QED BY <1>5, <1>6, <1>7, <1>8 DEF RoutingInv

\* Steps that leave the lists alone: the set of dead upstreams may shrink, and
\* nothing that is dead comes to life.
LEMMA IdleRouting ==
  ASSUME TypeInv, RoutingInv, UNCHANGED <<queue, alias, snap>>,
         \A r \in Slots : /\ dead'[r] \subseteq dead[r] \/ pc[r] = "new"
                          /\ live' \cap dead'[r] = {}
                          /\ pc'[r] = "new" => pc[r] = "new"
  PROVE  RoutingInv'
<1> SUFFICES ASSUME NEW r \in Slots
             PROVE  /\ live' \cap dead'[r] = {}
                    /\ snap[r] \cap dead'[r] = {}
                    /\ alias[r] \in Seq(AliasRoutes)
                    /\ queue[r] \in Seq(Candidates(r)')
                    /\ pc'[r] = "new" => queue[r] = <<>> /\ snap[r] = {}
  BY DEF RoutingInv
<1>1. queue[r] \in Seq(Candidates(r)')
  <2>1. CASE dead'[r] \subseteq dead[r]
    <3>1. Candidates(r) \subseteq Candidates(r)'
      BY <2>1 DEF Candidates, Permitted
    <3> QED BY <3>1, SeqMono DEF RoutingInv
  <2>2. CASE pc[r] = "new"
    <3>1. queue[r] = <<>>
      BY <2>2 DEF RoutingInv
    <3> QED BY <3>1, EmptySeq
  <2> QED BY <2>1, <2>2
<1> QED BY <1>1 DEF RoutingInv

LEMMA RoutingStep == TypeInv /\ RoutingInv /\ [Next]_vars => RoutingInv'
<1> SUFFICES ASSUME TypeInv, RoutingInv, [Next]_vars PROVE RoutingInv'
  OBVIOUS
<1>1. ASSUME NEW r \in Slots,
             \/ Refuse(r) \/ StartLoop(r) \/ LimitRefuses(r) \/ Send(r) \/ UpstreamFails(r)
             \/ AnswerStream(r) \/ ReadBody(r) \/ BodyFails(r) \/ AnswerWhole(r)
             \/ StreamEnds(r) \/ GiveUp(r) \/ Disconnect(r)
      PROVE  RoutingInv'
  <2>1. /\ UNCHANGED <<queue, alias, snap, dead, live>>
        /\ \E l \in PCs \ {"new"} : pc' = [pc EXCEPT ![r] = l]
    BY <1>1 DEF Refuse, StartLoop, LimitRefuses, Send, UpstreamFails, AttemptFails,
      AnswerStream, ReadBody, BodyFails, AnswerWhole, StreamEnds, GiveUp, Disconnect,
      Goto, PCs, admin, request, loop
  <2>2. \A s \in Slots : pc'[s] = "new" => pc[s] = "new"
    BY <2>1 DEF TypeInv, TypeOK
  <2> QED BY <2>1, <2>2, IdleRouting DEF RoutingInv
<1>2. ASSUME NEW r \in Slots, Admit(r) PROVE RoutingInv'
  <2>1. /\ UNCHANGED <<queue, snap, live>> /\ pc[r] = "new"
        /\ pc' = [pc EXCEPT ![r] = "list"]
        /\ dead' = [dead EXCEPT ![r] = Upstreams \ live]
    BY <1>2 DEF Admit, Goto, admin, loop
  <2>2. PICK a \in AliasChoices : alias' = [alias EXCEPT ![r] = a]
    BY <1>2 DEF Admit
  <2>3. a \in Seq(AliasRoutes)
    <3>1. a \in Seq(Routes)
      BY FailoverAssumption
    <3>2. \A k \in DOMAIN a : a[k] \in AliasRoutes
      BY <3>1 DEF AliasRoutes
    <3> QED BY <3>1, <3>2
  <2>4. ASSUME NEW s \in Slots
        PROVE  /\ live \cap dead'[s] = {}
               /\ snap[s] \cap dead'[s] = {}
               /\ alias'[s] \in Seq(AliasRoutes)
               /\ queue[s] \in Seq(Candidates(s)')
               /\ pc'[s] = "new" => queue[s] = <<>> /\ snap[s] = {}
    <3>1. CASE s = r
      BY <2>1, <2>2, <2>3, <3>1, EmptySeq DEF RoutingInv, TypeInv, TypeOK
    <3>2. CASE s # r
      <4>1. dead'[s] = dead[s] /\ alias'[s] = alias[s] /\ pc'[s] = pc[s]
        BY <2>1, <2>2, <3>2 DEF TypeInv, TypeOK
      <4>2. Candidates(s)' = Candidates(s)
        BY <4>1 DEF Candidates, Permitted
      <4> QED BY <4>1, <4>2 DEF RoutingInv
    <3> QED BY <3>1, <3>2
  <2> QED BY <2>1, <2>4 DEF RoutingInv
<1>3. ASSUME NEW r \in Slots, ListTenant(r) PROVE RoutingInv'
  <2>1. /\ UNCHANGED <<queue, alias, dead, live>>
        /\ pc' = [pc EXCEPT ![r] = "tenant"]
        /\ snap' = [snap EXCEPT ![r] = live]
    BY <1>3 DEF ListTenant, Goto, admin, loop
  <2>2. \A s \in Slots : Candidates(s)' = Candidates(s)
    BY <2>1 DEF Candidates, Permitted
  <2>3. \A s \in Slots : /\ snap'[s] \cap dead[s] = {}
                         /\ pc'[s] = "new" => pc[s] = "new" /\ snap'[s] = snap[s]
    BY <2>1 DEF RoutingInv, TypeInv, TypeOK
  <2> QED BY <2>1, <2>2, <2>3 DEF RoutingInv
<1>4. ASSUME NEW r \in Slots, Recycle(r) PROVE RoutingInv'
  <2>1. /\ UNCHANGED live
        /\ pc' = [pc EXCEPT ![r] = "new"] /\ snap' = [snap EXCEPT ![r] = {}]
        /\ queue' = [queue EXCEPT ![r] = <<>>] /\ alias' = [alias EXCEPT ![r] = <<>>]
        /\ dead' = [dead EXCEPT ![r] = {}]
    BY <1>4 DEF Recycle, Goto, admin
  <2>2. ASSUME NEW s \in Slots
        PROVE  /\ live \cap dead'[s] = {}
               /\ snap'[s] \cap dead'[s] = {}
               /\ alias'[s] \in Seq(AliasRoutes)
               /\ queue'[s] \in Seq(Candidates(s)')
               /\ pc'[s] = "new" => queue'[s] = <<>> /\ snap'[s] = {}
    <3>1. CASE s = r
      BY <2>1, <3>1, EmptySeq DEF TypeInv, TypeOK
    <3>2. CASE s # r
      <4>1. /\ dead'[s] = dead[s] /\ alias'[s] = alias[s] /\ pc'[s] = pc[s]
            /\ snap'[s] = snap[s] /\ queue'[s] = queue[s]
        BY <2>1, <3>2 DEF TypeInv, TypeOK
      <4>2. Candidates(s)' = Candidates(s)
        BY <4>1 DEF Candidates, Permitted
      <4> QED BY <4>1, <4>2 DEF RoutingInv
    <3> QED BY <3>1, <3>2
  <2> QED BY <2>1, <2>2 DEF RoutingInv
<1>5. ASSUME NEW u \in Upstreams, SetUpstream(u) PROVE RoutingInv'
  <2>1. UNCHANGED <<queue, alias, snap, pc>>
    BY <1>5 DEF SetUpstream, request, loop
  <2>2. \A r \in Slots : dead'[r] \subseteq dead[r] /\ live' \cap dead'[r] = {}
    BY <1>5 DEF SetUpstream, RoutingInv
  <2> QED BY <2>1, <2>2, IdleRouting
<1>6. ASSUME \/ \E u \in Upstreams : ResetWindow(u)
             \/ \E route \in Routes : SetVisibility(route)
             \/ NewDay
             \/ UNCHANGED vars
      PROVE  RoutingInv'
  <2>1. UNCHANGED <<queue, alias, snap, pc, live, dead>>
    BY <1>6 DEF ResetWindow, SetVisibility, NewDay, request, loop, admin, vars
  <2> QED BY <2>1, IdleRouting DEF RoutingInv
<1> QED BY <1>1, <1>2, <1>3, <1>4, <1>5, <1>6, ConsiderRouting, NextUpstreamRouting
  DEF Next, Handler, Client, Admin

LEMMA RoutingInvariant == Spec => []RoutingInv
<1>1. Init => TypeInv /\ RoutingInv
  BY InitType, InitRouting
<1>2. TypeInv /\ RoutingInv /\ [Next]_vars => (TypeInv /\ RoutingInv)'
  BY StepType, RoutingStep
<1> QED BY <1>1, <1>2, PTL DEF Spec

\* An upstream that was out of service when a request came, and stayed so, is
\* never on its list: all three ways onto the list look at the status, or at
\* clones that are taken after the request came.
THEOREM NeverDeadSafe == Spec => []NeverDead
<1>1. RoutingInv => NeverDead
  BY ListedEntry DEF NeverDead, Listed
<1> QED BY <1>1, RoutingInvariant, PTL

\* Whatever an administrator changes meanwhile, a request stays with upstreams
\* of its own API, and with routes of its alias, its model or its user's access.
THEOREM OnlyPermittedSafe == Spec => []OnlyPermitted
<1>1. RoutingInv => OnlyPermitted
  <2> SUFFICES ASSUME RoutingInv, NEW r \in Slots, NEW i \in DOMAIN queue[r],
                      NEW route, route = queue[r][i].route
               PROVE  /\ ApiType[Up(route)] = KindOf[r]
                      /\ \/ \E a \in AliasChoices : \E k \in DOMAIN a : a[k] = route
                         \/ Up(route) \in Upstreams /\ Resolve[Up(route)] = route[2]
                         \/ route \in Access
    BY DEF OnlyPermitted
  <2>1. queue[r][i] \in Entries /\ Permitted(r, queue[r][i].route)
    BY ListedEntry
  <2>2. route \in Routes /\ Permitted(r, route)
    BY <2>1 DEF Entries
  <2>3. Up(route) \in Upstreams
    BY <2>2 DEF Routes, Up
  <2> QED BY <2>2, <2>3 DEF Permitted, AliasRoutes
<1> QED BY <1>1, RoutingInvariant, PTL

-----------------------------------------------------------------------------
\* A handler that leaves an upstream knows why.
Reason ==
  \A r \in Slots :
    /\ reply[r] # "unavailable"
    /\ pc[r] \in {"exhausted", "giveup"} => err[r] # "none"

LEMMA ReasonStep == TypeInv /\ Reason /\ [Next]_vars => Reason'
<1> SUFFICES ASSUME TypeInv, Reason, [Next]_vars PROVE Reason'
  OBVIOUS
<1> USE DEF Reason, TypeInv, TypeOK
<1>1. ASSUME NEW r \in Slots,
             \/ Refuse(r) \/ Admit(r) \/ ConsiderAlias(r) \/ ListTenant(r)
             \/ ConsiderTenant(r) \/ StartLoop(r) \/ Send(r) \/ AnswerStream(r)
             \/ ReadBody(r) \/ AnswerWhole(r) \/ StreamEnds(r) \/ Disconnect(r)
      PROVE  Reason'
  <2>1. /\ UNCHANGED err
        /\ \/ pc' = pc
           \/ \E l \in PCs \ {"exhausted", "giveup"} : pc' = [pc EXCEPT ![r] = l]
        /\ \/ reply' = reply
           \/ \E l \in Replies \ {"unavailable"} : reply' = [reply EXCEPT ![r] = l]
    BY <1>1 DEF Refuse, Admit, ConsiderAlias, ListTenant, ConsiderTenant, StartLoop,
      Send, AnswerStream, ReadBody, AnswerWhole, StreamEnds, Disconnect, Goto, PCs,
      Replies, books, loop
  <2> QED BY <2>1
<1>2. ASSUME NEW r \in Slots, LimitRefuses(r) \/ UpstreamFails(r) \/ BodyFails(r)
      PROVE  Reason'
  <2>1. /\ UNCHANGED reply
        /\ \E e \in {"local", "429", "500"} : err' = [err EXCEPT ![r] = e]
        /\ \E l \in PCs : pc' = [pc EXCEPT ![r] = l]
    BY <1>2 DEF LimitRefuses, UpstreamFails, BodyFails, AttemptFails, Goto, PCs, books
  <2> QED BY <2>1
<1>3. ASSUME NEW r \in Slots, NextUpstream(r)
      PROVE  Reason'
  <2>1. /\ UNCHANGED <<reply, err>> /\ pc[r] = "exhausted"
        /\ \E l \in {"giveup", "check"} : pc' = [pc EXCEPT ![r] = l]
    BY <1>3 DEF NextUpstream, Goto, books
  <2> QED BY <2>1
<1>4. ASSUME NEW r \in Slots, GiveUp(r)
      PROVE  Reason'
  <2>1. ErrorReply(r) # "unavailable" /\ pc' = [pc EXCEPT ![r] = "done"] /\ UNCHANGED err
    BY <1>4 DEF GiveUp, ErrorReply, Goto, Errors, loop
  <2>2. reply' = [reply EXCEPT ![r] = ErrorReply(r)]
    BY <1>4 DEF GiveUp
  <2> QED BY <2>1, <2>2
<1>5. ASSUME NEW r \in Slots, Recycle(r)
      PROVE  Reason'
  <2>1. /\ pc' = [pc EXCEPT ![r] = "new"] /\ err' = [err EXCEPT ![r] = "none"]
        /\ reply' = [reply EXCEPT ![r] = "none"]
    BY <1>5 DEF Recycle, Goto
  <2> QED BY <2>1
<1>6. CASE Admin \/ UNCHANGED vars
  <2>1. UNCHANGED <<reply, err, pc>>
    BY <1>6 DEF Admin, SetUpstream, ResetWindow, SetVisibility, NewDay, loop, books, vars
  <2> QED BY <2>1
<1> QED BY <1>1, <1>2, <1>3, <1>4, <1>5, <1>6 DEF Next, Handler, Client

\* The reply "unavailable" at the end of both handlers is never sent.
THEOREM NeverUnavailableSafe == Spec => []NeverUnavailable
<1>1. Init => TypeInv /\ Reason
  BY InitType DEF Init, Reason
<1>2. TypeInv /\ Reason /\ [Next]_vars => (TypeInv /\ Reason)'
  BY StepType, ReasonStep
<1>3. Reason => NeverUnavailable
  BY DEF Reason, NeverUnavailable
<1> QED BY <1>1, <1>2, <1>3, PTL DEF Spec

-----------------------------------------------------------------------------
(***************************************************************************)
(* The request loop implements ProxyPromise: under the refinement mapping  *)
(* of Failover every step is a step of the promise or leaves it alone.     *)
(***************************************************************************)

Opening == {"new", "list", "tenant"}
Working == {"check", "await", "body", "exhausted", "giveup"}

\* Where a handler is tells what its client knows and how its books stand.
Linked ==
  \A r \in Slots :
    /\ pc[r] \in Opening => reply[r] = "none" /\ book[r] = "none"
    /\ pc[r] \in Working => reply[r] = "none" /\ book[r] = "open"
    /\ pc[r] = "stream"  => reply[r] = "stream" /\ book[r] = "open"
    /\ pc[r] = "done"    => /\ reply[r] # "none"
                            /\ ~(reply[r] \in {"whole", "stream"} /\ book[r] = "open")

LEMMA LinkedInit == Init => Linked
BY DEF Init, Linked, Opening, Working

\* The steps that neither answer nor touch the books.
LEMMA QuietSteps ==
  ASSUME TypeInv, NEW r \in Slots,
         \/ ConsiderAlias(r) \/ ListTenant(r) \/ ConsiderTenant(r)
         \/ LimitRefuses(r) \/ Send(r) \/ UpstreamFails(r) \/ ReadBody(r)
         \/ BodyFails(r) \/ NextUpstream(r) \/ Admit(r)
  PROVE  /\ reply' = reply /\ book' = book /\ bill' = bill
         /\ \A q \in Slots : q # r => pc'[q] = pc[q]
         /\ \/ pc[r] \in Opening /\ pc'[r] \in Opening
            \/ pc[r] \in Working /\ pc'[r] \in Working
<1> USE DEF TypeInv, TypeOK, Opening, Working, Goto, admin, request, loop, books
<1>1. CASE ConsiderAlias(r)
  BY <1>1 DEF ConsiderAlias
<1>2. CASE ListTenant(r)
  BY <1>2 DEF ListTenant
<1>3. CASE ConsiderTenant(r)
  BY <1>3 DEF ConsiderTenant
<1>4. CASE LimitRefuses(r)
  BY <1>4 DEF LimitRefuses
<1>5. CASE Send(r)
  BY <1>5 DEF Send
<1>6. CASE UpstreamFails(r)
  BY <1>6 DEF UpstreamFails, AttemptFails
<1>7. CASE ReadBody(r)
  BY <1>7 DEF ReadBody
<1>8. CASE BodyFails(r)
  BY <1>8 DEF BodyFails, AttemptFails
<1>9. CASE NextUpstream(r)
  BY <1>9 DEF NextUpstream
<1>10. CASE Admit(r)
  BY <1>10 DEF Admit
<1> QED BY <1>1, <1>2, <1>3, <1>4, <1>5, <1>6, <1>7, <1>8, <1>9, <1>10

LEMMA AdminQuiet ==
  ASSUME Admin \/ UNCHANGED vars
  PROVE  UNCHANGED <<pc, reply, book, bill>>
BY DEF Admin, SetUpstream, ResetWindow, SetVisibility, NewDay, vars, books

LEMMA LinkedStep == TypeInv /\ Linked /\ [Next]_vars => Linked'
<1> SUFFICES ASSUME TypeInv, Linked, [Next]_vars PROVE Linked'
    OBVIOUS
<1> USE DEF TypeInv, TypeOK, Opening, Working, Goto, Linked
<1>1. CASE Admin \/ UNCHANGED vars
  BY <1>1, AdminQuiet
<1>2. ASSUME NEW r \in Slots,
             \/ ConsiderAlias(r) \/ ListTenant(r) \/ ConsiderTenant(r)
             \/ LimitRefuses(r) \/ Send(r) \/ UpstreamFails(r) \/ ReadBody(r)
             \/ BodyFails(r) \/ NextUpstream(r) \/ Admit(r)
      PROVE  Linked'
  <2>1. /\ reply' = reply /\ book' = book
        /\ \A q \in Slots : q # r => pc'[q] = pc[q]
        /\ \/ pc[r] \in Opening /\ pc'[r] \in Opening
           \/ pc[r] \in Working /\ pc'[r] \in Working
    BY ONLY TypeInv, <1>2, QuietSteps
  <2> QED BY <2>1
<1>3. ASSUME NEW r \in Slots, Refuse(r) PROVE Linked'
  BY <1>3 DEF Refuse
<1>9. ASSUME NEW r \in Slots, StartLoop(r) PROVE Linked'
  <2>0. pc \in [Slots -> PCs] /\ reply \in [Slots -> Replies]
        /\ book \in [Slots -> {"none", "open", "success", "failed"}]
    BY ONLY TypeInv DEF TypeInv, TypeOK
  <2>1. CASE queue[r] = <<>>
    <3>1. /\ pc[r] = "tenant" /\ pc' = [pc EXCEPT ![r] = "done"]
          /\ reply' = [reply EXCEPT ![r] = "forbidden"] /\ book' = book
      BY ONLY <1>9, <2>1 DEF StartLoop, Goto
    <3> QED BY ONLY Linked, <2>0, <3>1 DEF Linked, Opening, Working
  <2>2. CASE queue[r] # <<>>
    <3>1. /\ pc[r] = "tenant" /\ pc' = [pc EXCEPT ![r] = "check"]
          /\ book' = [book EXCEPT ![r] = "open"] /\ reply' = reply
      BY ONLY <1>9, <2>2 DEF StartLoop, Goto
    <3> QED BY ONLY Linked, <2>0, <3>1 DEF Linked, Opening, Working
  <2> QED BY <2>1, <2>2
<1>4. ASSUME NEW r \in Slots, AnswerStream(r) PROVE Linked'
  BY <1>4 DEF AnswerStream
<1>10. ASSUME NEW r \in Slots, AnswerWhole(r) PROVE Linked'
  BY <1>10 DEF AnswerWhole
<1>5. ASSUME NEW r \in Slots, StreamEnds(r) PROVE Linked'
  BY <1>5 DEF StreamEnds
<1>6. ASSUME NEW r \in Slots, GiveUp(r) PROVE Linked'
  <2>1. ErrorReply(r) \in {"rate_limited", "internal", "unavailable"}
    BY DEF ErrorReply, Errors
  <2> QED BY <1>6, <2>1 DEF GiveUp
<1>7. ASSUME NEW r \in Slots, Disconnect(r) PROVE Linked'
  BY <1>7 DEF Disconnect, books
<1>8. ASSUME NEW r \in Slots, Recycle(r) PROVE Linked'
  BY <1>8 DEF Recycle
<1> QED BY <1>1, <1>2, <1>3, <1>4, <1>5, <1>6, <1>7, <1>8, <1>9, <1>10
        DEF Next, Handler, Client

\* The mapped outcome follows what the client of one slot was told.
LEMMA OutcomeUpdate ==
  ASSUME TypeOK, NEW r \in Slots, NEW told \in Replies,
         reply' = [reply EXCEPT ![r] = told]
  PROVE  outcome' = [outcome EXCEPT ![r] = OutcomeOf(told)]
BY DEF TypeOK, outcome

LEMMA OutcomeKept == ASSUME reply' = reply PROVE outcome' = outcome
BY DEF outcome

LEMMA OutcomeAt ==
  ASSUME NEW r \in Slots
  PROVE  outcome[r] = OutcomeOf(reply[r])
BY DEF outcome

LEMMA PromiseStep ==
  TypeInv /\ Linked /\ [Next]_vars => [Promise!Next]_(Promise!vars)
<1> SUFFICES ASSUME TypeInv, Linked, [Next]_vars
             PROVE  [Promise!Next]_(Promise!vars)
    OBVIOUS
<1>1. CASE Admin \/ UNCHANGED vars
  BY <1>1, AdminQuiet, OutcomeKept DEF Promise!vars
<1>2. ASSUME NEW r \in Slots,
             \/ ConsiderAlias(r) \/ ListTenant(r) \/ ConsiderTenant(r)
             \/ LimitRefuses(r) \/ Send(r) \/ UpstreamFails(r) \/ ReadBody(r)
             \/ BodyFails(r) \/ NextUpstream(r) \/ Admit(r)
      PROVE  UNCHANGED Promise!vars
  BY <1>2, QuietSteps, OutcomeKept DEF Promise!vars
<1>3. ASSUME NEW r \in Slots, Refuse(r) PROVE Promise!Refuse(r)
  <2>1. outcome[r] = "none" /\ book[r] = "none"
    BY <1>3, OutcomeAt DEF Refuse, Linked, Opening, OutcomeOf
  <2>2. reply' = [reply EXCEPT ![r] = "refused"] /\ book' = book /\ bill' = bill
    BY <1>3 DEF Refuse
  <2>3. outcome' = [outcome EXCEPT ![r] = "refused"]
    BY <2>2, OutcomeUpdate DEF TypeInv, Replies, OutcomeOf
  <2> QED BY <2>1, <2>2, <2>3 DEF Promise!Refuse
<1>4. ASSUME NEW r \in Slots, StartLoop(r) PROVE Promise!Refuse(r) \/ Promise!Open(r)
  <2>1. outcome[r] = "none" /\ book[r] = "none"
    BY <1>4, OutcomeAt DEF StartLoop, Linked, Opening, OutcomeOf
  <2>2. CASE queue[r] = <<>>
    <3>1. reply' = [reply EXCEPT ![r] = "forbidden"] /\ book' = book /\ bill' = bill
      BY <1>4, <2>2 DEF StartLoop
    <3>2. outcome' = [outcome EXCEPT ![r] = "refused"]
      BY <3>1, OutcomeUpdate DEF TypeInv, Replies, OutcomeOf
    <3> QED BY <2>1, <3>1, <3>2 DEF Promise!Refuse
  <2>3. CASE queue[r] # <<>>
    <3>1. reply' = reply /\ book' = [book EXCEPT ![r] = "open"] /\ bill' = bill
      BY <1>4, <2>3 DEF StartLoop
    <3> QED BY <2>1, <3>1, OutcomeKept DEF Promise!Open
  <2> QED BY <2>2, <2>3
<1>5. ASSUME NEW r \in Slots, AnswerStream(r) PROVE Promise!AnswerStream(r)
  <2>1. outcome[r] = "none" /\ book[r] = "open"
    BY <1>5, OutcomeAt DEF AnswerStream, Linked, Working, OutcomeOf
  <2>2. reply' = [reply EXCEPT ![r] = "stream"] /\ book' = book /\ bill' = bill
    BY <1>5 DEF AnswerStream
  <2>3. outcome' = [outcome EXCEPT ![r] = "answered"]
    BY <2>2, OutcomeUpdate DEF TypeInv, Replies, OutcomeOf
  <2> QED BY <2>1, <2>2, <2>3 DEF Promise!AnswerStream
<1>6. ASSUME NEW r \in Slots, AnswerWhole(r) PROVE Promise!AnswerWhole(r)
  <2>1. outcome[r] = "none" /\ book[r] = "open"
    BY <1>6, OutcomeAt DEF AnswerWhole, Linked, Working, OutcomeOf
  <2>2. /\ reply' = [reply EXCEPT ![r] = "whole"]
        /\ book' = [book EXCEPT ![r] = "success"]
        /\ bill' = [bill EXCEPT ![r] = @ + 1] \/ bill' = bill
    BY <1>6 DEF AnswerWhole, Charge
  <2>3. outcome' = [outcome EXCEPT ![r] = "answered"]
    BY <2>2, OutcomeUpdate DEF TypeInv, Replies, OutcomeOf
  <2> QED BY <2>1, <2>2, <2>3 DEF Promise!AnswerWhole
<1>7. ASSUME NEW r \in Slots, StreamEnds(r) PROVE Promise!FinishStream(r)
  <2>1. outcome[r] = "answered" /\ book[r] = "open"
    BY <1>7, OutcomeAt DEF StreamEnds, Linked, OutcomeOf
  <2>2. /\ reply' = reply
        /\ \/ /\ book' = [book EXCEPT ![r] = "success"]
              /\ bill' = [bill EXCEPT ![r] = @ + 1]
           \/ book' = [book EXCEPT ![r] = "failed"] /\ bill' = bill
    BY <1>7 DEF StreamEnds, Charge
  <2> QED BY <2>1, <2>2, OutcomeKept DEF Promise!FinishStream
<1>8. ASSUME NEW r \in Slots, GiveUp(r) PROVE Promise!GiveUp(r)
  <2>1. outcome[r] = "none" /\ book[r] = "open"
    BY <1>8, OutcomeAt DEF GiveUp, Linked, Working, OutcomeOf
  <2>2. /\ ErrorReply(r) \in Replies /\ OutcomeOf(ErrorReply(r)) = "error"
    BY DEF ErrorReply, TypeInv, TypeOK, Errors, Replies, OutcomeOf
  <2>3. /\ reply' = [reply EXCEPT ![r] = ErrorReply(r)]
        /\ book' = [book EXCEPT ![r] = "failed"] /\ bill' = bill
    BY <1>8 DEF GiveUp
  <2>4. outcome' = [outcome EXCEPT ![r] = "error"]
    BY <2>2, <2>3, OutcomeUpdate DEF TypeInv
  <2> QED BY <2>1, <2>3, <2>4 DEF Promise!GiveUp
<1>9. ASSUME NEW r \in Slots, Disconnect(r) PROVE Promise!Abandon(r)
  <2>1. outcome[r] = "none"
    BY <1>9, OutcomeAt DEF Disconnect, Linked, Working, OutcomeOf
  <2>2. reply' = [reply EXCEPT ![r] = "dropped"] /\ book' = book /\ bill' = bill
    BY <1>9 DEF Disconnect
  <2>3. outcome' = [outcome EXCEPT ![r] = "abandoned"]
    BY <2>2, OutcomeUpdate DEF TypeInv, Replies, OutcomeOf
  <2> QED BY <2>1, <2>2, <2>3 DEF Promise!Abandon
<1>10. ASSUME NEW r \in Slots, Recycle(r) PROVE Promise!Recycle(r)
  <2>1. reply[r] # "none" /\ ~(reply[r] \in {"whole", "stream"} /\ book[r] = "open")
    BY <1>10 DEF Recycle, Linked
  <2>2. outcome[r] # "none" /\ ~(outcome[r] = "answered" /\ book[r] = "open")
    BY <2>1, OutcomeAt DEF OutcomeOf, TypeInv, TypeOK, Replies
  <2>3. /\ reply' = [reply EXCEPT ![r] = "none"]
        /\ book' = [book EXCEPT ![r] = "none"] /\ bill' = [bill EXCEPT ![r] = 0]
    BY <1>10 DEF Recycle
  <2>4. outcome' = [outcome EXCEPT ![r] = "none"]
    BY <2>3, OutcomeUpdate DEF TypeInv, Replies, OutcomeOf
  <2> QED BY <2>2, <2>3, <2>4 DEF Promise!Recycle
<1> QED BY <1>1, <1>2, <1>3, <1>4, <1>5, <1>6, <1>7, <1>8, <1>9, <1>10
        DEF Next, Handler, Client, Promise!Next

\* THE HANDLERS KEEP THE PROMISE.  For any number of requests, upstreams, models,
\* retries and fallbacks, and whatever administrators change meanwhile: a client
\* gets one outcome, the books of an accepted request are closed once and agree
\* with it, and usage is charged at most once, for an answer.
THEOREM PromiseKept == Spec => KeepsPromise
<1>1. Init => Promise!Init
  BY DEF Init, Promise!Init, outcome, OutcomeOf
<1> QED BY <1>1, LinkedInit, LinkedStep, PromiseStep, TypeInvariant, PTL
        DEF Spec, KeepsPromise, Promise!Spec
=============================================================================
