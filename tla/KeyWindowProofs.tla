-------------------------- MODULE KeyWindowProofs --------------------------
(***************************************************************************)
(* The key limiter for every number of requests, limits, window and token  *)
(* counts: its verdicts are those of the history, and concurrent requests  *)
(* overshoot the rpm limit by a bounded number.                            *)
(***************************************************************************)
EXTENDS KeyWindow, SequenceTheorems, FiniteSetTheorems, WellFoundedInduction, TLAPS

-----------------------------------------------------------------------------
(* Sums.  Induction over the length of a sequence goes by way of the least *)
(* position where a claim fails.                                           *)

LEMMA Least ==
  ASSUME NEW T, T \subseteq Nat, T # {}
  PROVE  \E n \in T : \A m \in T : n <= m
<1>1. IsWellFoundedOn(OpToRel(<, Nat), Nat)
  BY NatLessThanWellFounded
<1>2. PICK n \in T : \A m \in T : ~(<<m, n>> \in OpToRel(<, Nat))
  BY <1>1, WFMin
<1>3. ASSUME NEW m \in T PROVE n <= m
  <2>1. ~(m < n)
    BY <1>2 DEF OpToRel
  <2> QED BY <2>1
<1> QED BY <1>3

\* f holds the partial sums of the weights w.
PartialSums(f, w, n) ==
  /\ f \in [0 .. n -> Nat]
  /\ f[0] = 0
  /\ \A i \in 1 .. n : f[i] = f[i - 1] + w[i]

LEMMA PartialSumsExist ==
  ASSUME NEW n \in Nat, NEW w, \A i \in 1 .. n : w[i] \in Nat
  PROVE  \E f : PartialSums(f, w, n)
<1> DEFINE Failing == {k \in 0 .. n : ~ \E f : PartialSums(f, w, k)}
<1> SUFFICES ASSUME Failing # {} PROVE FALSE
  BY DEF Failing
<1>1. PICK k \in Failing : \A m \in Failing : k <= m
  <2>1. Failing \subseteq Nat
    BY DEF Failing
  <2> HIDE DEF Failing
  <2> QED BY <2>1, Least
<1>2. k \in 0 .. n /\ ~ \E f : PartialSums(f, w, k)
  BY DEF Failing
<1>3. CASE k = 0
  <2>1. PartialSums([i \in 0 .. 0 |-> 0], w, 0)
    BY DEF PartialSums
  <2> QED BY <1>2, <1>3, <2>1
<1>4. CASE k # 0
  <2>1. k - 1 \in 0 .. n /\ k \in 1 .. n /\ k - 1 < k
    BY <1>2, <1>4
  <2>2. k - 1 \notin Failing
    BY <1>1, <2>1
  <2>3. PICK f : PartialSums(f, w, k - 1)
    BY <2>1, <2>2 DEF Failing
  <2> DEFINE g == [i \in 0 .. k |-> IF i = k THEN f[k - 1] + w[k] ELSE f[i]]
  <2>4. f \in [0 .. (k - 1) -> Nat] /\ f[k - 1] \in Nat
    BY <2>1, <2>3 DEF PartialSums
  <2>5. g \in [0 .. k -> Nat]
    BY <2>1, <2>4
  <2>6. g[0] = 0
    BY <2>1, <2>3 DEF PartialSums
  <2>7. ASSUME NEW i \in 1 .. k PROVE g[i] = g[i - 1] + w[i]
    <3>1. CASE i = k
      BY <2>1, <3>1
    <3>2. CASE i # k
      <4>1. i \in 1 .. (k - 1) /\ i - 1 # k /\ i - 1 \in 0 .. k
        BY <2>1, <3>2
      <4>2. f[i] = f[i - 1] + w[i]
        BY <2>3, <4>1 DEF PartialSums
      <4> QED BY <3>2, <4>1, <4>2
    <3> QED BY <3>1, <3>2
  <2>8. PartialSums(g, w, k)
    BY <2>5, <2>6, <2>7 DEF PartialSums
  <2> QED BY <1>2, <2>8
<1> QED BY <1>3, <1>4

\* Of two functions, the one that starts higher and climbs faster stays above.
LEMMA Climb ==
  ASSUME NEW n \in Nat, NEW a \in [0 .. n -> Nat], NEW b \in [0 .. n -> Nat],
         a[0] <= b[0],
         \A i \in 1 .. n : a[i] - a[i - 1] <= b[i] - b[i - 1]
  PROVE  a[n] <= b[n]
<1> DEFINE Failing == {k \in 0 .. n : a[k] > b[k]}
<1> SUFFICES ASSUME ~(a[n] <= b[n]) PROVE FALSE
  OBVIOUS
<1>0. n \in Failing
  <2>1. n \in 0 .. n /\ a[n] \in Nat /\ b[n] \in Nat
    OBVIOUS
  <2> QED BY <2>1
<1>1. PICK k \in Failing : \A m \in Failing : k <= m
  <2>1. Failing \subseteq Nat
    BY DEF Failing
  <2> HIDE DEF Failing
  <2> QED BY <1>0, <2>1, Least
<1>2. k \in 1 .. n /\ k - 1 \in 0 .. n
  BY DEF Failing
<1>3. a[k - 1] <= b[k - 1]
  BY <1>1, <1>2 DEF Failing
<1>4. a[k] > b[k] /\ a[k] - a[k - 1] <= b[k] - b[k - 1]
  BY <1>2 DEF Failing
<1>5. a[k] \in Nat /\ b[k] \in Nat /\ a[k - 1] \in Nat /\ b[k - 1] \in Nat
  BY <1>2
<1> QED BY <1>3, <1>4, <1>5

\* What satisfies a recursive definition of partial sums is one.
LEMMA RecursionIsPartialSums ==
  ASSUME NEW n \in Nat, NEW w, \A i \in 1 .. n : w[i] \in Nat,
         NEW f, f = [i \in 0 .. n |-> IF i = 0 THEN 0 ELSE f[i - 1] + w[i]]
  PROVE  PartialSums(f, w, n)
<1>1. \A i \in 0 .. n : f[i] = IF i = 0 THEN 0 ELSE f[i - 1] + w[i]
  OBVIOUS
<1> DEFINE Failing == {k \in 0 .. n : f[k] \notin Nat}
<1>2. ASSUME Failing # {} PROVE FALSE
  <2>1. PICK k \in Failing : \A m \in Failing : k <= m
    <3>1. Failing \subseteq Nat
      BY DEF Failing
    <3> HIDE DEF Failing
    <3> QED BY <1>2, <3>1, Least
  <2>2. k \in 1 .. n /\ k - 1 \in 0 .. n /\ k - 1 < k
    BY <1>1 DEF Failing
  <2>3. f[k - 1] \in Nat
    BY <2>1, <2>2 DEF Failing
  <2>4. f[k] = f[k - 1] + w[k]
    BY <1>1, <2>2
  <2> QED BY <2>2, <2>3, <2>4 DEF Failing
<1>3. \A i \in 0 .. n : f[i] \in Nat
  BY <1>2 DEF Failing
<1>4. f \in [0 .. n -> Nat]
  BY <1>3
<1>5. f[0] = 0 /\ \A i \in 1 .. n : f[i] = f[i - 1] + w[i]
  BY <1>1
<1> QED BY <1>4, <1>5 DEF PartialSums

\* A history whose tokens can be added up.
Countable(h) == Len(h) \in Nat /\ \A i \in 1 .. Len(h) : h[i].tok \in Nat

\* The recursive definitions of Sum and Total are those of partial sums.
LEMMA SumRuns ==
  ASSUME NEW s, Countable(s)
  PROVE  \E f : /\ PartialSums(f, [i \in 1 .. Len(s) |-> s[i].tok], Len(s))
                /\ Sum(s) = f[Len(s)]
<1> DEFINE w == [i \in 1 .. Len(s) |-> s[i].tok]
           Eq(f) == f = [i \in 0 .. Len(s) |-> IF i = 0 THEN 0 ELSE f[i - 1] + s[i].tok]
           F == CHOOSE f : Eq(f)
<1>0. Len(s) \in Nat /\ \A i \in 1 .. Len(s) : w[i] \in Nat
  BY DEF Countable
<1>1. PICK g : PartialSums(g, w, Len(s))
  <2> HIDE DEF w
  <2> QED BY <1>0, PartialSumsExist
<1>2. Eq(g)
  <2>1. ASSUME NEW i \in 0 .. Len(s)
        PROVE  g[i] = IF i = 0 THEN 0 ELSE g[i - 1] + s[i].tok
    BY <1>1 DEF PartialSums, Countable
  <2>2. g \in [0 .. Len(s) -> Nat]
    BY <1>1 DEF PartialSums
  <2> QED BY <2>1, <2>2
<1>3. Eq(F)
  BY <1>2
<1>4. Sum(s) = F[Len(s)]
  BY DEF Sum
<1>5. F = [i \in 0 .. Len(s) |-> IF i = 0 THEN 0 ELSE F[i - 1] + w[i]]
  <2>1. ASSUME NEW i \in 0 .. Len(s), i # 0
        PROVE  w[i] = s[i].tok
    BY <1>0, <2>1
  <2> HIDE DEF F, w
  <2> QED BY <1>3, <2>1
<1>6. PartialSums(F, w, Len(s))
  <2> HIDE DEF F, w, Eq
  <2> QED BY <1>0, <1>5, RecursionIsPartialSums
<1> HIDE DEF F
<1> QED BY <1>4, <1>6

LEMMA TotalRuns ==
  ASSUME NEW h, Countable(h), NEW P
  PROVE  \E f : /\ PartialSums(f, [i \in 1 .. Len(h) |-> IF i \in P THEN h[i].tok ELSE 0], Len(h))
                /\ Limit!Total(h, P) = f[Len(h)]
<1> DEFINE w == [i \in 1 .. Len(h) |-> IF i \in P THEN h[i].tok ELSE 0]
           Eq(f) == f = [i \in 0 .. Len(h) |->
                           IF i = 0 THEN 0
                           ELSE f[i - 1] + (IF i \in P THEN h[i].tok ELSE 0)]
           F == CHOOSE f : Eq(f)
<1>0. Len(h) \in Nat /\ \A i \in 1 .. Len(h) : w[i] \in Nat
  BY DEF Countable
<1>1. PICK g : PartialSums(g, w, Len(h))
  <2> HIDE DEF w
  <2> QED BY <1>0, PartialSumsExist
<1>2. Eq(g)
  <2>1. ASSUME NEW i \in 0 .. Len(h)
        PROVE  g[i] = IF i = 0 THEN 0 ELSE g[i - 1] + (IF i \in P THEN h[i].tok ELSE 0)
    BY <1>1 DEF PartialSums, Countable
  <2>2. g \in [0 .. Len(h) -> Nat]
    BY <1>1 DEF PartialSums
  <2> QED BY <2>1, <2>2
<1>3. Eq(F)
  BY <1>2
<1>4. Limit!Total(h, P) = F[Len(h)]
  BY DEF Limit!Total
<1>5. F = [i \in 0 .. Len(h) |-> IF i = 0 THEN 0 ELSE F[i - 1] + w[i]]
  <2>1. ASSUME NEW i \in 0 .. Len(h), i # 0
        PROVE  w[i] = IF i \in P THEN h[i].tok ELSE 0
    BY <1>0, <2>1
  <2> HIDE DEF F, w
  <2> QED BY <1>3, <2>1
<1>6. PartialSums(F, w, Len(h))
  <2> HIDE DEF F, w, Eq
  <2> QED BY <1>0, <1>5, RecursionIsPartialSums
<1> HIDE DEF F
<1> QED BY <1>4, <1>6

LEMMA SumType ==
  ASSUME NEW s, Countable(s)
  PROVE  Sum(s) \in Nat
BY SumRuns DEF PartialSums, Countable

LEMMA TotalType ==
  ASSUME NEW h, Countable(h), NEW P
  PROVE  Limit!Total(h, P) \in Nat
BY TotalRuns DEF PartialSums, Countable

\* More positions, no fewer tokens.
LEMMA TotalMonotone ==
  ASSUME NEW h, Countable(h), NEW P, NEW Q,
         \A i \in 1 .. Len(h) : i \in P => i \in Q
  PROVE  Limit!Total(h, P) <= Limit!Total(h, Q)
<1> DEFINE v == [i \in 1 .. Len(h) |-> IF i \in P THEN h[i].tok ELSE 0]
           w == [i \in 1 .. Len(h) |-> IF i \in Q THEN h[i].tok ELSE 0]
<1>1. PICK f : PartialSums(f, v, Len(h)) /\ Limit!Total(h, P) = f[Len(h)]
  BY TotalRuns
<1>2. PICK g : PartialSums(g, w, Len(h)) /\ Limit!Total(h, Q) = g[Len(h)]
  BY TotalRuns
<1>3. \A i \in 1 .. Len(h) : v[i] \in Nat /\ w[i] \in Nat /\ v[i] <= w[i]
  BY DEF Countable
<1>4. /\ Len(h) \in Nat
      /\ f \in [0 .. Len(h) -> Nat] /\ g \in [0 .. Len(h) -> Nat]
      /\ f[0] <= g[0]
  BY <1>1, <1>2 DEF PartialSums, Countable
<1>5. ASSUME NEW i \in 1 .. Len(h)
      PROVE  f[i] - f[i - 1] <= g[i] - g[i - 1]
  <2> HIDE DEF v, w
  <2>1. f[i] = f[i - 1] + v[i] /\ g[i] = g[i - 1] + w[i]
    BY <1>1, <1>2 DEF PartialSums
  <2>2. i - 1 \in 0 .. Len(h)
    BY <1>4
  <2>3. f[i - 1] \in Nat /\ g[i - 1] \in Nat
    BY <1>4, <2>2
  <2> QED BY <1>3, <2>1, <2>3
<1>6. f[Len(h)] <= g[Len(h)]
  BY <1>4, <1>5, Climb
<1> QED BY <1>1, <1>2, <1>6

\* Only positions of the history count.
LEMMA TotalSame ==
  ASSUME NEW h, Countable(h), NEW P, NEW Q,
         \A i \in 1 .. Len(h) : i \in P <=> i \in Q
  PROVE  Limit!Total(h, P) = Limit!Total(h, Q)
BY TotalMonotone, TotalType

\* The total of a history's last answers is the sum of a window that holds them.
LEMMA TotalOfSuffix ==
  ASSUME NEW h, Countable(h), NEW s, Countable(s), NEW k \in Nat,
         Len(h) = k + Len(s),
         \A i \in 1 .. Len(s) : s[i].tok = h[k + i].tok
  PROVE  Limit!Total(h, (k + 1) .. Len(h)) = Sum(s)
<1> DEFINE v == [i \in 1 .. Len(h) |-> IF i \in (k + 1) .. Len(h) THEN h[i].tok ELSE 0]
           w == [i \in 1 .. Len(s) |-> s[i].tok]
<1>0. Len(h) \in Nat /\ Len(s) \in Nat
  BY DEF Countable
<1>1. PICK f : PartialSums(f, v, Len(h)) /\ Limit!Total(h, (k + 1) .. Len(h)) = f[Len(h)]
  BY TotalRuns
<1>2. PICK g : PartialSums(g, w, Len(s)) /\ Sum(s) = g[Len(s)]
  BY SumRuns
<1>3. \A i \in 1 .. k : v[i] = 0
  BY <1>0
<1>4. \A i \in 1 .. Len(s) : v[k + i] = w[i] /\ w[i] \in Nat
  BY <1>0 DEF Countable
<1>5. f \in [0 .. Len(h) -> Nat] /\ f[0] = 0 /\ g \in [0 .. Len(s) -> Nat] /\ g[0] = 0
  BY <1>1, <1>2 DEF PartialSums
<1>6. \A i \in 1 .. Len(h) : f[i] = f[i - 1] + v[i]
  BY <1>1 DEF PartialSums
<1>7. \A i \in 1 .. Len(s) : g[i] = g[i - 1] + w[i]
  BY <1>2 DEF PartialSums
<1> HIDE DEF v, w
<1>8. f[k] = 0
  <2> DEFINE a == [i \in 0 .. k |-> f[i]]
             z == [i \in 0 .. k |-> 0]
  <2>1. a \in [0 .. k -> Nat] /\ z \in [0 .. k -> Nat] /\ a[0] <= z[0]
    BY <1>0, <1>5
  <2>2. ASSUME NEW i \in 1 .. k PROVE a[i] - a[i - 1] <= z[i] - z[i - 1]
    <3>1. f[i] = f[i - 1] + v[i] /\ v[i] = 0 /\ i - 1 \in 0 .. k
      BY <1>0, <1>3, <1>6
    <3>2. f[i - 1] \in Nat
      BY <1>0, <1>5, <3>1
    <3> QED BY <3>1, <3>2
  <2>3. a[k] <= z[k]
    <3> HIDE DEF a, z
    <3> QED BY <2>1, <2>2, Climb
  <2>4. a[k] = f[k] /\ z[k] = 0 /\ f[k] \in Nat
    BY <1>0, <1>5
  <2> QED BY <2>3, <2>4
<1> DEFINE b == [i \in 0 .. Len(s) |-> f[k + i]]
<1>9. b \in [0 .. Len(s) -> Nat] /\ b[0] = 0 /\ b[Len(s)] = f[Len(h)]
  BY <1>0, <1>5, <1>8
<1>10. ASSUME NEW i \in 1 .. Len(s)
       PROVE  /\ b[i] - b[i - 1] <= g[i] - g[i - 1]
              /\ g[i] - g[i - 1] <= b[i] - b[i - 1]
  <2>1. k + i \in 1 .. Len(h) /\ i - 1 \in 0 .. Len(s) /\ k + (i - 1) = (k + i) - 1
    BY <1>0
  <2>2. f[k + i] = f[(k + i) - 1] + v[k + i] /\ v[k + i] = w[i] /\ w[i] \in Nat
    BY <1>4, <1>6, <2>1
  <2>3. g[i] = g[i - 1] + w[i] /\ g[i - 1] \in Nat
    BY <1>5, <1>7, <2>1
  <2>4. b[i] = f[k + i] /\ b[i - 1] = f[(k + i) - 1]
    BY <1>0, <2>1
  <2>5. b[i - 1] \in Nat
    <3> HIDE DEF b
    <3> QED BY <1>9, <2>1
  <2> HIDE DEF b
  <2> QED BY <2>2, <2>3, <2>4, <2>5
<1> HIDE DEF b
<1>11. b[Len(s)] <= g[Len(s)]
  <2>1. Len(s) \in Nat /\ b \in [0 .. Len(s) -> Nat] /\ g \in [0 .. Len(s) -> Nat] /\ b[0] <= g[0]
    BY <1>0, <1>5, <1>9
  <2>2. \A i \in 1 .. Len(s) : b[i] - b[i - 1] <= g[i] - g[i - 1]
    BY <1>10
  <2> QED BY <2>1, <2>2, Climb
<1>12. g[Len(s)] <= b[Len(s)]
  <2>1. Len(s) \in Nat /\ g \in [0 .. Len(s) -> Nat] /\ b \in [0 .. Len(s) -> Nat] /\ g[0] <= b[0]
    BY <1>0, <1>5, <1>9
  <2>2. \A i \in 1 .. Len(s) : g[i] - g[i - 1] <= b[i] - b[i - 1]
    BY <1>10
  <2> QED BY <2>1, <2>2, Climb
<1>13. b[Len(s)] \in Nat /\ g[Len(s)] \in Nat
  BY <1>0, <1>5, <1>9
<1> QED BY <1>1, <1>2, <1>9, <1>11, <1>12, <1>13

\* One more answer adds its tokens, or nothing.
LEMMA TotalAppend ==
  ASSUME NEW h, Countable(h), NEW j, Countable(j), Len(j) = Len(h) + 1,
         \A i \in 1 .. Len(h) : j[i].tok = h[i].tok,
         NEW P
  PROVE  Limit!Total(j, P) =
           Limit!Total(h, P) + (IF Len(j) \in P THEN j[Len(j)].tok ELSE 0)
<1> DEFINE v == [i \in 1 .. Len(h) |-> IF i \in P THEN h[i].tok ELSE 0]
           w == [i \in 1 .. Len(j) |-> IF i \in P THEN j[i].tok ELSE 0]
<1>0. Len(h) \in Nat /\ Len(j) \in Nat
  BY DEF Countable
<1>1. PICK f : PartialSums(f, v, Len(h)) /\ Limit!Total(h, P) = f[Len(h)]
  BY TotalRuns
<1>2. PICK g : PartialSums(g, w, Len(j)) /\ Limit!Total(j, P) = g[Len(j)]
  BY TotalRuns
<1>3. \A i \in 1 .. Len(h) : v[i] = w[i] /\ v[i] \in Nat
  BY <1>0 DEF Countable
<1>4. w[Len(j)] = IF Len(j) \in P THEN j[Len(j)].tok ELSE 0
  BY <1>0
<1> DEFINE b == [i \in 0 .. Len(h) |-> g[i]]
<1>5. f \in [0 .. Len(h) -> Nat] /\ f[0] = 0 /\ g \in [0 .. Len(j) -> Nat] /\ g[0] = 0
  BY <1>1, <1>2 DEF PartialSums
<1>6. \A i \in 1 .. Len(h) : f[i] = f[i - 1] + v[i]
  BY <1>1 DEF PartialSums
<1>7. \A i \in 1 .. Len(j) : g[i] = g[i - 1] + w[i]
  BY <1>2 DEF PartialSums
<1> HIDE DEF v, w
<1>8. b \in [0 .. Len(h) -> Nat] /\ b[0] = 0 /\ b[Len(h)] = g[Len(h)]
  BY <1>0, <1>5
<1>9. ASSUME NEW i \in 1 .. Len(h)
      PROVE  /\ b[i] - b[i - 1] <= f[i] - f[i - 1]
             /\ f[i] - f[i - 1] <= b[i] - b[i - 1]
  <2>1. i \in 1 .. Len(j) /\ i - 1 \in 0 .. Len(h)
    BY <1>0
  <2>2. g[i] = g[i - 1] + v[i] /\ f[i] = f[i - 1] + v[i] /\ v[i] \in Nat
    BY <1>3, <1>6, <1>7, <2>1
  <2>3. b[i] = g[i] /\ b[i - 1] = g[i - 1]
    BY <2>1
  <2>4. b[i - 1] \in Nat /\ f[i - 1] \in Nat
    <3> HIDE DEF b
    <3> QED BY <1>5, <1>8, <2>1
  <2> HIDE DEF b
  <2> QED BY <2>2, <2>3, <2>4
<1> HIDE DEF b
<1>10. b[Len(h)] <= f[Len(h)]
  <2>1. Len(h) \in Nat /\ b \in [0 .. Len(h) -> Nat] /\ f \in [0 .. Len(h) -> Nat] /\ b[0] <= f[0]
    BY <1>0, <1>5, <1>8
  <2>2. \A i \in 1 .. Len(h) : b[i] - b[i - 1] <= f[i] - f[i - 1]
    BY <1>9
  <2> QED BY <2>1, <2>2, Climb
<1>11. f[Len(h)] <= b[Len(h)]
  <2>1. Len(h) \in Nat /\ f \in [0 .. Len(h) -> Nat] /\ b \in [0 .. Len(h) -> Nat] /\ f[0] <= b[0]
    BY <1>0, <1>5, <1>8
  <2>2. \A i \in 1 .. Len(h) : f[i] - f[i - 1] <= b[i] - b[i - 1]
    BY <1>9
  <2> QED BY <2>1, <2>2, Climb
<1>12. b[Len(h)] \in Nat /\ f[Len(h)] \in Nat
  BY <1>0, <1>5, <1>8
<1>13. g[Len(j)] = g[Len(h)] + w[Len(j)]
  BY <1>0, <1>7
<1> QED BY <1>1, <1>2, <1>4, <1>8, <1>10, <1>11, <1>12, <1>13

-----------------------------------------------------------------------------
(* The window and the history. *)

\* w is the end of the history, and what came before it has expired.
EndOfLog(w) ==
  /\ w \in Seq([at : 0 .. now, tok : Tokens])
  /\ Len(w) <= Len(log)
  /\ \A i \in 1 .. Len(w) : /\ w[i].at = log[Len(log) - Len(w) + i].at
                            /\ w[i].tok = log[Len(log) - Len(w) + i].tok
  /\ \A i \in 1 .. (Len(log) - Len(w)) : Expired(log[i])

\* ... and nothing in it has.
Exact(w) ==
  /\ EndOfLog(w)
  /\ \A i \in (Len(log) - Len(w) + 1) .. Len(log) : ~Expired(log[i])

Sorted == \A i, k \in 1 .. Len(log) : i < k => log[i].at <= log[k].at

WindowInv == EndOfLog(window) /\ Sorted

\* The counter of the day lies between today's tokens of today's requests and
\* all of today's; a stale counter is of a day before any request of today.
DayInv ==
  /\ \A r \in Slots : since[r] <= date
  /\ \A i \in 1 .. Len(log) : log[i].since <= date
  /\ date = day => /\ Limit!Spent(Limit!Sure) <= daily
                   /\ daily <= Limit!Spent(Limit!Today)

IInv == TypeOK /\ WindowInv /\ DayInv

LogEntry == [at : 0 .. now, day : 0 .. day, tok : Tokens, since : 0 .. day]

LEMMA LogType ==
  ASSUME TypeOK
  PROVE  /\ log \in Seq(LogEntry) /\ Len(log) \in Nat /\ DOMAIN log = 1 .. Len(log)
         /\ \A i \in 1 .. Len(log) : /\ log[i] \in LogEntry
                                     /\ log[i].at \in 0 .. now /\ log[i].at \in Nat
                                     /\ log[i].day \in 0 .. day /\ log[i].since \in 0 .. day
                                     /\ log[i].tok \in Tokens /\ log[i].tok \in Nat
         /\ Countable(log)
         /\ now \in Nat /\ day \in Nat
<1>1. log \in Seq(LogEntry) /\ now \in Nat /\ day \in Nat
  BY KeyWindowAssumption DEF TypeOK, LogEntry
<1>2. Len(log) \in Nat /\ DOMAIN log = 1 .. Len(log) /\ \A i \in 1 .. Len(log) : log[i] \in LogEntry
  BY <1>1
<1>3. ASSUME NEW i \in 1 .. Len(log)
      PROVE  /\ log[i].at \in 0 .. now /\ log[i].at \in Nat
             /\ log[i].day \in 0 .. day /\ log[i].since \in 0 .. day
             /\ log[i].tok \in Tokens /\ log[i].tok \in Nat
  <2>1. log[i] \in [at : 0 .. now, day : 0 .. day, tok : Tokens, since : 0 .. day]
    BY <1>2 DEF LogEntry
  <2>2. /\ log[i].at \in 0 .. now /\ log[i].day \in 0 .. day
        /\ log[i].tok \in Tokens /\ log[i].since \in 0 .. day
    BY <2>1
  <2>3. log[i].tok \in Nat
    BY <2>2, KeyWindowAssumption
  <2> QED BY <1>1, <2>2, <2>3
<1> QED BY <1>1, <1>2, <1>3 DEF Countable

LEMMA WindowCountable ==
  ASSUME NEW n, NEW w \in Seq([at : 0 .. n, tok : Tokens])
  PROVE  Countable(w) /\ Len(w) \in Nat /\ \A i \in 1 .. Len(w) : w[i].at \in 0 .. n /\ w[i].tok \in Tokens
<1>1. Len(w) \in Nat
  OBVIOUS
<1>2. ASSUME NEW i \in 1 .. Len(w)
      PROVE  w[i].at \in 0 .. n /\ w[i].tok \in Tokens /\ w[i].tok \in Nat
  <2>1. w[i] \in [at : 0 .. n, tok : Tokens]
    BY ElementOfSeq
  <2>2. w[i].at \in 0 .. n /\ w[i].tok \in Tokens
    BY <2>1
  <2> QED BY <2>2, KeyWindowAssumption
<1> QED BY <1>1, <1>2 DEF Countable

\* Cleaning up leaves exactly the unexpired end of the history.
LEMMA KeptExact ==
  ASSUME TypeOK, WindowInv
  PROVE  Exact(Kept)
<1> DEFINE fresh == {i \in DOMAIN window : ~Expired(window[i])}
           lost == Len(log) - Len(window)
<1>1. /\ window \in Seq([at : 0 .. now, tok : Tokens]) /\ Len(window) \in Nat
      /\ DOMAIN window = 1 .. Len(window)
      /\ Len(log) \in Nat /\ lost \in Nat /\ now \in Nat
      /\ \A i \in 1 .. Len(window) : window[i] \in [at : 0 .. now, tok : Tokens]
  <2>1. window \in Seq([at : 0 .. now, tok : Tokens]) /\ Len(window) <= Len(log)
    BY DEF WindowInv, EndOfLog
  <2>2. Len(window) \in Nat /\ DOMAIN window = 1 .. Len(window)
        /\ \A i \in 1 .. Len(window) : window[i] \in [at : 0 .. now, tok : Tokens]
    BY <2>1, ElementOfSeq, LenProperties
  <2>3. Len(log) \in Nat /\ now \in Nat
    BY LogType
  <2> QED BY <2>1, <2>2, <2>3
<1>2. \A i \in 1 .. Len(window) : /\ window[i].at = log[lost + i].at
                                  /\ window[i].tok = log[lost + i].tok
                                  /\ lost + i \in 1 .. Len(log)
  BY <1>1 DEF WindowInv, EndOfLog
<1>3. \A i \in 1 .. lost : Expired(log[i])
  BY DEF WindowInv, EndOfLog
<1>4. CASE fresh = {}
  <2>1. Kept = <<>>
    BY <1>4 DEF Kept
  <2>2. ASSUME NEW i \in 1 .. Len(log) PROVE Expired(log[i])
    <3>1. CASE i <= lost
      BY <1>1, <1>3, <3>1
    <3>2. CASE i > lost
      <4>1. i - lost \in 1 .. Len(window) /\ lost + (i - lost) = i
        BY <1>1, <3>2
      <4>2. Expired(window[i - lost])
        BY <1>1, <1>4, <4>1
      <4> QED BY <1>2, <4>1, <4>2 DEF Expired
    <3> QED BY <1>1, <3>1, <3>2
  <2>3. <<>> \in Seq([at : 0 .. now, tok : Tokens]) /\ Len(<<>>) = 0
    OBVIOUS
  <2>4. EndOfLog(<<>>)
    BY <1>1, <2>2, <2>3 DEF EndOfLog
  <2> QED BY <1>1, <2>1, <2>3, <2>4 DEF Exact
<1>5. CASE fresh # {}
  <2>1. PICK first \in fresh : \A k \in fresh : first <= k
    <3>1. fresh \subseteq Nat
      BY <1>1
    <3> HIDE DEF fresh
    <3> QED BY <1>5, <3>1, Least
  <2> DEFINE j == CHOOSE i \in fresh : \A k \in fresh : i <= k
  <2>2. j \in fresh /\ \A k \in fresh : j <= k
    BY <2>1
  <2>3. Kept = SubSeq(window, j, Len(window))
    BY <1>5 DEF Kept
  <2> HIDE DEF j
  <2>4. j \in 1 .. Len(window) /\ ~Expired(window[j])
    BY <1>1, <2>2
  <2>5. \A i \in 1 .. (j - 1) : Expired(window[i])
    <3> SUFFICES ASSUME NEW i \in 1 .. (j - 1), ~Expired(window[i]) PROVE FALSE
      OBVIOUS
    <3>1. i \in DOMAIN window /\ ~(j <= i)
      BY <1>1, <2>4
    <3>2. i \in fresh
      BY <3>1
    <3> QED BY <2>2, <3>1, <3>2
  <2> HIDE DEF fresh
  <2> DEFINE kept == SubSeq(window, j, Len(window))
  <2>6. /\ kept \in Seq([at : 0 .. now, tok : Tokens])
        /\ Len(kept) = Len(window) - j + 1
        /\ \A i \in 1 .. Len(kept) : kept[i] = window[j + i - 1]
    BY <1>1, <2>4
  <2> HIDE DEF kept
  <2>7. ASSUME NEW i \in 1 .. Len(kept)
        PROVE  /\ kept[i].at = log[Len(log) - Len(kept) + i].at
               /\ kept[i].tok = log[Len(log) - Len(kept) + i].tok
    <3>1. j + i - 1 \in 1 .. Len(window) /\ lost + (j + i - 1) = Len(log) - Len(kept) + i
      BY <1>1, <2>4, <2>6
    <3> HIDE DEF lost
    <3> QED BY <1>2, <2>6, <3>1
  <2>8. ASSUME NEW i \in 1 .. (Len(log) - Len(kept)) PROVE Expired(log[i])
    <3>1. i \in 1 .. (lost + j - 1)
      BY <1>1, <2>4, <2>6
    <3>2. CASE i <= lost
      BY <1>1, <1>3, <3>1, <3>2
    <3>3. CASE i > lost
      <4>1. i - lost \in 1 .. (j - 1) /\ i - lost \in 1 .. Len(window) /\ lost + (i - lost) = i
        BY <1>1, <2>4, <3>1, <3>3
      <4> HIDE DEF lost
      <4> QED BY <1>2, <2>5, <4>1 DEF Expired
    <3> QED BY <1>1, <3>1, <3>2, <3>3
  <2>9. ASSUME NEW i \in (Len(log) - Len(kept) + 1) .. Len(log) PROVE ~Expired(log[i])
    <3>1. lost + j \in 1 .. Len(log) /\ i \in 1 .. Len(log) /\ lost + j <= i
      BY <1>1, <2>4, <2>6
    <3>2. log[lost + j].at <= log[i].at /\ log[lost + j].at \in Nat /\ log[i].at \in Nat
      BY <3>1, LogType DEF WindowInv, Sorted
    <3>3. ~Expired(log[lost + j])
      <4> HIDE DEF lost
      <4> QED BY <1>2, <2>4 DEF Expired
    <3> QED BY <1>1, <3>2, <3>3, KeyWindowAssumption DEF Expired
  <2>10. EndOfLog(kept)
    <3>1. Len(kept) <= Len(log)
      BY <1>1, <2>4, <2>6
    <3> HIDE DEF lost
    <3> QED BY <2>6, <2>7, <2>8, <3>1 DEF EndOfLog
  <2> QED BY <2>3, <2>9, <2>10 DEF Exact, kept
<1> QED BY <1>4, <1>5

\* What is exactly the end of the history has the numbers of the history.
LEMMA ExactIsRecent ==
  ASSUME TypeOK, NEW w, Exact(w)
  PROVE  /\ Cardinality(Limit!Recent) = Len(w)
         /\ Limit!Spent(Limit!Recent) = Sum(w)
<1> DEFINE k == Len(log) - Len(w)
<1>1. /\ w \in Seq([at : 0 .. now, tok : Tokens]) /\ Len(w) \in Nat /\ Len(w) <= Len(log)
      /\ Len(log) \in Nat /\ k \in Nat /\ Len(log) = k + Len(w)
      /\ \A i \in 1 .. Len(w) : w[i].tok = log[k + i].tok
  BY LogType DEF Exact, EndOfLog
<1>2. \A i \in 1 .. Len(log) : Expired(log[i]) <=> i <= k
  <2> SUFFICES ASSUME NEW i \in 1 .. Len(log) PROVE Expired(log[i]) <=> i <= k
    OBVIOUS
  <2>1. CASE i <= k
    <3>1. i \in 1 .. k
      BY <1>1, <2>1
    <3> QED BY <2>1, <3>1 DEF Exact, EndOfLog
  <2>2. CASE ~(i <= k)
    <3>1. i \in (k + 1) .. Len(log)
      BY <1>1, <2>2
    <3> QED BY <2>2, <3>1 DEF Exact
  <2> QED BY <2>1, <2>2
<1>3. Limit!Recent = (k + 1) .. Len(log)
  <2>1. ASSUME NEW i \in 1 .. Len(log)
        PROVE  log[i].at >= now - Window <=> i \in (k + 1) .. Len(log)
    <3>1. log[i].at \in Nat /\ now \in Nat /\ Window \in Nat
      BY LogType, KeyWindowAssumption
    <3>2. Expired(log[i]) <=> i <= k
      BY <1>2
    <3> QED BY <1>1, <3>1, <3>2 DEF Expired
  <2>2. DOMAIN log = 1 .. Len(log)
    BY LogType
  <2>3. (k + 1) .. Len(log) \subseteq 1 .. Len(log)
    BY <1>1
  <2> HIDE DEF k
  <2> QED BY <2>1, <2>2, <2>3 DEF Limit!Recent
<1>4. Cardinality((k + 1) .. Len(log)) = Len(w)
  <2>1. k + 1 \in Int /\ Len(log) \in Int
    BY <1>1
  <2>2. Cardinality((k + 1) .. Len(log)) = IF k + 1 > Len(log) THEN 0 ELSE Len(log) - (k + 1) + 1
    <3> HIDE DEF k
    <3> QED BY <2>1, FS_Interval
  <2> QED BY <1>1, <2>2
<1>5. Limit!Total(log, (k + 1) .. Len(log)) = Sum(w)
  <2>1. Countable(w) /\ Countable(log)
    BY <1>1, LogType, WindowCountable
  <2> HIDE DEF k
  <2> QED BY <1>1, <2>1, TotalOfSuffix
<1> QED BY <1>3, <1>4, <1>5 DEF Limit!Spent

-----------------------------------------------------------------------------
(* The invariant. *)

LEMMA InitIInv == Init => IInv
<1> SUFFICES ASSUME Init PROVE IInv
  OBVIOUS
<1>1. TypeOK
  <2>1. <<>> \in Seq([at : 0 .. now, tok : Tokens]) /\ <<>> \in Seq(LogEntry)
    OBVIOUS
  <2> QED BY <2>1, KeyWindowAssumption DEF Init, TypeOK, LogEntry
<1>2. Len(log) = 0 /\ Len(window) = 0
  BY DEF Init
<1>3. WindowInv
  <2>1. window \in Seq([at : 0 .. now, tok : Tokens])
    BY DEF Init
  <2> QED BY <1>2, <2>1 DEF WindowInv, EndOfLog, Sorted
<1>4. Limit!Spent(Limit!Sure) = 0 /\ Limit!Spent(Limit!Today) = 0
  <2>1. ASSUME NEW P PROVE Limit!Total(log, P) = 0
    <3>1. Countable(log)
      BY <1>2 DEF Countable
    <3> QED BY <1>2, <3>1, TotalRuns DEF PartialSums
  <2> QED BY <2>1 DEF Limit!Spent
<1>5. DayInv
  BY <1>2, <1>4 DEF Init, DayInv
<1> QED BY <1>1, <1>3, <1>5 DEF IInv

LEMMA TotalNone ==
  ASSUME NEW h, Countable(h), NEW P, \A i \in 1 .. Len(h) : i \notin P
  PROVE  Limit!Total(h, P) = 0
<1> DEFINE v == [i \in 1 .. Len(h) |-> IF i \in P THEN h[i].tok ELSE 0]
           z == [i \in 0 .. Len(h) |-> 0]
<1>0. Len(h) \in Nat /\ \A i \in 1 .. Len(h) : v[i] = 0
  BY DEF Countable
<1>1. PICK f : PartialSums(f, v, Len(h)) /\ Limit!Total(h, P) = f[Len(h)]
  BY TotalRuns
<1> HIDE DEF v
<1>2. /\ f \in [0 .. Len(h) -> Nat] /\ f[0] = 0
      /\ \A i \in 1 .. Len(h) : f[i] = f[i - 1] + v[i]
  BY <1>1 DEF PartialSums
<1>3. z \in [0 .. Len(h) -> Nat] /\ f[0] <= z[0]
  BY <1>0, <1>2
<1>4. ASSUME NEW i \in 1 .. Len(h) PROVE f[i] - f[i - 1] <= z[i] - z[i - 1]
  <2>1. f[i] = f[i - 1] /\ i - 1 \in 0 .. Len(h) /\ f[i] \in Nat
    BY <1>0, <1>2
  <2> QED BY <2>1
<1>5. f[Len(h)] <= z[Len(h)]
  <2> HIDE DEF z
  <2> QED BY <1>0, <1>2, <1>3, <1>4, Climb
<1>6. f[Len(h)] \in Nat /\ z[Len(h)] = 0
  BY <1>0, <1>2
<1> QED BY <1>1, <1>5, <1>6

\* The end of a sorted history is sorted.
LEMMA EndIsSorted ==
  ASSUME TypeOK, Sorted, NEW w, EndOfLog(w)
  PROVE  \A i, k \in DOMAIN w : i < k => w[i].at <= w[k].at
<1>1. /\ DOMAIN w = 1 .. Len(w) /\ Len(w) \in Nat /\ Len(log) \in Nat /\ Len(w) <= Len(log)
  <2>1. w \in Seq([at : 0 .. now, tok : Tokens]) /\ Len(w) <= Len(log)
    BY DEF EndOfLog
  <2> QED BY <2>1, LogType, LenProperties
<1> SUFFICES ASSUME NEW i \in 1 .. Len(w), NEW k \in 1 .. Len(w), i < k
             PROVE  w[i].at <= w[k].at
  BY <1>1
<1>2. /\ Len(log) - Len(w) + i \in 1 .. Len(log) /\ Len(log) - Len(w) + k \in 1 .. Len(log)
      /\ Len(log) - Len(w) + i < Len(log) - Len(w) + k
  BY <1>1
<1>3. log[Len(log) - Len(w) + i].at <= log[Len(log) - Len(w) + k].at
  BY <1>2 DEF Sorted
<1> QED BY <1>3 DEF EndOfLog

\* Cleaning up starts the day's counter anew, before any request of the day.
LEMMA CleanupStep ==
  ASSUME IInv, Cleanup, UNCHANGED <<now, day, log>>
  PROVE  /\ window' \in Seq([at : 0 .. now', tok : Tokens])
         /\ \A i, k \in DOMAIN window' : i < k => window'[i].at <= window'[k].at
         /\ daily' \in Nat /\ date' \in 0 .. day'
         /\ WindowInv'
         /\ \A i \in 1 .. Len(log) : log[i].since <= date'
         /\ Limit!Spent(Limit!Sure) <= daily' /\ daily' <= Limit!Spent(Limit!Today)
<1>1. Exact(Kept) /\ window' = Kept /\ date' = day
  BY KeptExact DEF IInv, Cleanup
<1>2. EndOfLog(Kept)
  BY <1>1 DEF Exact
<1>3. WindowInv'
  <2>1. EndOfLog(window)'
    BY <1>1, <1>2 DEF EndOfLog, Expired
  <2> QED BY <2>1 DEF WindowInv, IInv, Sorted
<1>4. window' \in Seq([at : 0 .. now', tok : Tokens])
  BY <1>1, <1>2 DEF EndOfLog
<1>5. \A i, k \in DOMAIN window' : i < k => window'[i].at <= window'[k].at
  BY <1>1, <1>2, EndIsSorted DEF IInv, WindowInv
<1>6. /\ date \in 0 .. day /\ day \in Nat /\ daily \in Nat
      /\ \A i \in 1 .. Len(log) : log[i].since <= date /\ log[i].since \in Nat
  BY LogType DEF IInv, DayInv, TypeOK
<1>7. daily' \in Nat /\ date' \in 0 .. day' /\ \A i \in 1 .. Len(log) : log[i].since <= date'
  BY <1>6 DEF Cleanup
<1>8. Limit!Spent(Limit!Sure) <= daily' /\ daily' <= Limit!Spent(Limit!Today)
  <2>1. CASE date = day
    BY <2>1 DEF Cleanup, IInv, DayInv
  <2>2. CASE date # day
    <3>1. \A i \in 1 .. Len(log) : i \notin Limit!Sure
      BY <1>6, <2>2 DEF Limit!Sure
    <3>2. Countable(log)
      BY LogType DEF IInv
    <3>3. Limit!Spent(Limit!Sure) = 0
      BY <3>1, <3>2, TotalNone DEF Limit!Spent
    <3>4. Limit!Spent(Limit!Today) \in Nat
      BY <3>2, TotalType DEF Limit!Spent
    <3> QED BY <2>2, <3>3, <3>4 DEF Cleanup
  <2> QED BY <2>1, <2>2
<1> QED BY <1>3, <1>4, <1>5, <1>7, <1>8

LEMMA CheckIInv ==
  ASSUME IInv, NEW r \in Slots, Check(r)
  PROVE  IInv'
<1>1. Cleanup /\ UNCHANGED <<now, day, log>> /\ date' = day
  BY DEF Check, Cleanup
<1>2. /\ phase' \in [Slots -> {"idle", "running", "refused"}]
      /\ since' \in [Slots -> 0 .. day]
      /\ \A q \in Slots : since'[q] <= day
  <2>1. day \in Nat /\ since \in [Slots -> 0 .. day] /\ phase \in [Slots -> {"idle", "running", "refused"}]
    BY LogType DEF IInv, TypeOK
  <2>2. since' = since \/ since' = [since EXCEPT ![r] = day]
    BY DEF Check
  <2>3. phase' = [phase EXCEPT ![r] = "refused"] \/ phase' = [phase EXCEPT ![r] = "running"]
    BY DEF Check
  <2>4. since' \in [Slots -> 0 .. day]
    BY <2>1, <2>2
  <2> QED BY <2>1, <2>3, <2>4
<1>3. TypeOK'
  BY <1>1, <1>2, CleanupStep DEF IInv, TypeOK
<1>4. WindowInv'
  BY <1>1, CleanupStep
<1>5. DayInv'
  <2>1. /\ \A i \in 1 .. Len(log) : log[i].since <= date'
        /\ Limit!Spent(Limit!Sure) <= daily' /\ daily' <= Limit!Spent(Limit!Today)
    BY <1>1, CleanupStep
  <2>2. Limit!Spent(Limit!Sure)' = Limit!Spent(Limit!Sure) /\ Limit!Spent(Limit!Today)' = Limit!Spent(Limit!Today)
    BY <1>1 DEF Limit!Spent, Limit!Sure, Limit!Today
  <2> QED BY <1>1, <1>2, <2>1, <2>2 DEF DayInv
<1> QED BY <1>3, <1>4, <1>5 DEF IInv

LEMMA SweepIInv ==
  ASSUME IInv, Sweep
  PROVE  IInv'
<1>1. Cleanup /\ UNCHANGED <<now, day, log>> /\ date' = day /\ UNCHANGED <<phase, since>>
  BY DEF Sweep, Cleanup
<1>2. TypeOK'
  BY <1>1, CleanupStep DEF IInv, TypeOK
<1>3. WindowInv'
  BY <1>1, CleanupStep
<1>4. DayInv'
  <2>1. /\ \A i \in 1 .. Len(log) : log[i].since <= date'
        /\ Limit!Spent(Limit!Sure) <= daily' /\ daily' <= Limit!Spent(Limit!Today)
    BY <1>1, CleanupStep
  <2>2. Limit!Spent(Limit!Sure)' = Limit!Spent(Limit!Sure) /\ Limit!Spent(Limit!Today)' = Limit!Spent(Limit!Today)
    BY <1>1 DEF Limit!Spent, Limit!Sure, Limit!Today
  <2>3. \A q \in Slots : since'[q] <= day
    <3>1. since \in [Slots -> 0 .. day] /\ day \in Nat
      BY LogType DEF IInv, TypeOK
    <3> QED BY <1>1, <3>1
  <2> QED BY <1>1, <2>1, <2>2, <2>3 DEF DayInv
<1> QED BY <1>2, <1>3, <1>4 DEF IInv

LEMMA RecordIInv ==
  ASSUME IInv, NEW r \in Slots, NEW t \in Tokens, Record(r, t)
  PROVE  IInv'
<1> DEFINE e == [at |-> now, day |-> day, tok |-> t, since |-> since[r]]
           n == Len(log) + 1
<1>1. /\ window' = Append(window, [at |-> now, tok |-> t]) /\ daily' = daily + t
      /\ log' = Append(log, e) /\ phase' = [phase EXCEPT ![r] = "idle"]
      /\ date' = date /\ now' = now /\ day' = day /\ since' = since
  BY DEF Record
<1>2. /\ log \in Seq(LogEntry) /\ Len(log) \in Nat /\ now \in Nat /\ day \in Nat
      /\ window \in Seq([at : 0 .. now, tok : Tokens]) /\ Len(window) \in Nat
      /\ Len(window) <= Len(log) /\ t \in Nat
      /\ daily \in Nat /\ since[r] \in 0 .. day
  <2>1. window \in Seq([at : 0 .. now, tok : Tokens]) /\ Len(window) <= Len(log)
    BY DEF IInv, WindowInv, EndOfLog
  <2>2. daily \in Nat /\ since \in [Slots -> 0 .. day]
    BY DEF IInv, TypeOK
  <2> QED BY <2>1, <2>2, LogType, LenProperties, KeyWindowAssumption DEF IInv
<1>3. e \in LogEntry /\ [at |-> now, tok |-> t] \in [at : 0 .. now, tok : Tokens]
  BY <1>2 DEF LogEntry
<1> HIDE DEF e
<1>4. /\ log' \in Seq(LogEntry) /\ Len(log') = n /\ log'[n] = e
      /\ \A i \in 1 .. Len(log) : log'[i] = log[i]
  BY <1>1, <1>2, <1>3, AppendProperties
<1>5. /\ window' \in Seq([at : 0 .. now, tok : Tokens]) /\ Len(window') = Len(window) + 1
      /\ window'[Len(window) + 1] = [at |-> now, tok |-> t]
      /\ \A i \in 1 .. Len(window) : window'[i] = window[i]
  BY <1>1, <1>2, <1>3, AppendProperties
<1>6. e.at = now /\ e.day = day /\ e.tok = t /\ e.since = since[r]
  BY DEF e
<1>7. EndOfLog(window)'
  <2>1. Len(window') <= Len(log') /\ Len(log') - Len(window') = Len(log) - Len(window)
    BY <1>2, <1>4, <1>5
  <2>2. ASSUME NEW i \in 1 .. Len(window')
        PROVE  /\ window'[i].at = log'[Len(log') - Len(window') + i].at
               /\ window'[i].tok = log'[Len(log') - Len(window') + i].tok
    <3>1. CASE i = Len(window) + 1
      <4>1. Len(log') - Len(window') + i = n
        BY <1>2, <1>4, <1>5, <3>1
      <4>2. window'[i].at = now /\ window'[i].tok = t
        BY <1>5, <3>1
      <4>3. log'[n].at = now /\ log'[n].tok = t
        BY <1>4, <1>6
      <4> QED BY <4>1, <4>2, <4>3
    <3>2. CASE i # Len(window) + 1
      <4>1. i \in 1 .. Len(window) /\ Len(log) - Len(window) + i \in 1 .. Len(log)
        <5>1. Len(window) \in Nat /\ Len(log) \in Nat /\ Len(window) <= Len(log)
          BY <1>2
        <5>2. i \in 1 .. (Len(window) + 1)
          BY <1>5
        <5>3. i \in 1 .. Len(window)
          BY ONLY <5>1, <5>2, <3>2
        <5> QED BY ONLY <5>1, <5>3
      <4>2. /\ window[i].at = log[Len(log) - Len(window) + i].at
            /\ window[i].tok = log[Len(log) - Len(window) + i].tok
        BY <4>1 DEF IInv, WindowInv, EndOfLog
      <4> QED BY <1>4, <1>5, <2>1, <4>1, <4>2
    <3> QED BY <3>1, <3>2
  <2>3. ASSUME NEW i \in 1 .. (Len(log') - Len(window')) PROVE Expired(log[i])
    BY <2>1 DEF IInv, WindowInv, EndOfLog
  <2>4. ASSUME NEW i \in 1 .. (Len(log') - Len(window')) PROVE log'[i].at < now' - Window
    <3>1. i \in 1 .. Len(log)
      BY <1>2, <2>1
    <3> QED BY <1>1, <1>4, <2>3, <3>1 DEF Expired
  <2> QED BY <1>1, <1>5, <2>1, <2>2, <2>4 DEF EndOfLog, Expired
<1>8. Sorted'
  <2> SUFFICES ASSUME NEW i \in 1 .. n, NEW k \in 1 .. n, i < k
               PROVE  log'[i].at <= log'[k].at
    BY <1>4 DEF Sorted
  <2>1. i \in 1 .. Len(log)
    BY <1>2
  <2>2. CASE k = n
    BY <1>2, <1>4, <1>6, <2>1, <2>2, LogType DEF IInv
  <2>3. CASE k # n
    <3>1. k \in 1 .. Len(log)
      BY <1>2, <2>3
    <3> QED BY <1>4, <2>1, <3>1 DEF IInv, WindowInv, Sorted
  <2> QED BY <2>2, <2>3
<1>9. TypeOK'
  <2>1. \A i, k \in DOMAIN window' : i < k => window'[i].at <= window'[k].at
    <3>1. DOMAIN window' = 1 .. (Len(window) + 1) /\ DOMAIN window = 1 .. Len(window)
      BY <1>2, <1>5, LenProperties
    <3> SUFFICES ASSUME NEW i \in 1 .. (Len(window) + 1), NEW k \in 1 .. (Len(window) + 1), i < k
                 PROVE  window'[i].at <= window'[k].at
      BY <3>1
    <3>2. i \in 1 .. Len(window)
      BY <1>2
    <3>3. CASE k = Len(window) + 1
      <4>1. window[i].at \in 0 .. now
        BY <1>2, <3>2, WindowCountable
      <4> QED BY <1>2, <1>5, <3>2, <3>3, <4>1
    <3>4. CASE k # Len(window) + 1
      <4>1. k \in 1 .. Len(window)
        <5>1. Len(window) \in Nat /\ k \in 1 .. (Len(window) + 1)
          BY <1>2
        <5> QED BY <3>4, <5>1
      <4> QED BY <1>5, <3>1, <3>2, <4>1 DEF IInv, TypeOK
    <3> QED BY <3>3, <3>4
  <2>2. phase' \in [Slots -> {"idle", "running", "refused"}]
    BY <1>1 DEF IInv, TypeOK
  <2>3. daily' \in Nat
    BY <1>1, <1>2
  <2> QED BY <1>1, <1>4, <1>5, <2>1, <2>2, <2>3 DEF IInv, TypeOK, LogEntry
<1>10. DayInv'
  <2>1. ASSUME NEW i \in 1 .. n PROVE log'[i].since <= date
    <3>1. CASE i = n
      BY <1>4, <1>6, <3>1 DEF IInv, DayInv
    <3>2. CASE i # n
      <4>1. i \in 1 .. Len(log)
        BY <1>2, <3>2
      <4> QED BY <1>4, <4>1 DEF IInv, DayInv
    <3> QED BY <3>1, <3>2
  <2>2. ASSUME date = day
        PROVE  /\ Limit!Spent(Limit!Sure)' <= daily'
               /\ daily' <= Limit!Spent(Limit!Today)'
    <3> DEFINE S == Limit!Sure
               T == Limit!Today
               SS == Limit!Sure'
               TT == Limit!Today'
    <3>1. /\ Countable(log) /\ Countable(log') /\ Len(log') = Len(log) + 1
          /\ \A i \in 1 .. Len(log) : log'[i].tok = log[i].tok
      <4>1. Countable(log)
        BY LogType DEF IInv
      <4>2. ASSUME NEW i \in 1 .. Len(log') PROVE log'[i].tok \in Nat
        <5>1. CASE i = n
          BY <1>2, <1>4, <1>6, <5>1
        <5>2. CASE i # n
          <6>1. i \in 1 .. Len(log)
            BY <1>2, <1>4, <5>2
          <6> QED BY <1>4, <4>1, <6>1 DEF Countable
        <5> QED BY <5>1, <5>2
      <4>3. Countable(log')
        BY <1>2, <1>4, <4>2 DEF Countable
      <4> QED BY <1>4, <4>1, <4>3
    <3>2. DOMAIN log = 1 .. Len(log) /\ DOMAIN log' = 1 .. n
      BY <1>2, <1>4, LenProperties
    <3>3. \A i \in 1 .. Len(log) : (i \in S <=> i \in SS) /\ (i \in T <=> i \in TT)
      BY <1>1, <1>2, <1>4, <3>2 DEF Limit!Sure, Limit!Today
    <3>4. n \in TT
      BY <1>1, <1>2, <1>4, <1>6, <3>2 DEF Limit!Today
    <3> HIDE DEF S, T, SS, TT
    <3>5. Limit!Total(log, SS) = Limit!Total(log, S) /\ Limit!Total(log, TT) = Limit!Total(log, T)
      BY <3>1, <3>3, TotalSame
    <3>6. /\ Limit!Total(log', SS) = Limit!Total(log, SS) + (IF Len(log') \in SS THEN log'[Len(log')].tok ELSE 0)
          /\ Limit!Total(log', TT) = Limit!Total(log, TT) + (IF Len(log') \in TT THEN log'[Len(log')].tok ELSE 0)
      BY <3>1, TotalAppend
    <3>7. /\ Limit!Total(log', SS) <= Limit!Total(log, S) + t
          /\ Limit!Total(log', TT) = Limit!Total(log, T) + t
      <4>1. Limit!Total(log, S) \in Nat /\ Limit!Total(log, T) \in Nat
        BY <3>1, TotalType
      <4> QED BY <1>2, <1>4, <1>6, <3>4, <3>5, <3>6, <4>1
    <3>8. Limit!Total(log, S) <= daily /\ daily <= Limit!Total(log, T)
      BY <2>2 DEF S, T, IInv, DayInv, Limit!Spent
    <3>9. Limit!Total(log, S) \in Nat /\ Limit!Total(log, T) \in Nat /\ Limit!Total(log', SS) \in Nat
      BY <3>1, TotalType
    <3>10. Limit!Total(log', SS) <= daily' /\ daily' <= Limit!Total(log', TT)
      BY <1>1, <1>2, <3>7, <3>8, <3>9
    <3> QED BY <3>10 DEF SS, TT, Limit!Spent
  <2>3. \A q \in Slots : since[q] <= date
    BY DEF IInv, DayInv
  <2> QED BY <1>1, <1>4, <2>1, <2>2, <2>3 DEF DayInv
<1> QED BY <1>7, <1>8, <1>9, <1>10 DEF IInv, WindowInv

LEMMA LeaveIInv ==
  ASSUME IInv, NEW r \in Slots, Leave(r)
  PROVE  IInv'
<1>1. UNCHANGED <<window, daily, date, now, day, since, log>> /\ phase' = [phase EXCEPT ![r] = "idle"]
  BY DEF Leave, state
<1>2. TypeOK'
  BY <1>1 DEF IInv, TypeOK
<1>3. WindowInv'
  BY <1>1 DEF IInv, WindowInv, EndOfLog, Sorted, Expired
<1>4. DayInv'
  BY <1>1 DEF IInv, DayInv, Limit!Spent, Limit!Sure, Limit!Today
<1> QED BY <1>2, <1>3, <1>4 DEF IInv

LEMMA TickIInv ==
  ASSUME IInv, Tick
  PROVE  IInv'
<1>1. UNCHANGED <<window, daily, date, day, phase, since, log>> /\ now' = now + 1 /\ now < MaxNow
  BY DEF Tick, state
<1>2. now \in Nat /\ now' \in Nat /\ Window \in Nat /\ now' \in 0 .. MaxNow
      /\ \A x \in 0 .. now : x \in 0 .. now'
  BY <1>1, LogType, KeyWindowAssumption DEF IInv
<1>3. /\ window' \in Seq([at : 0 .. now', tok : Tokens])
      /\ log' \in Seq([at : 0 .. now', day : 0 .. day', tok : Tokens, since : 0 .. day'])
  <2>1. /\ [at : 0 .. now, tok : Tokens] \subseteq [at : 0 .. now', tok : Tokens]
        /\ LogEntry \subseteq [at : 0 .. now', day : 0 .. day, tok : Tokens, since : 0 .. day]
    BY <1>2 DEF LogEntry
  <2>2. window \in Seq([at : 0 .. now, tok : Tokens]) /\ log \in Seq(LogEntry)
    BY LogType DEF IInv, TypeOK
  <2>3. window \in Seq([at : 0 .. now', tok : Tokens])
    BY <2>1, <2>2, SeqMonotonic
  <2>4. log \in Seq([at : 0 .. now', day : 0 .. day, tok : Tokens, since : 0 .. day])
    BY <2>1, <2>2, SeqMonotonic
  <2> QED BY <1>1, <2>3, <2>4
<1>4. TypeOK'
  BY <1>1, <1>2, <1>3 DEF IInv, TypeOK
<1>5. EndOfLog(window)'
  <2>1. Len(window) <= Len(log) /\ Len(log) - Len(window) <= Len(log)
        /\ Len(log) \in Nat /\ Len(window) \in Nat
    <3>1. window \in Seq([at : 0 .. now, tok : Tokens]) /\ Len(window) <= Len(log)
      BY DEF IInv, WindowInv, EndOfLog
    <3> QED BY <3>1, LogType, LenProperties DEF IInv
  <2>2. ASSUME NEW i \in 1 .. (Len(log) - Len(window)) PROVE log[i].at < now' - Window
    <3>1. log[i].at < now - Window
      BY DEF IInv, WindowInv, EndOfLog, Expired
    <3>2. log[i].at \in Nat
      <4>1. i \in 1 .. Len(log)
        BY <2>1
      <4> QED BY <4>1, LogType DEF IInv
    <3> QED BY <1>1, <1>2, <3>1, <3>2
  <2>3. Len(window) <= Len(log)
        /\ \A i \in 1 .. Len(window) : /\ window[i].at = log[Len(log) - Len(window) + i].at
                                       /\ window[i].tok = log[Len(log) - Len(window) + i].tok
    BY DEF IInv, WindowInv, EndOfLog
  <2> QED BY <1>1, <1>3, <2>2, <2>3 DEF EndOfLog, Expired
<1>6. Sorted' /\ DayInv'
  BY <1>1 DEF IInv, WindowInv, Sorted, DayInv, Limit!Spent, Limit!Sure, Limit!Today
<1> QED BY <1>4, <1>5, <1>6 DEF IInv, WindowInv

LEMMA MidnightIInv ==
  ASSUME IInv, Midnight
  PROVE  IInv'
<1>1. UNCHANGED <<window, daily, date, now, phase, since, log>> /\ day' = day + 1 /\ day < MaxDay
  BY DEF Midnight, state
<1>2. /\ day \in Nat /\ day' \in 0 .. MaxDay /\ day' > day
      /\ \A x \in 0 .. day : x \in 0 .. day'
  BY <1>1, LogType, KeyWindowAssumption DEF IInv
<1>3. log' \in Seq([at : 0 .. now', day : 0 .. day', tok : Tokens, since : 0 .. day'])
  <2>1. LogEntry \subseteq [at : 0 .. now, day : 0 .. day', tok : Tokens, since : 0 .. day']
    BY <1>2 DEF LogEntry
  <2> QED BY <1>1, <2>1, LogType, SeqMonotonic DEF IInv
<1>4. TypeOK'
  <2>1. date \in 0 .. day /\ since \in [Slots -> 0 .. day]
    BY DEF IInv, TypeOK
  <2>2. date' \in 0 .. day' /\ since' \in [Slots -> 0 .. day']
    BY <1>1, <1>2, <2>1
  <2> QED BY <1>1, <1>2, <1>3, <2>2 DEF IInv, TypeOK
<1>5. WindowInv'
  BY <1>1 DEF IInv, WindowInv, EndOfLog, Sorted, Expired
<1>6. DayInv'
  <2>1. date \in 0 .. day
    BY DEF IInv, TypeOK
  <2>2. date' # day'
    BY <1>1, <1>2, <2>1
  <2> QED BY <1>1, <2>2 DEF IInv, DayInv
<1> QED BY <1>4, <1>5, <1>6 DEF IInv

LEMMA StepIInv == IInv /\ [Next]_vars => IInv'
<1> SUFFICES ASSUME IInv, [Next]_vars PROVE IInv'
  OBVIOUS
<1>1. ASSUME NEW r \in Slots, Check(r) PROVE IInv'
  BY <1>1, CheckIInv
<1>2. ASSUME NEW r \in Slots, Leave(r) PROVE IInv'
  BY <1>2, LeaveIInv
<1>3. ASSUME NEW r \in Slots, NEW t \in Tokens, Record(r, t) PROVE IInv'
  BY <1>3, RecordIInv
<1>4. CASE Sweep
  BY <1>4, SweepIInv
<1>5. CASE Tick
  BY <1>5, TickIInv
<1>6. CASE Midnight
  BY <1>6, MidnightIInv
<1>7. CASE UNCHANGED vars
  <2>1. UNCHANGED <<window, daily, date, now, day, phase, since, log>>
    BY <1>7 DEF vars
  <2>2. TypeOK'
    BY <2>1 DEF IInv, TypeOK
  <2>3. WindowInv'
    BY <2>1 DEF IInv, WindowInv, EndOfLog, Sorted, Expired
  <2>4. DayInv'
    BY <2>1 DEF IInv, DayInv, Limit!Spent, Limit!Sure, Limit!Today
  <2> QED BY <2>2, <2>3, <2>4 DEF IInv
<1> QED BY <1>1, <1>2, <1>3, <1>4, <1>5, <1>6, <1>7 DEF Next

LEMMA Invariance == Spec => []IInv
BY InitIInv, StepIInv, PTL DEF Spec

\* The window stays in order of time, the counter of the day never is of a day
\* to come, and every variable keeps its type.
THEOREM TypeSafe == Spec => []TypeOK
<1>1. IInv => TypeOK
  BY DEF IInv
<1> QED BY <1>1, Invariance, PTL

-----------------------------------------------------------------------------
(* The verdicts. *)

\* The instance of SlidingLimit counts as this module does.
LEMMA SameCardinality ==
  ASSUME NEW S
  PROVE  Limit!Cardinality(S) = Cardinality(S)
BY DEF Limit!Cardinality, Cardinality

LEMMA CheckVerdict ==
  ASSUME IInv, NEW r \in Slots, Check(r)
  PROVE  Limit!Admit(r) \/ Limit!Refuse(r)
<1>1. /\ Cleanup /\ UNCHANGED <<now, day, log>> /\ phase[r] = "idle" /\ window' = Kept
  BY DEF Check, Cleanup
<1>2. /\ Cardinality(Limit!Recent) = Len(window') /\ Limit!Spent(Limit!Recent) = Sum(window')
      /\ Limit!Spent(Limit!Sure) <= daily' /\ daily' <= Limit!Spent(Limit!Today)
  BY <1>1, KeptExact, ExactIsRecent, CleanupStep DEF IInv
<1>3. /\ Len(window') \in Nat /\ Sum(window') \in Nat /\ daily' \in Nat
      /\ Limit!Spent(Limit!Sure) \in Nat /\ Limit!Spent(Limit!Today) \in Nat
      /\ Rpm \in Nat /\ Tpm \in Nat /\ Daily \in Nat
  <2>1. window' \in Seq([at : 0 .. now', tok : Tokens]) /\ daily' \in Nat
    BY <1>1, CleanupStep
  <2>2. Countable(window') /\ Len(window') \in Nat
    BY <2>1, WindowCountable
  <2>3. Countable(log)
    BY LogType DEF IInv
  <2> QED BY <2>1, <2>2, <2>3, SumType, TotalType, KeyWindowAssumption DEF Limit!Spent
<1>4. CASE Full(window', daily')
  <2>1. phase' = [phase EXCEPT ![r] = "refused"] /\ since' = since
    BY <1>4 DEF Check
  <2>2. \/ Rpm > 0 /\ Cardinality(Limit!Recent) >= Rpm
        \/ Tpm > 0 /\ Limit!Spent(Limit!Recent) >= Tpm
        \/ Daily > 0 /\ Limit!Spent(Limit!Today) >= Daily
    BY <1>2, <1>3, <1>4 DEF Full
  <2>3. now' = now /\ day' = day /\ log' = log
    BY <1>1
  <2>4. Limit!Cardinality(Limit!Recent) = Cardinality(Limit!Recent)
    BY SameCardinality
  <2> QED BY <1>1, <2>1, <2>2, <2>3, <2>4 DEF Limit!Refuse
<1>5. CASE ~Full(window', daily')
  <2>1. phase' = [phase EXCEPT ![r] = "running"] /\ since' = [since EXCEPT ![r] = day]
    BY <1>5 DEF Check
  <2>2. /\ Rpm > 0 => Cardinality(Limit!Recent) < Rpm
        /\ Tpm > 0 => Limit!Spent(Limit!Recent) < Tpm
        /\ Daily > 0 => Limit!Spent(Limit!Sure) < Daily
    BY <1>2, <1>3, <1>5 DEF Full
  <2>3. now' = now /\ day' = day /\ log' = log
    BY <1>1
  <2>4. Limit!Cardinality(Limit!Recent) = Cardinality(Limit!Recent)
    BY SameCardinality
  <2> QED BY <1>1, <2>1, <2>2, <2>3, <2>4 DEF Limit!Admit
<1> QED BY <1>4, <1>5

LEMMA StepVerdict == IInv /\ [Next]_vars => [Limit!Next]_Limit!vars
<1> SUFFICES ASSUME IInv, [Next]_vars PROVE [Limit!Next]_Limit!vars
  OBVIOUS
<1>1. ASSUME NEW r \in Slots, Check(r) PROVE Limit!Next
  BY <1>1, CheckVerdict DEF Limit!Next
<1>2. ASSUME NEW r \in Slots, Leave(r) PROVE Limit!Next
  <2>1. Limit!Leave(r)
    BY <1>2 DEF Leave, Limit!Leave
  <2> QED BY <2>1 DEF Limit!Next
<1>3. ASSUME NEW r \in Slots, NEW t \in Tokens, Record(r, t) PROVE Limit!Next
  <2>1. Limit!Answer(r)
    BY <1>3 DEF Record, Limit!Answer
  <2> QED BY <2>1 DEF Limit!Next
<1>4. CASE Sweep
  BY <1>4 DEF Sweep, Limit!vars
<1>5. CASE Tick
  <2>1. Limit!Tick
    BY <1>5 DEF Tick, Limit!Tick
  <2> QED BY <2>1 DEF Limit!Next
<1>6. CASE Midnight
  <2>1. Limit!Midnight
    BY <1>6 DEF Midnight, Limit!Midnight
  <2> QED BY <2>1 DEF Limit!Next
<1>7. CASE UNCHANGED vars
  BY <1>7 DEF vars, Limit!vars
<1> QED BY <1>1, <1>2, <1>3, <1>4, <1>5, <1>6, <1>7 DEF Next

\* LAZY CLEAN-UP LOSES AND KEEPS NOTHING.  Whatever requests, answers, sweeps
\* and midnights come in whatever order, the window the limiter keeps gives the
\* verdict that the history of all answers gives.
THEOREM LimiterImplementsHistory == Spec => VerdictsFromHistory
<1>1. Init => Limit!Init
  BY DEF Init, Limit!Init
<1> QED BY <1>1, StepVerdict, Invariance, PTL DEF Spec, VerdictsFromHistory, Limit!Spec

-----------------------------------------------------------------------------
(* The overshoot. *)

Running == {r \in Slots : phase[r] = "running"}

\* Answers of the window and requests under way, which will be answers.
RpmInv ==
  Rpm > 0 => Cardinality(Limit!Recent) + Cardinality(Running) <= Rpm + Cardinality(Slots) - 1

Counting ==
  /\ IsFiniteSet(Limit!Recent) /\ Cardinality(Limit!Recent) \in Nat
  /\ IsFiniteSet(Running) /\ Cardinality(Running) \in Nat
  /\ Cardinality(Running) <= Cardinality(Slots) /\ Cardinality(Slots) \in Nat

LEMMA Counts == TypeOK => Counting
<1> SUFFICES ASSUME TypeOK PROVE Counting
  OBVIOUS
<1>1. /\ Limit!Recent \in SUBSET (1 .. Len(log)) /\ IsFiniteSet(1 .. Len(log))
  <2>1. DOMAIN log = 1 .. Len(log) /\ Len(log) \in Nat
    BY LogType
  <2> QED BY <2>1, FS_Interval DEF Limit!Recent
<1>2. IsFiniteSet(Slots) /\ Running \in SUBSET Slots
  BY KeyWindowAssumption DEF Running
<1>3. IsFiniteSet(Limit!Recent)
  BY <1>1, FS_Subset
<1>4. IsFiniteSet(Running) /\ Cardinality(Running) <= Cardinality(Slots)
  BY <1>2, FS_Subset
<1> QED BY <1>2, <1>3, <1>4, FS_CardinalityType DEF Counting

LEMMA RpmInvStep == IInv /\ RpmInv /\ IInv' /\ [Next]_vars => RpmInv'
<1> SUFFICES ASSUME IInv, RpmInv, IInv', [Next]_vars, Rpm > 0
             PROVE  Cardinality(Limit!Recent') + Cardinality(Running') <= Rpm + Cardinality(Slots) - 1
  BY DEF RpmInv
<1>0. /\ Rpm \in Nat /\ Window \in Nat
      /\ IsFiniteSet(Limit!Recent) /\ Cardinality(Limit!Recent) \in Nat
      /\ IsFiniteSet(Running) /\ Cardinality(Running) \in Nat
      /\ IsFiniteSet(Limit!Recent') /\ Cardinality(Limit!Recent') \in Nat
      /\ IsFiniteSet(Running') /\ Cardinality(Running') \in Nat
      /\ Cardinality(Running) <= Cardinality(Slots) /\ Cardinality(Slots) \in Nat
      /\ Cardinality(Running') <= Cardinality(Slots)
      /\ Cardinality(Limit!Recent) + Cardinality(Running) <= Rpm + Cardinality(Slots) - 1
  <2>1. TypeOK /\ TypeOK'
    BY DEF IInv
  <2>2. Counting /\ Counting'
    BY <2>1, Counts, PTL
  <2> QED BY <2>2, KeyWindowAssumption DEF Counting, RpmInv
\* Nobody is admitted and nothing is answered.
<1>1. ASSUME Limit!Recent' \subseteq Limit!Recent, Running' \subseteq Running
      PROVE  Cardinality(Limit!Recent') + Cardinality(Running') <= Rpm + Cardinality(Slots) - 1
  <2>1. Cardinality(Limit!Recent') <= Cardinality(Limit!Recent)
    BY <1>0, <1>1, FS_Subset
  <2>2. Cardinality(Running') <= Cardinality(Running)
    BY <1>0, <1>1, FS_Subset
  <2> QED BY <1>0, <2>1, <2>2
<1>2. ASSUME now' = now, log' = log
      PROVE  Limit!Recent' = Limit!Recent
  BY <1>2 DEF Limit!Recent
<1>3. ASSUME NEW r \in Slots, Check(r)
      PROVE  Cardinality(Limit!Recent') + Cardinality(Running') <= Rpm + Cardinality(Slots) - 1
  <2>1. Limit!Recent' = Limit!Recent
    BY <1>2, <1>3 DEF Check
  <2>2. CASE Limit!Admit(r)
    <3>1. Limit!Cardinality(Limit!Recent) < Rpm
      BY <2>2 DEF Limit!Admit
    <3>2. Cardinality(Limit!Recent) < Rpm
      BY <3>1, SameCardinality
    <3> QED BY <1>0, <2>1, <3>2
  <2>3. CASE Limit!Refuse(r)
    <3>1. phase' = [phase EXCEPT ![r] = "refused"] /\ phase \in [Slots -> {"idle", "running", "refused"}]
      BY <2>3 DEF Limit!Refuse, IInv, TypeOK
    <3>2. Running' \subseteq Running
      BY <3>1 DEF Running
    <3> QED BY <1>1, <2>1, <3>2
  <2> QED BY <1>3, <2>2, <2>3, CheckVerdict
<1>4. ASSUME NEW r \in Slots, Leave(r)
      PROVE  Cardinality(Limit!Recent') + Cardinality(Running') <= Rpm + Cardinality(Slots) - 1
  <2>1. Limit!Recent' = Limit!Recent
    BY <1>2, <1>4 DEF Leave
  <2>2. phase' = [phase EXCEPT ![r] = "idle"] /\ phase \in [Slots -> {"idle", "running", "refused"}]
    BY <1>4 DEF Leave, IInv, TypeOK
  <2>3. Running' \subseteq Running
    BY <2>2 DEF Running
  <2> QED BY <1>1, <2>1, <2>3
<1>5. ASSUME NEW r \in Slots, NEW t \in Tokens, Record(r, t)
      PROVE  Cardinality(Limit!Recent') + Cardinality(Running') <= Rpm + Cardinality(Slots) - 1
  <2>1. Limit!Recent' \subseteq Limit!Recent \cup {Len(log) + 1}
    <3>1. /\ now' = now /\ log \in Seq(LogEntry) /\ Len(log) \in Nat
          /\ log' = Append(log, [at |-> now, day |-> day, tok |-> t, since |-> since[r]])
      BY <1>5, LogType DEF Record, IInv
    <3>2. DOMAIN log' = 1 .. (Len(log) + 1) /\ DOMAIN log = 1 .. Len(log)
      BY <3>1
    <3>3. ASSUME NEW i \in 1 .. Len(log) PROVE log'[i] = log[i]
      BY <3>1
    <3> QED BY <3>1, <3>2, <3>3 DEF Limit!Recent
  <2>2. Cardinality(Limit!Recent') <= Cardinality(Limit!Recent) + 1
    <3>1. /\ IsFiniteSet(Limit!Recent \cup {Len(log) + 1})
          /\ Cardinality(Limit!Recent \cup {Len(log) + 1}) <= Cardinality(Limit!Recent) + 1
      <4>1. /\ IsFiniteSet(Limit!Recent \cup {Len(log) + 1})
            /\ \/ Cardinality(Limit!Recent \cup {Len(log) + 1}) = Cardinality(Limit!Recent)
               \/ Cardinality(Limit!Recent \cup {Len(log) + 1}) = Cardinality(Limit!Recent) + 1
        BY <1>0, FS_AddElement
      <4> QED BY <1>0, <4>1
    <3>2. Cardinality(Limit!Recent') <= Cardinality(Limit!Recent \cup {Len(log) + 1})
      BY <2>1, <3>1, FS_Subset
    <3>3. Cardinality(Limit!Recent \cup {Len(log) + 1}) \in Nat
      BY <3>1, FS_CardinalityType
    <3> QED BY <1>0, <3>1, <3>2, <3>3
  <2>3. Running' = Running \ {r} /\ r \in Running
    <3>1. /\ phase' = [phase EXCEPT ![r] = "idle"] /\ phase[r] = "running"
          /\ phase \in [Slots -> {"idle", "running", "refused"}]
      BY <1>5 DEF Record, IInv, TypeOK
    <3> QED BY <3>1 DEF Running
  <2>4. Cardinality(Running') = Cardinality(Running) - 1
    BY <1>0, <2>3, FS_RemoveElement
  <2> QED BY <1>0, <2>2, <2>4
<1>6. CASE Tick
  <2>1. Limit!Recent' \subseteq Limit!Recent
    <3>1. now' = now + 1 /\ log' = log /\ now \in Nat
      BY <1>6, LogType DEF Tick, IInv
    <3>2. ASSUME NEW i \in DOMAIN log PROVE log[i].at \in Nat
      BY LogType DEF IInv
    <3>3. ASSUME NEW i \in DOMAIN log, log[i].at >= now' - Window PROVE log[i].at >= now - Window
      BY <1>0, <3>1, <3>2, <3>3
    <3> QED BY <3>1, <3>3 DEF Limit!Recent
  <2>2. Running' = Running
    BY <1>6 DEF Tick, Running
  <2> QED BY <1>1, <2>1, <2>2
<1>7. CASE Sweep \/ Midnight \/ UNCHANGED vars
  <2>1. now' = now /\ log' = log /\ phase' = phase
    BY <1>7 DEF Sweep, Midnight, vars
  <2>2. Running' = Running
    BY <2>1 DEF Running
  <2> QED BY <1>1, <1>2, <2>1, <2>2
<1> QED BY <1>3, <1>4, <1>5, <1>6, <1>7 DEF Next

\* LIMITS UNDER CONCURRENCY.  However the requests of a key overlap, the last
\* Window ticks never hold more answers than the rpm limit and one for each
\* other request that may be under way.
THEOREM RpmOvershootSafe == Spec => []RpmOvershoot
<1>1. Init => RpmInv
  <2> SUFFICES ASSUME Init, Rpm > 0
               PROVE  Cardinality(Limit!Recent) + Cardinality(Running) <= Rpm + Cardinality(Slots) - 1
      BY DEF RpmInv
  <2>1. Limit!Recent = {} /\ Running = {}
    BY DEF Init, Limit!Recent, Running
  <2>2. Cardinality(Slots) \in Nat /\ Rpm \in Nat
    BY KeyWindowAssumption, FS_CardinalityType
  <2> QED BY <2>1, <2>2, FS_EmptySet
<1>2. IInv /\ RpmInv => RpmOvershoot
  <2> SUFFICES ASSUME IInv, RpmInv, Rpm > 0
               PROVE  Cardinality(Limit!Recent) <= Rpm + Cardinality(Slots) - 1
      BY DEF RpmOvershoot
  <2>1. /\ Cardinality(Limit!Recent) \in Nat /\ Cardinality(Running) \in Nat
        /\ Cardinality(Slots) \in Nat /\ Rpm \in Nat
    BY Counts, KeyWindowAssumption DEF Counting, IInv
  <2> QED BY <2>1 DEF RpmInv
<1> QED BY <1>1, <1>2, RpmInvStep, Invariance, PTL DEF Spec
=============================================================================
