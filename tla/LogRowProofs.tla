---------------------------- MODULE LogRowProofs ----------------------------
(***************************************************************************)
(* LogRow for every number of requests, days, stops and errors: what ended *)
(* is recorded, and what a row names can be read back.                     *)
(***************************************************************************)
EXTENDS LogRow, TLAPS

USE DEF Days, Writes, NoFile, files, proc

-----------------------------------------------------------------------------
(* Types. *)

\* Only a file with a line has a torn one.
Opened == \A d \in Days : torn[d] => Len(lines[d]) # 0

LEMMA GrowType ==
  ASSUME NEW S, NEW s \in Seq(Seq(S)), Len(s) # 0, NEW c \in S
  PROVE  Extended(s, c) \in Seq(Seq(S)) /\ Len(Extended(s, c)) = Len(s)
<1>1. Len(s) \in 1 .. Len(s) /\ s[Len(s)] \in Seq(S)
  OBVIOUS
<1>2. Append(s[Len(s)], c) \in Seq(S)
  BY <1>1
<1> QED BY <1>1, <1>2 DEF Extended

LEMMA PutType ==
  ASSUME TypeOK, Opened, NEW d \in Days, NEW chunk \in Chunks, NEW ended \in BOOLEAN,
         Put(d, chunk, ended)
  PROVE  /\ lines' \in [Days -> Seq(Seq(Chunks))]
         /\ torn' \in [Days -> BOOLEAN]
         /\ Opened'
<1>1. lines \in [Days -> Seq(Seq(Chunks))] /\ torn \in [Days -> BOOLEAN]
  BY DEF TypeOK
<1>2. torn' = [torn EXCEPT ![d] = ~ended]
  BY DEF Put
<1>3. torn' \in [Days -> BOOLEAN]
  BY <1>1, <1>2
<1>4. lines[d] \in Seq(Seq(Chunks)) /\ <<chunk>> \in Seq(Chunks)
  BY <1>1
<1>5. CASE torn[d]
  <2>1. Len(lines[d]) # 0
    BY <1>5 DEF Opened
  <2>2. PICK file : file = Extended(lines[d], chunk)
    OBVIOUS
  <2>3. file \in Seq(Seq(Chunks)) /\ Len(file) = Len(lines[d])
    BY <1>4, <2>1, <2>2, GrowType
  <2>4. lines' = [lines EXCEPT ![d] = file]
    BY <1>5, <2>2 DEF Put
  <2>5. Len(file) # 0
    BY <1>4, <2>1, <2>3
  <2>6. lines' \in [Days -> Seq(Seq(Chunks))]
    BY <1>1, <2>3, <2>4
  <2>7. ASSUME NEW e \in Days, torn'[e] PROVE Len(lines'[e]) # 0
    BY <1>1, <1>2, <2>4, <2>5, <2>7 DEF Opened
  <2> QED BY <1>3, <2>6, <2>7 DEF Opened
<1>6. CASE ~torn[d]
  <2>1. lines' = [lines EXCEPT ![d] = Append(lines[d], <<chunk>>)]
    BY <1>6 DEF Put
  <2>2. Append(lines[d], <<chunk>>) \in Seq(Seq(Chunks)) /\ Len(Append(lines[d], <<chunk>>)) # 0
    <3>1. Append(lines[d], <<chunk>>) \in Seq(Seq(Chunks))
      BY <1>4
    <3>2. Len(Append(lines[d], <<chunk>>)) = Len(lines[d]) + 1 /\ Len(lines[d]) \in Nat
      BY <1>4
    <3> QED BY <3>1, <3>2
  <2>3. lines' \in [Days -> Seq(Seq(Chunks))]
    BY <1>1, <2>1, <2>2
  <2>4. ASSUME NEW e \in Days, torn'[e] PROVE Len(lines'[e]) # 0
    BY <1>1, <1>2, <2>1, <2>2, <2>4 DEF Opened
  <2> QED BY <1>3, <2>3, <2>4 DEF Opened
<1> QED BY <1>5, <1>6

Marks == {"none", "queued", "written", "done", "lost"}

LEMMA DoneType ==
  ASSUME TypeOK, NEW r \in Requests, NEW w \in Writes, Done(r, w)
  PROVE  /\ job' = [job EXCEPT ![r] = [job[r] EXCEPT ![w] = "done"]]
         /\ job' \in [Requests -> [Writes -> Marks]]
<1>1. job' = [job EXCEPT ![r] = [job[r] EXCEPT ![w] = "done"]]
  BY DEF Done
<1>2. job \in [Requests -> [Writes -> Marks]]
  BY DEF TypeOK, Marks
<1>3. [job[r] EXCEPT ![w] = "done"] \in [Writes -> Marks]
  BY <1>2 DEF Marks
<1> QED BY <1>1, <1>2, <1>3

LEMMA SpawnType ==
  ASSUME TypeOK, NEW r \in Requests, NEW ws \in SUBSET Writes, Spawn(r, ws)
  PROVE  /\ job' = [job EXCEPT ![r] = [w \in Writes |->
                                         IF w \in ws THEN "queued" ELSE job[r][w]]]
         /\ job' \in [Requests -> [Writes -> Marks]]
<1>1. job' = [job EXCEPT ![r] = [w \in Writes |->
                                   IF w \in ws THEN "queued" ELSE job[r][w]]]
  BY DEF Spawn
<1>2. job \in [Requests -> [Writes -> Marks]]
  BY DEF TypeOK, Marks
<1>3. [w \in Writes |-> IF w \in ws THEN "queued" ELSE job[r][w]] \in [Writes -> Marks]
  BY <1>2 DEF Marks
<1> QED BY <1>1, <1>2, <1>3

LEMMA ExcuseType ==
  ASSUME TypeOK, NEW r \in Requests, NEW why \in {"overtaken", "undone"}, Excuse(r, why)
  PROVE  excuse' \in [Requests -> SUBSET {"overtaken", "undone"}]
BY DEF TypeOK, Excuse

\* What the statement of a spawned task may do to the two rows and the excuse.
LEMMA TaskType ==
  ASSUME TypeOK, NEW r \in Requests,
         \/ InsertConv(r) \/ InsertLog(r) \/ CloseConv(r) \/ CloseLog(r)
         \/ StatementFails(r)
  PROVE  /\ job' \in [Requests -> [Writes -> Marks]]
         /\ row' \in [Requests -> [status : {"absent", "pending", "final"},
                                   file : Days \cup {NoFile}]]
         /\ conv' \in [Requests -> {"absent", "open", "ended"}]
         /\ excuse' \in [Requests -> SUBSET {"overtaken", "undone"}]
         /\ errors' \in 0..MaxErrors
         /\ UNCHANGED <<handler, since, wrote, lines, torn, deleting, day, stops>>
<1>1. \E w \in Writes : Done(r, w)
  BY DEF InsertConv, InsertLog, CloseConv, CloseLog, StatementFails
<1>2. job' \in [Requests -> [Writes -> Marks]]
  BY <1>1, DoneType
<1>3. UNCHANGED <<handler, since, wrote, lines, torn, deleting, day, stops>>
  BY <1>1 DEF Done
<1>4. UNCHANGED excuse \/ \E why \in {"overtaken", "undone"} : Excuse(r, why)
  BY DEF InsertConv, InsertLog, CloseConv, CloseLog, StatementFails
<1>5. excuse' \in [Requests -> SUBSET {"overtaken", "undone"}]
  BY <1>4, ExcuseType DEF TypeOK
<1>6. conv' \in [Requests -> {"absent", "open", "ended"}]
  BY DEF InsertConv, InsertLog, CloseConv, CloseLog, StatementFails, TypeOK
<1>7. row' \in [Requests -> [status : {"absent", "pending", "final"},
                             file : Days \cup {NoFile}]]
  <2>1. row \in [Requests -> [status : {"absent", "pending", "final"},
                              file : Days \cup {NoFile}]]
    BY DEF TypeOK
  <2>2. [status |-> "final", file |-> wrote[r]] \in
          [status : {"absent", "pending", "final"}, file : Days \cup {NoFile}]
    BY DEF TypeOK
  <2>3. [status |-> "pending", file |-> NoFile] \in
          [status : {"absent", "pending", "final"}, file : Days \cup {NoFile}]
    OBVIOUS
  <2>4. \/ row' = row
        \/ row' = [row EXCEPT ![r] = [status |-> "final", file |-> wrote[r]]]
        \/ row' = [row EXCEPT ![r] = [status |-> "pending", file |-> NoFile]]
    BY DEF InsertConv, InsertLog, CloseConv, CloseLog, StatementFails
  <2> QED BY <2>1, <2>2, <2>3, <2>4
<1>8. errors' \in 0..MaxErrors
  <2>1. errors \in 0..MaxErrors /\ MaxErrors \in Nat
    BY LogRowAssumption DEF TypeOK
  <2>2. errors' = errors \/ (errors < MaxErrors /\ errors' = errors + 1)
    BY DEF InsertConv, InsertLog, CloseConv, CloseLog, StatementFails
  <2> QED BY <2>1, <2>2
<1> QED BY <1>2, <1>3, <1>5, <1>6, <1>7, <1>8

LEMMA ContentType ==
  ASSUME TypeOK, Opened, NEW r \in Requests, WriteContent(r)
  PROVE  TypeOK' /\ Opened'
<1>1. job' = [job EXCEPT ![r] = [job[r] EXCEPT !["closeLog"] = "written"]]
  BY DEF WriteContent
<1>2. job' \in [Requests -> [Writes -> Marks]]
  <2>1. job \in [Requests -> [Writes -> Marks]]
    BY DEF TypeOK, Marks
  <2>2. [job[r] EXCEPT !["closeLog"] = "written"] \in [Writes -> Marks]
    BY <2>1 DEF Marks
  <2> QED BY <1>1, <2>1, <2>2
<1>3. since[r] .. day \subseteq Days
  <2>1. since[r] \in 0..MaxDay /\ day \in 0..MaxDay /\ MaxDay \in Nat
    BY LogRowAssumption DEF TypeOK
  <2> QED BY <2>1
<1>4. /\ lines' \in [Days -> Seq(Seq(Chunks))]
      /\ torn' \in [Days -> BOOLEAN]
      /\ Opened'
  <2>1. \A part \in {"whole", "cut", "inChar"} : [req |-> r, part |-> part] \in Chunks
    BY DEF Chunks
  <2>2. CASE UNCHANGED <<lines, torn>>
    BY <2>2 DEF TypeOK, Opened
  <2>3. ASSUME NEW d \in since[r] .. day, Put(d, [req |-> r, part |-> "whole"], TRUE)
        PROVE  /\ lines' \in [Days -> Seq(Seq(Chunks))] /\ torn' \in [Days -> BOOLEAN]
               /\ Opened'
    BY <1>3, <2>1, <2>3, PutType
  <2>4. ASSUME NEW d \in since[r] .. day, NEW part \in {"whole", "cut", "inChar"},
               Put(d, [req |-> r, part |-> part], FALSE)
        PROVE  /\ lines' \in [Days -> Seq(Seq(Chunks))] /\ torn' \in [Days -> BOOLEAN]
               /\ Opened'
    BY <1>3, <2>1, <2>4, PutType
  <2> QED BY <2>2, <2>3, <2>4 DEF WriteContent
<1>5. wrote' \in [Requests -> Days \cup {NoFile}]
  <2>1. wrote' = wrote \/ \E d \in Days : wrote' = [wrote EXCEPT ![r] = d]
    BY <1>3 DEF WriteContent, LogName
  <2> QED BY <2>1 DEF TypeOK
<1>6. errors' \in 0..MaxErrors
  <2>1. errors \in 0..MaxErrors /\ MaxErrors \in Nat
    BY LogRowAssumption DEF TypeOK
  <2>2. errors' = errors \/ (errors < MaxErrors /\ errors' = errors + 1)
    BY DEF WriteContent
  <2> QED BY <2>1, <2>2
<1>7. since' \in [Requests -> Days]
  <2>1. 0 \in Days
    BY LogRowAssumption
  <2> QED BY <2>1 DEF WriteContent, TypeOK
<1> QED BY <1>2, <1>4, <1>5, <1>6, <1>7 DEF WriteContent, TypeOK, Marks
LEMMA StepType == TypeOK /\ Opened /\ [Next]_vars => TypeOK' /\ Opened'
<1> SUFFICES ASSUME TypeOK, Opened, [Next]_vars PROVE TypeOK' /\ Opened'
  OBVIOUS
<1> USE LogRowAssumption
<1>1. ASSUME UNCHANGED files PROVE Opened'
  BY <1>1 DEF Opened
<1>2. ASSUME NEW r \in Requests, Begin(r) PROVE TypeOK' /\ Opened'
  <2>1. job' \in [Requests -> [Writes -> Marks]]
    BY <1>2, SpawnType DEF Begin
  <2>2. handler' \in [Requests -> {"before", "running", "closed", "dropped"}]
    BY <1>2 DEF Begin, TypeOK
  <2> QED BY <1>1, <1>2, <2>1, <2>2 DEF Begin, TypeOK, Marks
<1>3. ASSUME NEW r \in Requests, Finish(r) PROVE TypeOK' /\ Opened'
  <2>1. job' \in [Requests -> [Writes -> Marks]]
    BY <1>3, SpawnType DEF Finish
  <2>2. /\ handler' \in [Requests -> {"before", "running", "closed", "dropped"}]
        /\ since' \in [Requests -> Days]
    BY <1>3 DEF Finish, TypeOK
  <2> QED BY <1>1, <1>3, <2>1, <2>2 DEF Finish, TypeOK, Marks
<1>4. ASSUME NEW r \in Requests, Abandon(r) PROVE TypeOK' /\ Opened'
  BY <1>1, <1>4 DEF Abandon, TypeOK
<1>5. ASSUME NEW r \in Requests, \/ InsertConv(r) \/ InsertLog(r) \/ CloseConv(r)
                                 \/ CloseLog(r) \/ StatementFails(r)
      PROVE  TypeOK' /\ Opened'
  BY <1>1, <1>5, TaskType DEF TypeOK, Marks
<1>6. ASSUME NEW r \in Requests, WriteContent(r) PROVE TypeOK' /\ Opened'
  BY <1>6, ContentType
<1>7. CASE DeleteLogs
  <2>1. Absent \in [status : {"absent", "pending", "final"}, file : Days \cup {NoFile}]
    BY DEF Absent
  <2>2. excuse' \in [Requests -> SUBSET {"overtaken", "undone"}]
    BY <1>7 DEF DeleteLogs, TypeOK
  <2> QED BY <1>1, <1>7, <2>1, <2>2 DEF DeleteLogs, TypeOK
<1>8. CASE DeleteConvs
  <2>2. excuse' \in [Requests -> SUBSET {"overtaken", "undone"}]
    BY <1>8 DEF DeleteConvs, TypeOK
  <2> QED BY <1>1, <1>8, <2>2 DEF DeleteConvs, TypeOK
<1>9. CASE DeleteKey
  BY <1>1, <1>9 DEF DeleteKey, TypeOK
<1>10. CASE Midnight
  BY <1>1, <1>10 DEF Midnight, TypeOK
<1>11. CASE Restart
  <2>1. handler' \in [Requests -> {"before", "running", "closed", "dropped"}]
    BY <1>11 DEF Restart, TypeOK
  <2>2. job' \in [Requests -> [Writes -> Marks]]
    BY <1>11 DEF Restart, TypeOK, Marks
  <2>3. excuse' \in [Requests -> SUBSET {"overtaken", "undone"}]
    BY <1>11 DEF Restart, TypeOK
  <2>4. since' \in [Requests -> Days] /\ stops' \in 0..MaxStops
    BY <1>11 DEF Restart, TypeOK
  <2>5. deleting' \in {"no", "convs", "key", "gone"}
    BY <1>11 DEF Restart
  <2> QED BY <1>1, <1>11, <2>1, <2>2, <2>3, <2>4, <2>5 DEF Restart, TypeOK, Marks
<1>12. CASE UNCHANGED vars
  BY <1>1, <1>12 DEF vars, TypeOK
<1> QED BY <1>2, <1>3, <1>4, <1>5, <1>6, <1>7, <1>8, <1>9, <1>10, <1>11, <1>12 DEF Next

LEMMA InitType == Init => TypeOK /\ Opened
<1> SUFFICES ASSUME Init PROVE TypeOK /\ Opened
  OBVIOUS
<1>1. 0 \in 0..MaxDay /\ 0 \in 0..MaxStops /\ 0 \in 0..MaxErrors
  BY LogRowAssumption
<1>2. Absent \in [status : {"absent", "pending", "final"}, file : Days \cup {NoFile}]
  BY DEF Absent
<1>3. lines \in [Days -> Seq(Seq(Chunks))]
  BY DEF Init
<1>4. job \in [Requests -> [Writes -> Marks]]
  BY DEF Init, Marks
<1> QED BY <1>1, <1>2, <1>3, <1>4 DEF Init, TypeOK, Opened, Marks

\* Every variable keeps its type; no line is continued that is not there.
THEOREM TypeCorrect == Spec => []TypeOK
BY InitType, StepType, PTL DEF Spec

-----------------------------------------------------------------------------
(* The rows. *)

Inserts == {"insertConv", "insertLog"}
Closes == {"closeConv", "closeLog"}

\* A write is ordered when its handler gets there.
Ordered == \A r \in Requests :
  /\ handler[r] = "before" => \A w \in Inserts : job[r][w] = "none"
  /\ handler[r] # "before" => \A w \in Inserts : job[r][w] # "none"
  /\ handler[r] # "closed" => \A w \in Closes : job[r][w] = "none"
  /\ handler[r] = "closed" => \A w \in Closes : job[r][w] # "none"

\* Nothing was lost, and the rows are where their writes have brought them.
InStep(r) ==
  /\ \A w \in Writes : job[r][w] # "lost" /\ (job[r][w] = "written" => w = "closeLog")
  /\ job[r]["insertLog"] # "done" <=> row[r] = Absent
  /\ job[r]["insertConv"] # "done" <=> conv[r] = "absent"
  /\ job[r]["closeLog"] = "done" => row[r] = [status |-> "final", file |-> wrote[r]]
  /\ job[r]["closeConv"] = "done" => conv[r] = "ended"

RowInv == \A r \in Requests : excuse[r] = {} => InStep(r)

\* No handler gets anywhere that counts, and no write is ordered.
LEMMA SameOrders ==
  ASSUME Ordered,
         \A q \in Requests : \A v \in Writes : (job'[q][v] = "none") <=> (job[q][v] = "none"),
         \A q \in Requests : /\ (handler'[q] = "before") <=> (handler[q] = "before")
                             /\ (handler'[q] = "closed") <=> (handler[q] = "closed")
  PROVE  Ordered'
<1>1. ASSUME NEW q \in Requests, NEW v \in Inserts
      PROVE  (job'[q][v] = "none") <=> (job[q][v] = "none")
  BY DEF Inserts
<1>2. ASSUME NEW q \in Requests, NEW v \in Closes
      PROVE  (job'[q][v] = "none") <=> (job[q][v] = "none")
  BY DEF Closes
<1>3. ASSUME NEW q \in Requests
      PROVE  /\ handler'[q] = "before" => \A w \in Inserts : job'[q][w] = "none"
             /\ handler'[q] # "before" => \A w \in Inserts : job'[q][w] # "none"
  BY <1>1 DEF Ordered
<1>4. ASSUME NEW q \in Requests
      PROVE  /\ handler'[q] # "closed" => \A w \in Closes : job'[q][w] = "none"
             /\ handler'[q] = "closed" => \A w \in Closes : job'[q][w] # "none"
  BY <1>2 DEF Ordered
<1> QED BY <1>3, <1>4 DEF Ordered

LEMMA TaskOrders ==
  ASSUME TypeOK, Ordered, NEW r \in Requests, NEW w \in Writes, Done(r, w)
  PROVE  Ordered'
<1>1. job' = [job EXCEPT ![r] = [job[r] EXCEPT ![w] = "done"]]
  BY DoneType
<1>2. job \in [Requests -> [Writes -> Marks]]
  BY DEF TypeOK, Marks
<1>3. job[r][w] \in {"queued", "written"} /\ handler' = handler
  BY DEF Done
<1>4. ASSUME NEW q \in Requests, NEW v \in Writes
      PROVE  (job'[q][v] = "none") <=> (job[q][v] = "none")
  BY <1>1, <1>2, <1>3
<1> QED BY <1>3, <1>4, SameOrders

LEMMA StepOrders == TypeOK /\ Ordered /\ [Next]_vars => Ordered'
<1> SUFFICES ASSUME TypeOK, Ordered, [Next]_vars PROVE Ordered'
  OBVIOUS
<1>1. ASSUME UNCHANGED <<handler, job>> PROVE Ordered'
  BY <1>1 DEF Ordered
<1>2. ASSUME NEW r \in Requests, Begin(r) PROVE Ordered'
  <2>1. job' = [job EXCEPT ![r] = [w \in Writes |-> IF w \in Inserts THEN "queued" ELSE job[r][w]]]
    BY <1>2, SpawnType DEF Begin, Inserts
  <2>2. handler' = [handler EXCEPT ![r] = "running"] /\ handler[r] = "before"
    BY <1>2 DEF Begin
  <2> QED BY <2>1, <2>2 DEF Ordered, Inserts, Closes, TypeOK
<1>3. ASSUME NEW r \in Requests, Finish(r) PROVE Ordered'
  <2>1. job' = [job EXCEPT ![r] = [w \in Writes |-> IF w \in Closes THEN "queued" ELSE job[r][w]]]
    BY <1>3, SpawnType DEF Finish, Closes
  <2>2. handler' = [handler EXCEPT ![r] = "closed"] /\ handler[r] = "running"
    BY <1>3 DEF Finish
  <2> QED BY <2>1, <2>2 DEF Ordered, Inserts, Closes, TypeOK
<1>4. ASSUME NEW r \in Requests, Abandon(r) PROVE Ordered'
  BY <1>4 DEF Abandon, Ordered, TypeOK
<1>5. ASSUME NEW r \in Requests, \/ InsertConv(r) \/ InsertLog(r) \/ CloseConv(r)
                                 \/ CloseLog(r) \/ StatementFails(r)
      PROVE  Ordered'
  BY <1>5, TaskOrders DEF InsertConv, InsertLog, CloseConv, CloseLog, StatementFails
<1>6. ASSUME NEW r \in Requests, WriteContent(r) PROVE Ordered'
  <2>1. /\ job' = [job EXCEPT ![r] = [job[r] EXCEPT !["closeLog"] = "written"]]
        /\ job[r]["closeLog"] = "queued" /\ handler' = handler
    BY <1>6 DEF WriteContent
  <2>2. job \in [Requests -> [Writes -> Marks]]
    BY DEF TypeOK, Marks
  <2>3. ASSUME NEW q \in Requests, NEW v \in Writes
        PROVE  (job'[q][v] = "none") <=> (job[q][v] = "none")
    BY <2>1, <2>2
  <2> QED BY <2>1, <2>3, SameOrders
<1>7. CASE Restart
  <2>1. ASSUME NEW q \in Requests, NEW v \in Writes
        PROVE  (job'[q][v] = "none") <=> (job[q][v] = "none")
    BY <1>7 DEF Restart, Waiting
  <2>3. \A q \in Requests : /\ (handler'[q] = "before") <=> (handler[q] = "before")
                            /\ (handler'[q] = "closed") <=> (handler[q] = "closed")
    BY <1>7 DEF Restart
  <2> QED BY <2>1, <2>3, SameOrders
<1>8. CASE DeleteLogs \/ DeleteConvs \/ DeleteKey \/ Midnight \/ UNCHANGED vars
  BY <1>1, <1>8 DEF DeleteLogs, DeleteConvs, DeleteKey, Midnight, vars
<1> QED BY <1>2, <1>3, <1>4, <1>5, <1>6, <1>7, <1>8 DEF Next

\* Whatever happens to r, the others' rows stay in step.
LEMMA OthersInStep ==
  ASSUME TypeOK, RowInv, NEW r \in Requests,
         \A q \in Requests \ {r} :
           /\ job'[q] = job[q] /\ row'[q] = row[q] /\ conv'[q] = conv[q]
           /\ wrote'[q] = wrote[q] /\ excuse'[q] = excuse[q],
         excuse'[r] = {} => InStep(r)'
  PROVE  RowInv'
<1> SUFFICES ASSUME NEW q \in Requests, excuse'[q] = {} PROVE InStep(q)'
  BY DEF RowInv
<1>1. CASE q = r
  BY <1>1
<1>2. CASE q # r
  BY <1>2 DEF RowInv, InStep
<1> QED BY <1>1, <1>2

\* A task that has no excuse to make.
LEMMA TaskInStep ==
  ASSUME TypeOK, Ordered, RowInv, NEW r \in Requests,
         \/ InsertConv(r) \/ InsertLog(r) \/ CloseConv(r) \/ CloseLog(r)
         \/ StatementFails(r)
  PROVE  RowInv'
<1>1. PICK w \in Writes :
        /\ Done(r, w)
        /\ \/ StatementFails(r) \/ (w = "insertConv" /\ InsertConv(r))
           \/ (w = "insertLog" /\ InsertLog(r)) \/ (w = "closeConv" /\ CloseConv(r))
           \/ (w = "closeLog" /\ CloseLog(r))
  BY DEF InsertConv, InsertLog, CloseConv, CloseLog, StatementFails
<1>2. /\ job' = [job EXCEPT ![r] = [job[r] EXCEPT ![w] = "done"]]
      /\ job \in [Requests -> [Writes -> Marks]]
      /\ wrote' = wrote
  BY <1>1, DoneType DEF TypeOK, Marks, Done
<1>3. /\ job'[r][w] = "done" /\ \A v \in Writes \ {w} : job'[r][v] = job[r][v]
      /\ \A q \in Requests \ {r} : job'[q] = job[q]
  BY <1>2
<1>4. \A q \in Requests \ {r} : row'[q] = row[q] /\ conv'[q] = conv[q] /\ excuse'[q] = excuse[q]
  BY DEF InsertConv, InsertLog, CloseConv, CloseLog, StatementFails, Excuse, TypeOK
<1>5. ASSUME NEW why \in {"overtaken", "undone"}, Excuse(r, why) PROVE excuse'[r] # {}
  BY <1>5 DEF Excuse, TypeOK
<1>6. ASSUME excuse'[r] = {} PROVE InStep(r)'
  <2>1. UNCHANGED excuse /\ excuse[r] = {} /\ InStep(r)
    BY <1>5, <1>6 DEF InsertConv, InsertLog, CloseConv, CloseLog, StatementFails, RowInv
  <2>2. \A v \in Writes : job'[r][v] # "lost" /\ (job'[r][v] = "written" => v = "closeLog")
    BY <1>3, <2>1 DEF InStep
  <2>3. \A why \in {"overtaken", "undone"} : ~Excuse(r, why)
    BY <1>5, <1>6
  <2>4. job[r][w] \in {"queued", "written"}
    BY <1>1 DEF Done
  <2>5. CASE w = "insertConv" /\ InsertConv(r)
    <3>1. conv' = [conv EXCEPT ![r] = "open"] /\ row' = row
      BY <2>3, <2>5 DEF InsertConv
    <3>2. conv'[r] = "open" /\ row'[r] = row[r]
      BY <3>1 DEF TypeOK
    <3>3. job[r]["closeConv"] # "done"
      BY <2>1, <2>4, <2>5 DEF InStep
    <3> QED BY <1>2, <1>3, <2>1, <2>2, <2>5, <3>2, <3>3 DEF InStep
  <2>6. CASE w = "insertLog" /\ InsertLog(r)
    <3>1. row' = [row EXCEPT ![r] = [status |-> "pending", file |-> NoFile]] /\ conv' = conv
      BY <2>3, <2>6 DEF InsertLog
    <3>2. row'[r] = [status |-> "pending", file |-> NoFile] /\ row'[r] # Absent
      BY <3>1 DEF TypeOK, Absent
    <3>3. job[r]["closeLog"] # "done"
      BY <2>1, <2>4, <2>6 DEF InStep, Absent
    <3> QED BY <1>2, <1>3, <2>1, <2>2, <2>6, <3>1, <3>2, <3>3 DEF InStep
  <2>7. CASE w = "closeConv" /\ CloseConv(r)
    <3>1. job[r]["insertConv"] # "queued" /\ row' = row
      BY <2>3, <2>7 DEF CloseConv
    <3>2. job[r]["insertConv"] = "done" /\ conv[r] # "absent"
      <4>1. handler[r] # "before"
        BY <2>4, <2>7 DEF Ordered, Closes
      <4>2. job[r]["insertConv"] \notin {"none", "lost"}
        BY <2>1, <4>1 DEF Ordered, Inserts, InStep
      <4>3. job[r]["insertConv"] # "written"
        BY <2>1 DEF InStep
      <4> QED BY <1>2, <2>1, <3>1, <4>2, <4>3 DEF Marks, InStep
    <3>3. conv'[r] = "ended"
      BY <2>7, <3>2 DEF CloseConv, TypeOK
    <3> QED BY <1>2, <1>3, <2>1, <2>2, <2>7, <3>1, <3>2, <3>3 DEF InStep
  <2>8. CASE w = "closeLog" /\ CloseLog(r)
    <3>1. job[r]["insertLog"] # "queued" /\ conv' = conv
      BY <2>3, <2>8 DEF CloseLog
    <3>2. job[r]["insertLog"] = "done" /\ row[r] # Absent
      <4>1. handler[r] # "before"
        BY <2>4, <2>8 DEF Ordered, Closes
      <4>2. job[r]["insertLog"] \notin {"none", "lost"}
        BY <2>1, <4>1 DEF Ordered, Inserts, InStep
      <4>3. job[r]["insertLog"] # "written"
        BY <2>1 DEF InStep
      <4> QED BY <1>2, <2>1, <3>1, <4>2, <4>3 DEF Marks, InStep
    <3>3. row'[r] = [status |-> "final", file |-> wrote[r]] /\ row'[r] # Absent
      BY <2>8, <3>2 DEF CloseLog, TypeOK, Absent
    <3> QED BY <1>2, <1>3, <2>1, <2>2, <2>8, <3>1, <3>2, <3>3 DEF InStep
  <2>9. ~StatementFails(r)
    BY <2>3 DEF StatementFails
  <2> QED BY <1>1, <2>5, <2>6, <2>7, <2>8, <2>9
<1> QED BY <1>2, <1>3, <1>4, <1>6, OthersInStep

LEMMA StepInStep == TypeOK /\ Ordered /\ RowInv /\ [Next]_vars => RowInv'
<1> SUFFICES ASSUME TypeOK, Ordered, RowInv, [Next]_vars PROVE RowInv'
  OBVIOUS
<1>1. ASSUME UNCHANGED <<job, row, conv, wrote, excuse>> PROVE RowInv'
  BY <1>1 DEF RowInv, InStep
<1>2. ASSUME NEW r \in Requests, Begin(r) PROVE RowInv'
  <2>1. job' = [job EXCEPT ![r] = [w \in Writes |-> IF w \in Inserts THEN "queued" ELSE job[r][w]]]
    BY <1>2, SpawnType DEF Begin, Inserts
  <2>2. UNCHANGED <<row, conv, wrote, excuse>> /\ handler[r] = "before"
    BY <1>2 DEF Begin
  <2>3. /\ \A w \in Writes : job'[r][w] = IF w \in Inserts THEN "queued" ELSE job[r][w]
        /\ \A q \in Requests \ {r} : job'[q] = job[q]
    BY <2>1 DEF TypeOK
  <2>4. ASSUME excuse'[r] = {} PROVE InStep(r)'
    <3>1. InStep(r) /\ \A w \in Inserts : job[r][w] = "none"
      BY <2>2, <2>4 DEF RowInv, Ordered
    <3> QED BY <2>2, <2>3, <3>1 DEF InStep, Inserts
  <2> QED BY <2>2, <2>3, <2>4, OthersInStep
<1>3. ASSUME NEW r \in Requests, Finish(r) PROVE RowInv'
  <2>1. job' = [job EXCEPT ![r] = [w \in Writes |-> IF w \in Closes THEN "queued" ELSE job[r][w]]]
    BY <1>3, SpawnType DEF Finish, Closes
  <2>2. UNCHANGED <<row, conv, wrote, excuse>>
    BY <1>3 DEF Finish
  <2>3. /\ \A w \in Writes : job'[r][w] = IF w \in Closes THEN "queued" ELSE job[r][w]
        /\ \A q \in Requests \ {r} : job'[q] = job[q]
    BY <2>1 DEF TypeOK
  <2>4. ASSUME excuse'[r] = {} PROVE InStep(r)'
    <3>1. InStep(r)
      BY <2>2, <2>4 DEF RowInv
    <3> QED BY <2>2, <2>3, <3>1 DEF InStep, Closes
  <2> QED BY <2>2, <2>3, <2>4, OthersInStep
<1>4. ASSUME NEW r \in Requests, Abandon(r) PROVE RowInv'
  BY <1>1, <1>4 DEF Abandon
<1>5. ASSUME NEW r \in Requests, WriteContent(r) PROVE RowInv'
  <2>1. /\ job' = [job EXCEPT ![r] = [job[r] EXCEPT !["closeLog"] = "written"]]
        /\ job[r]["closeLog"] = "queued" /\ UNCHANGED <<row, conv, excuse>>
    BY <1>5 DEF WriteContent
  <2>2. \A q \in Requests \ {r} : wrote'[q] = wrote[q]
    BY <1>5 DEF WriteContent, TypeOK
  <2>3. job \in [Requests -> [Writes -> Marks]]
    BY DEF TypeOK, Marks
  <2>4. /\ job'[r]["closeLog"] = "written"
        /\ \A w \in Writes \ {"closeLog"} : job'[r][w] = job[r][w]
        /\ \A q \in Requests \ {r} : job'[q] = job[q]
    BY <2>1, <2>3
  <2>5. ASSUME excuse'[r] = {} PROVE InStep(r)'
    <3>1. InStep(r)
      BY <2>1, <2>5 DEF RowInv
    <3> QED BY <2>1, <2>4, <3>1 DEF InStep
  <2> QED BY <2>1, <2>2, <2>4, <2>5, OthersInStep
<1>6. CASE DeleteLogs
  <2> SUFFICES ASSUME NEW r \in Requests, excuse'[r] = {} PROVE InStep(r)'
    BY DEF RowInv
  <2>1. row[r] = Absent /\ excuse[r] = {}
    BY <1>6 DEF DeleteLogs, TypeOK
  <2>2. row'[r] = row[r] /\ UNCHANGED <<job, conv, wrote>>
    BY <1>6, <2>1 DEF DeleteLogs
  <2> QED BY <2>1, <2>2 DEF RowInv, InStep
<1>7. CASE DeleteConvs
  <2> SUFFICES ASSUME NEW r \in Requests, excuse'[r] = {} PROVE InStep(r)'
    BY DEF RowInv
  <2>1. conv[r] = "absent" /\ excuse[r] = {}
    BY <1>7 DEF DeleteConvs, TypeOK
  <2>2. conv'[r] = conv[r] /\ UNCHANGED <<job, row, wrote>>
    BY <1>7, <2>1 DEF DeleteConvs
  <2> QED BY <2>1, <2>2 DEF RowInv, InStep
<1>8. CASE Restart
  <2> SUFFICES ASSUME NEW r \in Requests, excuse'[r] = {} PROVE InStep(r)'
    BY DEF RowInv
  <2>1. excuse[r] = {} /\ \A w \in Writes : ~Waiting(r, w)
    BY <1>8 DEF Restart, TypeOK
  <2>2. \A w \in Writes : job'[r][w] = job[r][w]
    BY <1>8, <2>1 DEF Restart
  <2>3. UNCHANGED <<row, conv, wrote>>
    BY <1>8 DEF Restart
  <2> QED BY <2>1, <2>2, <2>3 DEF RowInv, InStep
<1>9. CASE DeleteKey \/ Midnight \/ UNCHANGED vars
  BY <1>1, <1>9 DEF DeleteKey, Midnight, vars
<1> QED BY <1>2, <1>3, <1>4, <1>5, <1>6, <1>7, <1>8, <1>9, TaskInStep DEF Next

LEMMA InitInStep == Init => Ordered /\ RowInv
<1> SUFFICES ASSUME Init PROVE Ordered /\ RowInv
  OBVIOUS
<1>1. \A r \in Requests : /\ handler[r] = "before" /\ row[r] = Absent /\ conv[r] = "absent"
                          /\ \A w \in Writes : job[r][w] = "none"
  BY DEF Init
<1> QED BY <1>1 DEF Ordered, RowInv, InStep, Inserts, Closes

\* Once the tasks of a closed request have run, row and conversation tell that it
\* ended and where its content is, unless something excuses it.
THEOREM RecordedSafe == Spec => []Recorded
<1>1. TypeOK /\ Ordered /\ RowInv => Recorded
  <2> SUFFICES ASSUME TypeOK, Ordered, RowInv, NEW r \in Requests, Finished(r), excuse[r] = {}
               PROVE  row[r] = [status |-> "final", file |-> wrote[r]] /\ conv[r] = "ended"
    BY DEF Recorded
  <2>1. InStep(r) /\ job[r] \in [Writes -> Marks]
    BY DEF RowInv, TypeOK, Marks
  <2>2. \A w \in Closes : job[r][w] = "done"
    BY <2>1 DEF Finished, Waiting, InStep, Ordered, Closes, Marks
  <2> QED BY <2>1, <2>2 DEF InStep, Closes
<1>2. Init => TypeOK /\ Opened /\ Ordered /\ RowInv
  BY InitType, InitInStep
<1>3. TypeOK /\ Opened /\ Ordered /\ RowInv /\ [Next]_vars
        => (TypeOK /\ Opened /\ Ordered /\ RowInv)'
  BY StepType, StepOrders, StepInStep
<1> QED BY <1>1, <1>2, <1>3, PTL DEF Spec
-----------------------------------------------------------------------------
(* The files. *)

Record(r) == [req |-> r, part |-> "whole"]

\* Who has written to a file does not write again.
Over(q) == handler[q] = "closed" /\ job[q]["closeLog"] \notin {"none", "queued"}

\* Line k of the file of d has its end.
Ended(d, k) == k \in 1 .. Len(lines[d]) /\ (torn[d] => k # Len(lines[d]))

\* Line k of the file of d ends with the record of r, and what is before it on
\* the line is of requests that have no record in that file.
Holds(d, k, r) ==
  LET line == lines[d][k] IN
  /\ Len(line) # 0 /\ line[Len(line)] = Record(r)
  /\ \A i \in 1 .. (Len(line) - 1) : line[i].req \in Requests /\ wrote[line[i].req] # d

\* A row that names a file names what was written; a request that has not come to
\* its file write has written nothing; one whose write succeeded has its record
\* at the end of an ended line; all chunks are of requests that are over; the
\* open line has only what failed writes have left.
Named == \A r \in Requests : row[r].file # NoFile => row[r].file = wrote[r]
Later == \A r \in Requests : job[r]["closeLog"] \in {"none", "queued"} => wrote[r] = NoFile
Found == \A r \in Requests, d \in Days :
           wrote[r] = d => \E k \in 1 .. Len(lines[d]) : Ended(d, k) /\ Holds(d, k, r)
Past == \A d \in Days : \A k \in 1 .. Len(lines[d]) : \A i \in 1 .. Len(lines[d][k]) :
          Over(lines[d][k][i].req)
Scraps == \A d \in Days : torn[d] =>
            \A i \in 1 .. Len(lines[d][Len(lines[d])]) :
              wrote[lines[d][Len(lines[d])][i].req] = NoFile

FileInv == Named /\ Later /\ Found /\ Past /\ Scraps

LEMMA AppendFacts ==
  ASSUME NEW S, NEW s \in Seq(S), NEW c \in S
  PROVE  /\ Len(Append(s, c)) = Len(s) + 1 /\ Append(s, c)[Len(s) + 1] = c
         /\ \A i \in 1 .. Len(s) : Append(s, c)[i] = s[i]
OBVIOUS

\* A write to the file of d leaves all ended lines as they are, and has its chunk
\* at the end of the last line, behind what was on the open line.
LEMMA PutLines ==
  ASSUME TypeOK, Opened, NEW d \in Days, NEW chunk \in Chunks, NEW ended \in BOOLEAN,
         Put(d, chunk, ended)
  PROVE  \E n \in Nat :
           /\ n = Len(lines'[d]) /\ n # 0
           /\ \A k \in 1 .. Len(lines[d]) : Ended(d, k) => k \in 1 .. (n - 1)
           /\ \A k \in 1 .. (n - 1) : k \in 1 .. Len(lines[d]) /\ lines'[d][k] = lines[d][k]
           /\ \E m \in Nat :
                /\ Len(lines'[d][n]) = m + 1 /\ lines'[d][n][m + 1] = chunk
                /\ m # 0 => torn[d] /\ n = Len(lines[d]) /\ m = Len(lines[d][n])
                /\ \A i \in 1 .. m : lines'[d][n][i] = lines[d][n][i]
<1>1. lines \in [Days -> Seq(Seq(Chunks))] /\ lines[d] \in Seq(Seq(Chunks))
  BY DEF TypeOK
<1>2. CASE torn[d]
  <2>1. lines'[d] = Extended(lines[d], chunk)
    BY <1>1, <1>2 DEF Put
  <2>2. PICK n \in Nat : n = Len(lines[d]) /\ n # 0
    BY <1>1, <1>2 DEF Opened
  <2>3. n \in 1 .. n /\ lines[d][n] \in Seq(Chunks)
    BY <1>1, <2>2
  <2>4. PICK m \in Nat : m = Len(lines[d][n])
    BY <2>3
  <2>5. Len(lines'[d]) = n
    BY <1>1, <2>1, <2>2, GrowType
  <2>6. lines'[d][n] = Append(lines[d][n], chunk)
    BY <1>1, <2>1, <2>2, <2>3 DEF Extended
  <2>7. \A k \in 1 .. (n - 1) : lines'[d][k] = lines[d][k]
    BY <1>1, <2>1, <2>2 DEF Extended
  <2>8. /\ Len(lines'[d][n]) = m + 1 /\ lines'[d][n][m + 1] = chunk
        /\ \A i \in 1 .. m : lines'[d][n][i] = lines[d][n][i]
    BY <2>3, <2>4, <2>6, AppendFacts
  <2>9. \A k \in 1 .. Len(lines[d]) : Ended(d, k) => k \in 1 .. (n - 1)
    BY <1>2, <2>2 DEF Ended
  <2>10. \A k \in 1 .. (n - 1) : k \in 1 .. Len(lines[d])
    BY <2>2
  <2>11. \E j \in Nat :
           /\ Len(lines'[d][n]) = j + 1 /\ lines'[d][n][j + 1] = chunk
           /\ j # 0 => torn[d] /\ n = Len(lines[d]) /\ j = Len(lines[d][n])
           /\ \A i \in 1 .. j : lines'[d][n][i] = lines[d][n][i]
    BY <1>2, <2>2, <2>4, <2>8
  <2>12. \A k \in 1 .. (n - 1) : k \in 1 .. Len(lines[d]) /\ lines'[d][k] = lines[d][k]
    BY <2>7, <2>10
  <2> QED BY <2>2, <2>5, <2>9, <2>11, <2>12
<1>3. CASE ~torn[d]
  <2>1. lines'[d] = Append(lines[d], <<chunk>>)
    BY <1>1, <1>3 DEF Put
  <2>2. PICK k0 \in Nat : k0 = Len(lines[d])
    BY <1>1
  <2>3. <<chunk>> \in Seq(Chunks)
    OBVIOUS
  <2>4. /\ Len(lines'[d]) = k0 + 1 /\ lines'[d][k0 + 1] = <<chunk>>
        /\ \A k \in 1 .. k0 : lines'[d][k] = lines[d][k]
    BY <1>1, <2>1, <2>2, <2>3, AppendFacts
  <2>5. PICK n \in Nat : n = k0 + 1
    BY <2>2
  <2>6. /\ Len(lines'[d][n]) = 0 + 1 /\ lines'[d][n][0 + 1] = chunk
        /\ \A i \in 1 .. 0 : lines'[d][n][i] = lines[d][n][i]
    <3>1. lines'[d][n] = <<chunk>>
      BY <2>4, <2>5
    <3>2. Len(<<chunk>>) = 0 + 1 /\ <<chunk>>[0 + 1] = chunk
      OBVIOUS
    <3>3. \A i \in 1 .. 0 : FALSE
      OBVIOUS
    <3> QED BY <3>1, <3>2, <3>3
  <2>7. \E m \in Nat :
          /\ Len(lines'[d][n]) = m + 1 /\ lines'[d][n][m + 1] = chunk
          /\ m # 0 => torn[d] /\ n = Len(lines[d]) /\ m = Len(lines[d][n])
          /\ \A i \in 1 .. m : lines'[d][n][i] = lines[d][n][i]
    <3>1. 0 \in Nat
      OBVIOUS
    <3> QED BY <2>6, <3>1
  <2>8. /\ n = Len(lines'[d]) /\ n # 0
        /\ \A k \in 1 .. Len(lines[d]) : Ended(d, k) => k \in 1 .. (n - 1)
        /\ \A k \in 1 .. (n - 1) : k \in 1 .. Len(lines[d]) /\ lines'[d][k] = lines[d][k]
    BY <2>2, <2>4, <2>5
  <2> QED BY <2>7, <2>8
<1> QED BY <1>2, <1>3

\* Where a step writes to no file, and what is over stays so, records stay.
LEMMA FilesStay ==
  ASSUME TypeOK, FileInv, UNCHANGED <<lines, torn, wrote>>,
         \A q \in Requests : Over(q) => Over(q)',
         Named', Later'
  PROVE  FileInv'
<1>1. Found'
  <2>1. \A d \in Days : \A k : Ended(d, k)' <=> Ended(d, k)
    BY DEF Ended
  <2>2. \A r \in Requests, d \in Days : \A k : Holds(d, k, r)' <=> Holds(d, k, r)
    BY DEF Holds
  <2>3. \A d \in Days : lines'[d] = lines[d]
    OBVIOUS
  <2> QED BY <2>1, <2>2, <2>3 DEF FileInv, Found
<1>2. Past'
  <2> SUFFICES ASSUME NEW d \in Days, NEW k \in 1 .. Len(lines[d]), NEW i \in 1 .. Len(lines[d][k])
               PROVE  Over(lines[d][k][i].req)'
    BY DEF Past
  <2>1. lines[d][k] \in Seq(Chunks)
    <3>1. lines[d] \in Seq(Seq(Chunks))
      BY DEF TypeOK
    <3> QED BY <3>1
  <2>2. lines[d][k][i] \in Chunks
    BY <2>1
  <2>3. lines[d][k][i].req \in Requests
    BY <2>2 DEF Chunks
  <2>4. Over(lines[d][k][i].req)
    BY DEF FileInv, Past
  <2> QED BY <2>3, <2>4
<1>3. Scraps'
  BY DEF FileInv, Scraps
<1> QED BY <1>1, <1>2, <1>3 DEF FileInv
LEMMA Single ==
  ASSUME NEW S, NEW s \in Seq(S), Len(s) = 1
  PROVE  s = <<s[1]>>
OBVIOUS

\* What one file write leaves, with or without an end.
LEMMA PutKeeps ==
  ASSUME TypeOK, Opened, FileInv, NEW r \in Requests, NEW d \in Days,
         NEW part \in {"whole", "cut", "inChar"}, NEW ended \in BOOLEAN,
         Put(d, [req |-> r, part |-> part], ended),
         ended => part = "whole" /\ wrote' = [wrote EXCEPT ![r] = d],
         ~ended => wrote' = wrote,
         ~Over(r), Over(r)', wrote[r] = NoFile,
         \A q \in Requests : Over(q) => Over(q)'
  PROVE  Found' /\ Past' /\ Scraps'
<1> DEFINE chunk == [req |-> r, part |-> part]
           Closed(q) == handler'[q] = "closed" /\ job'[q]["closeLog"] \notin {"none", "queued"}
<1>0. Closed(r) /\ \A q \in Requests : Over(q) => Closed(q)
  BY DEF Over
<1>1. chunk \in Chunks /\ chunk.req = r
  BY DEF Chunks
<1>a. PICK n \in Nat :
        /\ n = Len(lines'[d]) /\ n # 0
        /\ \A k \in 1 .. Len(lines[d]) : Ended(d, k) => k \in 1 .. (n - 1)
        /\ \A k \in 1 .. (n - 1) : k \in 1 .. Len(lines[d]) /\ lines'[d][k] = lines[d][k]
        /\ \E m \in Nat :
             /\ Len(lines'[d][n]) = m + 1 /\ lines'[d][n][m + 1] = chunk
             /\ m # 0 => torn[d] /\ n = Len(lines[d]) /\ m = Len(lines[d][n])
             /\ \A i \in 1 .. m : lines'[d][n][i] = lines[d][n][i]
  <2>1. Put(d, chunk, ended)
    OBVIOUS
  <2> HIDE DEF chunk
  <2> QED BY <1>1, <2>1, PutLines
<1> HIDE DEF chunk
<1>b. PICK m \in Nat :
        /\ Len(lines'[d][n]) = m + 1 /\ lines'[d][n][m + 1] = chunk
        /\ m # 0 => torn[d] /\ n = Len(lines[d]) /\ m = Len(lines[d][n])
        /\ \A i \in 1 .. m : lines'[d][n][i] = lines[d][n][i]
  BY <1>a
<1>3. /\ \A e \in Days \ {d} : lines'[e] = lines[e] /\ torn'[e] = torn[e]
      /\ torn'[d] = ~ended
  BY DEF Put, TypeOK
<1>4. ASSUME NEW e \in Days, NEW k \in 1 .. Len(lines[e]), NEW i \in 1 .. Len(lines[e][k])
      PROVE  /\ lines[e][k][i].req \in Requests /\ lines[e][k][i].req # r
             /\ Closed(lines[e][k][i].req)
             /\ wrote'[lines[e][k][i].req] = wrote[lines[e][k][i].req]
  <2>1. lines[e] \in Seq(Seq(Chunks))
    BY DEF TypeOK
  <2>2. lines[e][k] \in Seq(Chunks)
    BY <2>1
  <2>3. lines[e][k][i] \in Chunks
    BY <2>2
  <2>4. PICK q \in Requests : q = lines[e][k][i].req
    BY <2>3 DEF Chunks
  <2>5. Over(q)
    BY <2>4 DEF FileInv, Past
  <2>6. q # r /\ Closed(q)
    BY <1>0, <2>5
  <2>7. wrote'[q] = wrote[q]
    BY <2>6 DEF TypeOK
  <2> QED BY <2>4, <2>5, <2>6, <2>7
\* The chunks on the line that goes on.
<1>5. ASSUME NEW i \in 1 .. m
      PROVE  /\ lines'[d][n][i].req \in Requests /\ Closed(lines'[d][n][i].req)
             /\ wrote'[lines'[d][n][i].req] = NoFile
  <2>1. torn[d] /\ n = Len(lines[d]) /\ m = Len(lines[d][n]) /\ n \in 1 .. Len(lines[d])
    BY <1>a, <1>b
  <2>2. wrote[lines[d][n][i].req] = NoFile
    BY <2>1 DEF FileInv, Scraps
  <2>3. lines'[d][n][i] = lines[d][n][i]
    BY <1>a, <1>b
  <2>4. /\ lines[d][n][i].req \in Requests /\ Closed(lines[d][n][i].req)
        /\ wrote'[lines[d][n][i].req] = wrote[lines[d][n][i].req]
    <3>1. i \in 1 .. Len(lines[d][n])
      BY <2>1
    <3> HIDE DEF Closed
    <3> QED BY <1>4, <2>1, <3>1
  <2> HIDE DEF Closed
  <2> QED BY <2>2, <2>3, <2>4
<1>6. Past'
  <2> SUFFICES ASSUME NEW e \in Days, NEW k \in 1 .. Len(lines'[e]), NEW i \in 1 .. Len(lines'[e][k])
               PROVE  Closed(lines'[e][k][i].req)
    BY DEF Past, Over
  <2> HIDE DEF Closed
  <2>1. CASE e # d
    <3>1. lines'[e] = lines[e]
      BY <1>3, <2>1
    <3>2. k \in 1 .. Len(lines[e]) /\ i \in 1 .. Len(lines[e][k])
      BY <3>1
    <3>3. Closed(lines[e][k][i].req)
      BY <1>4, <3>2
    <3> QED BY <3>1, <3>3
  <2>2. CASE e = d /\ k # n
    <3>1. k \in 1 .. (n - 1)
      BY <1>a, <1>b, <2>2
    <3>2. k \in 1 .. Len(lines[d]) /\ lines'[d][k] = lines[d][k]
      BY <1>a, <1>b, <3>1
    <3>3. i \in 1 .. Len(lines[d][k])
      BY <2>2, <3>2
    <3>4. Closed(lines[d][k][i].req)
      BY <1>4, <3>2, <3>3
    <3> QED BY <2>2, <3>2, <3>4
  <2>3. CASE e = d /\ k = n /\ i # m + 1
    <3>1. i \in 1 .. m
      BY <1>a, <1>b, <2>3
    <3> QED BY <1>5, <2>3, <3>1
  <2>4. CASE e = d /\ k = n /\ i = m + 1
    BY <1>0, <1>1, <1>a, <1>b, <2>4
  <2> QED BY <2>1, <2>2, <2>3, <2>4
<1>7. Found'
  <2> SUFFICES ASSUME NEW q \in Requests, NEW e \in Days, wrote'[q] = e
               PROVE  \E k \in 1 .. Len(lines'[e]) : Ended(e, k)' /\ Holds(e, k, q)'
    BY DEF Found
  <2>1. CASE q = r
    <3>1. e # NoFile
      BY LogRowAssumption
    <3>2. ended /\ e = d
      BY <2>1, <3>1 DEF TypeOK
    <3>3. n \in 1 .. Len(lines'[d]) /\ Ended(d, n)'
      <4>1. torn'[d] = FALSE
        BY <1>3, <3>2
      <4>2. n \in 1 .. n
        BY <1>a, <1>b
      <4> QED BY <1>a, <1>b, <4>1, <4>2 DEF Ended
    <3>4. chunk = Record(r)
      BY <3>2 DEF chunk, Record
    <3>5. Len(lines'[d][n]) # 0 /\ lines'[d][n][Len(lines'[d][n])] = Record(r)
      BY <1>a, <1>b, <3>4
    <3>6. ASSUME NEW i \in 1 .. (Len(lines'[d][n]) - 1)
          PROVE  lines'[d][n][i].req \in Requests /\ wrote'[lines'[d][n][i].req] # d
      <4>1. i \in 1 .. m
        BY <1>a, <1>b
      <4> QED BY <1>5, <3>1, <3>2, <4>1
    <3>7. Holds(d, n, r)'
      BY <3>5, <3>6 DEF Holds
    <3> QED BY <2>1, <3>2, <3>3, <3>7
  <2>2. CASE q # r
    <3>1. wrote[q] = e
      BY <2>2 DEF TypeOK
    <3>2. PICK k \in 1 .. Len(lines[e]) : Ended(e, k) /\ Holds(e, k, q)
      BY <3>1 DEF FileInv, Found
    <3>3. /\ k \in 1 .. Len(lines'[e]) /\ lines'[e][k] = lines[e][k] /\ Ended(e, k)'
      <4>1. CASE e # d
        BY <1>3, <3>2, <4>1 DEF Ended
      <4>2. CASE e = d
        <5>1. k \in 1 .. (n - 1)
          BY <1>a, <1>b, <3>2, <4>2
        <5> QED BY <1>a, <1>b, <4>2, <5>1 DEF Ended
      <4> QED BY <4>1, <4>2
    <3>4. /\ Len(lines[e][k]) # 0 /\ lines[e][k][Len(lines[e][k])] = Record(q)
          /\ \A i \in 1 .. (Len(lines[e][k]) - 1) :
               lines[e][k][i].req \in Requests /\ wrote[lines[e][k][i].req] # e
      BY <3>2 DEF Holds
    <3>5. \A i \in 1 .. (Len(lines[e][k]) - 1) : i \in 1 .. Len(lines[e][k])
      <4>1. lines[e] \in Seq(Seq(Chunks))
        BY DEF TypeOK
      <4>2. Len(lines[e][k]) \in Nat
        BY <4>1
      <4> QED BY <4>2
    <3>6. \A i \in 1 .. (Len(lines[e][k]) - 1) : wrote'[lines[e][k][i].req] # e
      BY <1>4, <3>4, <3>5
    <3>7. Holds(e, k, q)'
      BY <3>3, <3>4, <3>6 DEF Holds, Record
    <3> QED BY <3>3, <3>7
  <2> QED BY <2>1, <2>2
<1>8. Scraps'
  <2> SUFFICES ASSUME NEW e \in Days, torn'[e], NEW i \in 1 .. Len(lines'[e][Len(lines'[e])])
               PROVE  wrote'[lines'[e][Len(lines'[e])][i].req] = NoFile
    BY DEF Scraps
  <2>1. CASE e # d
    <3>1. /\ torn[e] /\ lines'[e] = lines[e] /\ i \in 1 .. Len(lines[e][Len(lines[e])])
      BY <1>3, <2>1
    <3>2. Len(lines[e]) \in 1 .. Len(lines[e])
      <4>1. lines[e] \in Seq(Seq(Chunks)) /\ Len(lines[e]) # 0
        BY <3>1 DEF TypeOK, Opened
      <4> QED BY <4>1
    <3>3. wrote[lines[e][Len(lines[e])][i].req] = NoFile
      BY <3>1 DEF FileInv, Scraps
    <3>4. PICK k \in 1 .. Len(lines[e]) : k = Len(lines[e])
      BY <3>2
    <3>5. wrote'[lines[e][k][i].req] = wrote[lines[e][k][i].req]
      <4>1. i \in 1 .. Len(lines[e][k])
        BY <3>1, <3>4
      <4> HIDE DEF Closed
      <4> QED BY <1>4, <4>1
    <3> HIDE DEF Closed
    <3> QED BY <3>1, <3>3, <3>4, <3>5
  <2>2. CASE e = d /\ i # m + 1
    <3>1. i \in 1 .. m
      BY <1>a, <1>b, <2>2
    <3> QED BY <1>a, <1>b, <1>5, <2>2, <3>1
  <2>3. CASE e = d /\ i = m + 1
    <3>1. ~ended /\ wrote' = wrote
      BY <1>3, <2>3
    <3> QED BY <1>1, <1>a, <1>b, <2>3, <3>1
  <2> QED BY <2>1, <2>2, <2>3
<1> QED BY <1>6, <1>7, <1>8

LEMMA ContentKeeps ==
  ASSUME TypeOK, Opened, Ordered, FileInv, NEW r \in Requests, WriteContent(r)
  PROVE  FileInv'
<1>1. /\ job' = [job EXCEPT ![r] = [job[r] EXCEPT !["closeLog"] = "written"]]
      /\ job[r]["closeLog"] = "queued" /\ UNCHANGED <<handler, row>>
  BY DEF WriteContent
<1>2. job \in [Requests -> [Writes -> Marks]]
  BY DEF TypeOK, Marks
<1>3. job'[r]["closeLog"] = "written" /\ \A q \in Requests \ {r} : job'[q] = job[q]
  BY <1>1, <1>2
<1>4. handler[r] = "closed" /\ wrote[r] = NoFile /\ ~Over(r)
  BY <1>1 DEF Ordered, Closes, FileInv, Later, Over
<1>5. Over(r)' /\ \A q \in Requests : Over(q) => Over(q)'
  BY <1>1, <1>3, <1>4 DEF Over
<1>6. \A q \in Requests \ {r} : wrote'[q] = wrote[q]
  BY DEF WriteContent, TypeOK
<1>7. Named'
  BY <1>1, <1>4, <1>6 DEF FileInv, Named
<1>8. Later'
  BY <1>3, <1>6 DEF FileInv, Later
<1>9. since[r] .. day \subseteq Days
  <2>1. since[r] \in 0..MaxDay /\ day \in 0..MaxDay /\ MaxDay \in Nat
    BY LogRowAssumption DEF TypeOK
  <2> QED BY <2>1
<1>10. ASSUME NEW d \in since[r] .. day, Put(d, [req |-> r, part |-> "whole"], TRUE),
              wrote' = [wrote EXCEPT ![r] = d]
       PROVE  FileInv'
  <2>1. d \in Days
    BY <1>9
  <2>2. Found' /\ Past' /\ Scraps'
    BY <1>4, <1>5, <1>10, <2>1, PutKeeps
  <2> QED BY <1>7, <1>8, <2>2 DEF FileInv
<1>11. ASSUME NEW d \in since[r] .. day, NEW part \in {"whole", "cut", "inChar"},
              Put(d, [req |-> r, part |-> part], FALSE), wrote' = wrote
       PROVE  FileInv'
  <2>1. d \in Days
    BY <1>9
  <2>2. Found' /\ Past' /\ Scraps'
    BY <1>4, <1>5, <1>11, <2>1, PutKeeps
  <2> QED BY <1>7, <1>8, <2>2 DEF FileInv
<1>12. CASE UNCHANGED files /\ wrote' = wrote
  BY <1>5, <1>7, <1>8, <1>12, FilesStay
<1> QED BY <1>10, <1>11, <1>12 DEF WriteContent, LogName

LEMMA TaskKeeps ==
  ASSUME TypeOK, Ordered, FileInv, NEW r \in Requests,
         \/ InsertConv(r) \/ InsertLog(r) \/ CloseConv(r) \/ CloseLog(r)
         \/ StatementFails(r)
  PROVE  FileInv'
<1>1. PICK w \in Writes : Done(r, w)
  BY DEF InsertConv, InsertLog, CloseConv, CloseLog, StatementFails
<1>2. /\ job' = [job EXCEPT ![r] = [job[r] EXCEPT ![w] = "done"]]
      /\ UNCHANGED <<lines, torn, wrote, handler>>
      /\ w = "closeLog" => job[r][w] = "written"
  BY <1>1, DoneType DEF Done
<1>3. job \in [Requests -> [Writes -> Marks]]
  BY DEF TypeOK, Marks
<1>4. \A q \in Requests :
        job'[q]["closeLog"] = job[q]["closeLog"]
          \/ (job'[q]["closeLog"] = "done" /\ job[q]["closeLog"] = "written")
  BY <1>2, <1>3
<1>5. \A q \in Requests : Over(q) => Over(q)'
  BY <1>2, <1>4 DEF Over
<1>6. Later'
  BY <1>2, <1>4 DEF FileInv, Later
<1>7. \/ row' = row
      \/ row' = [row EXCEPT ![r] = [status |-> "final", file |-> wrote[r]]]
      \/ row' = [row EXCEPT ![r] = [status |-> "pending", file |-> NoFile]]
  BY DEF InsertConv, InsertLog, CloseConv, CloseLog, StatementFails
<1>8. row \in [Requests -> [status : {"absent", "pending", "final"},
                            file : Days \cup {NoFile}]]
  BY DEF TypeOK
<1>9. Named'
  BY <1>2, <1>7, <1>8 DEF FileInv, Named
<1> QED BY <1>2, <1>5, <1>6, <1>9, FilesStay

LEMMA StepFiles == TypeOK /\ Opened /\ Ordered /\ FileInv /\ [Next]_vars => FileInv'
<1> SUFFICES ASSUME TypeOK, Opened, Ordered, FileInv, [Next]_vars PROVE FileInv'
  OBVIOUS
<1>1. ASSUME UNCHANGED <<lines, torn, wrote, row>>,
             \A q \in Requests :
               /\ Over(q) => Over(q)'
               /\ job'[q]["closeLog"] \in {"none", "queued"} =>
                    job[q]["closeLog"] \in {"none", "queued"}
      PROVE  FileInv'
  <2>1. Named' /\ Later'
    BY <1>1 DEF FileInv, Named, Later
  <2> QED BY <1>1, <2>1, FilesStay
<1>2. ASSUME NEW r \in Requests, Begin(r) PROVE FileInv'
  <2>1. job' = [job EXCEPT ![r] = [w \in Writes |-> IF w \in Inserts THEN "queued" ELSE job[r][w]]]
    BY <1>2, SpawnType DEF Begin, Inserts
  <2>2. \A q \in Requests : job'[q]["closeLog"] = job[q]["closeLog"]
    BY <2>1 DEF Inserts, TypeOK
  <2>3. handler[r] = "before" /\ handler' = [handler EXCEPT ![r] = "running"]
    BY <1>2 DEF Begin
  <2>4. \A q \in Requests : Over(q) => Over(q)'
    BY <2>2, <2>3 DEF Over, TypeOK
  <2>5. UNCHANGED <<lines, torn, wrote, row>>
    BY <1>2 DEF Begin
  <2> QED BY <1>1, <2>2, <2>4, <2>5
<1>3. ASSUME NEW r \in Requests, Finish(r) PROVE FileInv'
  <2>1. job' = [job EXCEPT ![r] = [w \in Writes |-> IF w \in Closes THEN "queued" ELSE job[r][w]]]
    BY <1>3, SpawnType DEF Finish, Closes
  <2>2. handler[r] = "running" /\ handler' = [handler EXCEPT ![r] = "closed"]
    BY <1>3 DEF Finish
  <2>3. job[r]["closeLog"] = "none" /\ \A q \in Requests \ {r} : job'[q] = job[q]
    BY <2>1, <2>2 DEF Ordered, Closes, TypeOK
  <2>4. \A q \in Requests : Over(q) => Over(q)'
    BY <2>2, <2>3 DEF Over, TypeOK
  <2>5. UNCHANGED <<lines, torn, wrote, row>>
    BY <1>3 DEF Finish
  <2> QED BY <1>1, <2>3, <2>4, <2>5
<1>4. ASSUME NEW r \in Requests, Abandon(r) PROVE FileInv'
  <2>1. \A q \in Requests : Over(q) => Over(q)'
    BY <1>4 DEF Abandon, Over, TypeOK
  <2>2. UNCHANGED <<lines, torn, wrote, row, job>>
    BY <1>4 DEF Abandon
  <2> QED BY <1>1, <2>1, <2>2
<1>5. CASE DeleteLogs
  <2>1. /\ UNCHANGED <<lines, torn, wrote, handler, job>>
        /\ \A r \in Requests : row'[r] = Absent
    BY <1>5 DEF DeleteLogs
  <2>2. Named' /\ Later'
    BY <2>1 DEF Named, Absent, FileInv, Later
  <2>3. \A q \in Requests : Over(q) => Over(q)'
    BY <2>1 DEF Over
  <2> QED BY <2>1, <2>2, <2>3, FilesStay
<1>6. CASE Restart
  <2>1. \A q \in Requests :
          /\ job[q]["closeLog"] \notin {"none", "queued"} => job'[q]["closeLog"] \notin {"none", "queued"}
          /\ handler[q] = "closed" => handler'[q] = "closed"
    BY <1>6 DEF Restart, Waiting
  <2>2. UNCHANGED <<lines, torn, wrote, row>>
    BY <1>6 DEF Restart
  <2>3. \A q \in Requests : Over(q) => Over(q)'
    BY <2>1 DEF Over
  <2> QED BY <1>1, <2>1, <2>2, <2>3
<1>7. CASE DeleteConvs \/ DeleteKey \/ Midnight \/ UNCHANGED vars
  <2>1. UNCHANGED <<lines, torn, wrote, row, handler, job>>
    BY <1>7 DEF DeleteConvs, DeleteKey, Midnight, vars
  <2>2. \A q \in Requests : Over(q) => Over(q)'
    BY <2>1 DEF Over
  <2> QED BY <1>1, <2>1, <2>2
<1> QED BY <1>2, <1>3, <1>4, <1>5, <1>6, <1>7, ContentKeeps, TaskKeeps DEF Next

LEMMA InitFiles == Init => FileInv
<1> SUFFICES ASSUME Init PROVE FileInv
  OBVIOUS
<1>1. \A r \in Requests : row[r] = Absent /\ wrote[r] = NoFile
  BY DEF Init
<1>2. \A d \in Days : Len(lines[d]) = 0 /\ ~torn[d]
  BY DEF Init
<1>3. \A d \in Days : d # NoFile
  BY LogRowAssumption
<1> QED BY <1>1, <1>2, <1>3 DEF FileInv, Named, Later, Found, Past, Scraps, Absent

\* A row that names a file is right about it: its record is there, and unless a
\* failed write before it spoiled it, it can be read.
THEOREM ReadBackSafe == Spec => []ReadBack
<1>1. TypeOK /\ FileInv => ReadBack
  <2> SUFFICES ASSUME TypeOK, FileInv, NEW r \in Requests, NEW d \in Days, row[r].file = d,
                      ~Readable(r, d)
               PROVE  Spoiled(r, d)
    BY DEF ReadBack
  <2>1. wrote[r] = d
    <3>1. d # NoFile
      BY LogRowAssumption
    <3> QED BY <3>1 DEF FileInv, Named
  <2>2. PICK k \in 1 .. Len(lines[d]) : Holds(d, k, r)
    BY <2>1 DEF FileInv, Found
  <2>3. lines[d] \in Seq(Seq(Chunks))
    BY DEF TypeOK
  <2>4. k \in DOMAIN lines[d] /\ lines[d][k] \in Seq(Chunks)
    BY <2>3
  <2>5. PICK n \in Nat : n = Len(lines[d][k]) /\ n # 0 /\ lines[d][k][n] = Record(r)
    BY <2>2, <2>4 DEF Holds
  <2>6. \A i \in 1 .. (n - 1) : wrote[lines[d][k][i].req] # d
    BY <2>2, <2>5 DEF Holds
  <2>7. 1 .. (n - 1) # {} \/ \E i \in 1 .. k : Unreadable(lines[d][i])
    <3>1. ASSUME n = 1, \A i \in 1 .. k : ~Unreadable(lines[d][i]) PROVE FALSE
      <4>1. lines[d][k] = <<Record(r)>>
        BY <2>4, <2>5, <3>1, Single
      <4> QED BY <2>4, <3>1, <4>1 DEF Readable, Record
    <3>2. CASE n = 1
      BY <3>1, <3>2
    <3>3. CASE n # 1
      <4>1. n \in Nat /\ n # 0
        BY <2>5
      <4>2. 1 \in 1 .. (n - 1)
        BY <3>3, <4>1
      <4> QED BY <4>2
    <3> QED BY <3>2, <3>3
  <2> QED BY <2>4, <2>5, <2>6, <2>7 DEF Spoiled, Record
<1>2. Init => TypeOK /\ Opened /\ Ordered /\ FileInv
  BY InitType, InitInStep, InitFiles
<1>3. TypeOK /\ Opened /\ Ordered /\ FileInv /\ [Next]_vars
        => (TypeOK /\ Opened /\ Ordered /\ FileInv)'
  BY StepType, StepOrders, StepFiles
<1> QED BY <1>1, <1>2, <1>3, PTL DEF Spec
=============================================================================
