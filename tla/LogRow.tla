------------------------------- MODULE LogRow -------------------------------
(***************************************************************************)
(* The database writes of a proxied request (src/src/store/mod.rs) and the *)
(* content file of its day (src/src/store/proxy_log_writer.rs).  A handler *)
(* never waits for them: each is a spawned task that gets a connection of  *)
(* the pool when it can, logs an error if its statement fails, and is lost *)
(* when the process ends.  An administrator may delete the API key in      *)
(* three statements while its requests run.                                *)
(***************************************************************************)
EXTENDS Integers, Sequences, FiniteSets

CONSTANTS
  Requests,     \* requests that use one API key
  MaxDay,       \* bound: midnights per behavior
  MaxStops,     \* bound: ends of the process per behavior
  MaxErrors     \* bound: failing statements and file writes per behavior

ASSUME LogRowAssumption == {MaxDay, MaxStops, MaxErrors} \subseteq Nat

Days == 0..MaxDay
NoFile == -1
Writes == {"insertConv", "insertLog", "closeConv", "closeLog"}
Absent == [status |-> "absent", file |-> NoFile]

VARIABLES
  handler,   \* handler[r]: "before", "running", "closed" (it ordered the
             \* closing of its row, with one final status) or "dropped"
  job,       \* job[r][w]: what became of the spawned task of write w
  since,     \* since[r]: the day the closing was ordered, until its file write
  wrote,     \* wrote[r]: log_file, what write_content returned
  row,       \* row[r]: the row of r in proxy_logs
  conv,      \* conv[r]: the row of r in conversations
  lines,     \* lines[d]: the lines of the file of day d
  torn,      \* torn[d]: its last line has no end yet
  deleting,  \* where delete_key is
  day, stops, errors,
  excuse     \* history: why a write of r had no lasting effect: "overtaken", its
             \* row was not there yet, or "undone", by an error, a stop, a deletion

files == <<lines, torn>>
proc == <<day, stops, errors>>
vars == <<handler, job, since, wrote, row, conv, lines, torn,
          deleting, day, stops, errors, excuse>>

\* A chunk of a line is a record or what a failed write left of one, which may
\* end within a character.
Chunks == [req : Requests, part : {"whole", "cut", "inChar"}]

TypeOK ==
  /\ handler \in [Requests -> {"before", "running", "closed", "dropped"}]
  /\ job \in [Requests -> [Writes -> {"none", "queued", "written", "done", "lost"}]]
  /\ since \in [Requests -> Days]
  /\ wrote \in [Requests -> Days \cup {NoFile}]
  /\ row \in [Requests -> [status : {"absent", "pending", "final"},
                           file : Days \cup {NoFile}]]
  /\ conv \in [Requests -> {"absent", "open", "ended"}]
  /\ lines \in [Days -> Seq(Seq(Chunks))]
  /\ torn \in [Days -> BOOLEAN]
  /\ deleting \in {"no", "convs", "key", "gone"}
  /\ day \in Days /\ stops \in 0..MaxStops
  /\ errors \in 0..MaxErrors
  /\ excuse \in [Requests ->
                  SUBSET {"overtaken", "undone"}]

Init ==
  /\ handler = [r \in Requests |-> "before"]
  /\ job = [r \in Requests |-> [w \in Writes |-> "none"]]
  /\ since = [r \in Requests |-> 0]
  /\ wrote = [r \in Requests |-> NoFile]
  /\ row = [r \in Requests |-> Absent]
  /\ conv = [r \in Requests |-> "absent"]
  /\ lines = [d \in Days |-> <<>>]
  /\ torn = [d \in Days |-> FALSE]
  /\ deleting = "no"
  /\ day = 0 /\ stops = 0 /\ errors = 0
  /\ excuse = [r \in Requests |-> {}]
-----------------------------------------------------------------------------
(* The handler orders writes. *)

Spawn(r, ws) ==
  job' = [job EXCEPT ![r] = [w \in Writes |-> IF w \in ws THEN "queued" ELSE @[w]]]

\* create_conversation and create_pending_proxy_log, before the first attempt.
Begin(r) ==
  /\ handler[r] = "before"
  /\ handler' = [handler EXCEPT ![r] = "running"]
  /\ Spawn(r, {"insertConv", "insertLog"})
  /\ UNCHANGED <<since, wrote, row, conv, files, deleting, proc, excuse>>

\* Mutant of Finish: an error path that forgets the conversation.
FinishLogOnly(r) ==
  /\ handler[r] = "running"
  /\ handler' = [handler EXCEPT ![r] = "closed"]
  /\ Spawn(r, {"closeLog"})
  /\ since' = [since EXCEPT ![r] = day]
  /\ UNCHANGED <<wrote, row, conv, files, deleting, proc, excuse>>

\* update_conversation and update_proxy_log_with_content, after the answer,
\* the end of the stream or the last upstream.
Finish(r) ==
  /\ handler[r] = "running"
  /\ handler' = [handler EXCEPT ![r] = "closed"]
  /\ Spawn(r, {"closeConv", "closeLog"})
  /\ since' = [since EXCEPT ![r] = day]
  /\ UNCHANGED <<wrote, row, conv, files, deleting, proc, excuse>>

\* The client is gone and the handler is dropped: nothing more is ordered.
Abandon(r) ==
  /\ handler[r] = "running"
  /\ handler' = [handler EXCEPT ![r] = "dropped"]
  /\ UNCHANGED <<job, since, wrote, row, conv, files, deleting, proc, excuse>>

-----------------------------------------------------------------------------
(* The spawned tasks. *)

Done(r, w) ==
  /\ job[r][w] = IF w = "closeLog" THEN "written" ELSE "queued"
  /\ job' = [job EXCEPT ![r][w] = "done"]
  /\ UNCHANGED <<handler, since, wrote, files, deleting, day, stops>>

Excuse(r, why) == excuse' = [excuse EXCEPT ![r] = @ \cup {why}]

\* Busy database, no connection in time, disk full: the error is logged only.
StatementFails(r) ==
  /\ errors < MaxErrors
  /\ errors' = errors + 1
  /\ \E w \in Writes : Done(r, w)
  /\ Excuse(r, "undone")
  /\ UNCHANGED <<row, conv>>

\* Rows refer to the key, so an INSERT after its deletion is refused.
InsertConv(r) ==
  /\ Done(r, "insertConv")
  /\ IF deleting = "gone"
     THEN Excuse(r, "undone") /\ UNCHANGED conv
     ELSE conv' = [conv EXCEPT ![r] = "open"] /\ UNCHANGED excuse
  /\ UNCHANGED <<row, errors>>

InsertLog(r) ==
  /\ Done(r, "insertLog")
  /\ IF deleting = "gone"
     THEN Excuse(r, "undone") /\ UNCHANGED row
     ELSE /\ row' = [row EXCEPT ![r] = [status |-> "pending", file |-> NoFile]]
          /\ UNCHANGED excuse
  /\ UNCHANGED <<conv, errors>>

\* UPDATE ... WHERE id = ?; without the row it changes nothing.
CloseConv(r) ==
  /\ Done(r, "closeConv")
  /\ IF conv[r] = "absent"
     THEN UNCHANGED conv
     ELSE conv' = [conv EXCEPT ![r] = "ended"]
  /\ IF job[r]["insertConv"] = "queued" THEN Excuse(r, "overtaken") ELSE UNCHANGED excuse
  /\ UNCHANGED <<row, errors>>

CloseLog(r) ==
  /\ Done(r, "closeLog")
  /\ row' = IF row[r] = Absent THEN row
            ELSE [row EXCEPT ![r] = [status |-> "final", file |-> wrote[r]]]
  /\ IF job[r]["insertLog"] = "queued" THEN Excuse(r, "overtaken") ELSE UNCHANGED excuse
  /\ UNCHANGED <<conv, errors>>

\* The last line of a file goes on.
Extended(file, chunk) == [file EXCEPT ![Len(file)] = Append(@, chunk)]

\* What the file of day d gets: a chunk on the open line or on a new one.
Put(d, chunk, ended) ==
  /\ lines' = [lines EXCEPT ![d] = IF torn[d] THEN Extended(@, chunk)
                                   ELSE Append(@, <<chunk>>)]
  /\ torn' = [torn EXCEPT ![d] = ~ended]

\* Mutant of LogName: the row is given the name of the day the task ends on.
LogNameLater(d) == day

\* Mutant of LogName: the row is given the local date.
LogNameLocal(d) == d + 1

\* write_content returns the name of the file it has written to.
LogName(d) == d

\* write_content: the name is taken from the clock before the lock, and the
\* lock is held for the whole line.  Each of its two writes may fail, and a
\* failure leaves what it has written; the task goes on without a file.
WriteContent(r) ==
  /\ job[r]["closeLog"] = "queued"
  /\ job' = [job EXCEPT ![r]["closeLog"] = "written"]
  /\ \/ /\ \E d \in since[r] .. day :
             /\ Put(d, [req |-> r, part |-> "whole"], TRUE)
             /\ wrote' = [wrote EXCEPT ![r] = LogName(d)]
        /\ UNCHANGED errors
     \/ /\ errors < MaxErrors
        /\ errors' = errors + 1
        /\ \/ \E d \in since[r] .. day, part \in {"whole", "cut", "inChar"} :
                Put(d, [req |-> r, part |-> part], FALSE)
           \/ UNCHANGED files
        /\ UNCHANGED wrote
  /\ since' = [since EXCEPT ![r] = 0]
  /\ UNCHANGED <<handler, row, conv, deleting, day, stops, excuse>>

-----------------------------------------------------------------------------
(* delete_key, one statement after the other; the last is refused while rows *)
(* refer to the key, and the first two stay done.                            *)

DeleteLogs ==
  /\ deleting = "no"
  /\ deleting' = "convs"
  /\ row' = [r \in Requests |-> Absent]
  /\ excuse' = [r \in Requests |-> IF row[r] = Absent THEN excuse[r]
                                   ELSE excuse[r] \cup {"undone"}]
  /\ UNCHANGED <<handler, job, since, wrote, conv, files, proc>>

DeleteConvs ==
  /\ deleting = "convs"
  /\ deleting' = "key"
  /\ conv' = [r \in Requests |-> "absent"]
  /\ excuse' = [r \in Requests |-> IF conv[r] = "absent" THEN excuse[r]
                                   ELSE excuse[r] \cup {"undone"}]
  /\ UNCHANGED <<handler, job, since, wrote, row, files, proc>>

Referred == \E r \in Requests : row[r] # Absent \/ conv[r] # "absent"

DeleteKey ==
  /\ deleting = "key"
  /\ deleting' = IF Referred THEN "no" ELSE "gone"
  /\ UNCHANGED <<handler, job, since, wrote, row, conv, files, proc, excuse>>

-----------------------------------------------------------------------------
Midnight ==
  /\ day < MaxDay
  /\ day' = day + 1
  /\ UNCHANGED <<handler, job, since, wrote, row, conv, files,
                 deleting, stops, errors, excuse>>

Waiting(r, w) == job[r][w] \in {"queued", "written"}

\* Ctrl-C, or a kill between two steps: handlers and spawned tasks end where
\* they wait; nothing is taken up again when the process is started anew.
Restart ==
  /\ stops < MaxStops
  /\ stops' = stops + 1
  /\ handler' = [r \in Requests |->
                   IF handler[r] = "running" THEN "dropped" ELSE handler[r]]
  /\ job' = [r \in Requests |->
               [w \in Writes |-> IF Waiting(r, w) THEN "lost" ELSE job[r][w]]]
  /\ excuse' = [r \in Requests |->
                  IF \E w \in Writes : Waiting(r, w)
                  THEN excuse[r] \cup {"undone"} ELSE excuse[r]]
  /\ deleting' = IF deleting = "gone" THEN "gone" ELSE "no"
  /\ since' = [r \in Requests |-> 0]
  /\ UNCHANGED <<wrote, row, conv, files, day, errors>>

Next ==
  \/ \E r \in Requests :
       \/ Begin(r) \/ Finish(r) \/ Abandon(r)
       \/ InsertConv(r) \/ InsertLog(r) \/ CloseConv(r) \/ CloseLog(r)
       \/ WriteContent(r) \/ StatementFails(r)
  \/ DeleteLogs \/ DeleteConvs \/ DeleteKey
  \/ Midnight \/ Restart

Spec == Init /\ [][Next]_vars

-----------------------------------------------------------------------------
(* Properties. *)

Finished(r) == handler[r] = "closed" /\ \A w \in Writes : ~Waiting(r, w)

\* Once the tasks of a closed request have run, row and conversation tell that
\* it ended and where its content is; what can prevent it is a failed
\* statement, the end of the process, the deletion of the key, or a closing
\* that overtook its own INSERT -- nothing else, in whatever order they run.
Recorded ==
  \A r \in Requests :
    Finished(r) /\ excuse[r] = {} =>
      /\ row[r] = [status |-> "final", file |-> wrote[r]]
      /\ conv[r] = "ended"

\* read_content gives up at a line that is no UTF-8 and passes over a line that
\* is no single record.
Unreadable(line) == \E i \in DOMAIN line : line[i].part = "inChar"
Readable(r, d) ==
  \E k \in DOMAIN lines[d] :
    /\ lines[d][k] = <<[req |-> r, part |-> "whole"]>>
    /\ \A i \in 1..k : ~Unreadable(lines[d][i])

\* The record of r in the file of d was spoiled by failed writes before it: by
\* one on its own line, or by one that cut a character somewhere above.
Spoiled(r, d) ==
  \E k \in DOMAIN lines[d] :
    LET line == lines[d][k]  before == 1 .. (Len(line) - 1) IN
    /\ line[Len(line)] = [req |-> r, part |-> "whole"]
    /\ \A i \in before : wrote[line[i].req] # d
    /\ before # {} \/ \E i \in 1..k : Unreadable(lines[d][i])

\* A row that names a file is right about it, also over midnight and with many
\* writers: read_content finds the record there, and what can prevent it is a
\* failed write before it, which costs one record unless it cut a character.
ReadBack ==
  \A r \in Requests : \A d \in Days :
    row[r].file = d => Readable(r, d) \/ Spoiled(r, d)

\* README.md:20 calls the logging of requests and responses comprehensive:
\* with a database that works and a process that keeps running, every request
\* that ended is recorded as ended.
EveryEndRecorded ==
  \A r \in Requests :
    Finished(r) /\ "undone" \notin excuse[r] => row[r].status = "final"

=============================================================================
