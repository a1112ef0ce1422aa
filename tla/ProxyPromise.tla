---------------------------- MODULE ProxyPromise ----------------------------
(***************************************************************************)
(* What the gateway promises for one request, whatever upstreams do:       *)
(* the client is refused, or answered once, or given one error; the books  *)
(* of an accepted request (its proxy_logs row and its conversation) are    *)
(* closed exactly once, in agreement with what the client was told; and    *)
(* usage is charged at most once, for an answer that was really given.     *)
(*                                                                         *)
(* A slot is one concurrent request; it is recycled when the request ends. *)
(***************************************************************************)
EXTENDS Naturals

CONSTANT Slots          \* concurrent requests

VARIABLES
  outcome,              \* outcome[r]: what the client of r got so far
  ledger,               \* ledger[r]: state of the log row and conversation of r
  charges               \* charges[r]: how often usage was charged for r

vars == <<outcome, ledger, charges>>

Outcomes == {"none", "refused", "answered", "error", "abandoned"}
Ledgers == {"none", "open", "success", "failed"}

TypeOK ==
  /\ outcome \in [Slots -> Outcomes]
  /\ ledger \in [Slots -> Ledgers]
  /\ charges \in [Slots -> Nat]

Init ==
  /\ outcome = [r \in Slots |-> "none"]
  /\ ledger = [r \in Slots |-> "none"]
  /\ charges = [r \in Slots |-> 0]

\* The request is turned away before anything is written about it.
Refuse(r) ==
  /\ outcome[r] = "none" /\ ledger[r] = "none"
  /\ outcome' = [outcome EXCEPT ![r] = "refused"]
  /\ UNCHANGED <<ledger, charges>>

\* The request is accepted: its conversation and pending log row are created.
Open(r) ==
  /\ outcome[r] = "none" /\ ledger[r] = "none"
  /\ ledger' = [ledger EXCEPT ![r] = "open"]
  /\ UNCHANGED <<outcome, charges>>

\* A whole answer: the books close in the step that answers.
AnswerWhole(r) ==
  /\ outcome[r] = "none" /\ ledger[r] = "open"
  /\ outcome' = [outcome EXCEPT ![r] = "answered"]
  /\ ledger' = [ledger EXCEPT ![r] = "success"]
  /\ \/ charges' = [charges EXCEPT ![r] = @ + 1]
     \/ UNCHANGED charges

\* A streamed answer begins; the books stay open until the stream ends.
AnswerStream(r) ==
  /\ outcome[r] = "none" /\ ledger[r] = "open"
  /\ outcome' = [outcome EXCEPT ![r] = "answered"]
  /\ UNCHANGED <<ledger, charges>>

FinishStream(r) ==
  /\ outcome[r] = "answered" /\ ledger[r] = "open"
  /\ \/ /\ ledger' = [ledger EXCEPT ![r] = "success"]
        /\ charges' = [charges EXCEPT ![r] = @ + 1]
     \/ /\ ledger' = [ledger EXCEPT ![r] = "failed"]
        /\ UNCHANGED charges
  /\ UNCHANGED outcome

GiveUp(r) ==
  /\ outcome[r] = "none" /\ ledger[r] = "open"
  /\ outcome' = [outcome EXCEPT ![r] = "error"]
  /\ ledger' = [ledger EXCEPT ![r] = "failed"]
  /\ UNCHANGED charges

\* The client goes away before it was answered; nothing closes the books.
Abandon(r) ==
  /\ outcome[r] = "none"
  /\ outcome' = [outcome EXCEPT ![r] = "abandoned"]
  /\ UNCHANGED <<ledger, charges>>

\* The slot serves its next request, but never while a stream is unfinished.
Recycle(r) ==
  /\ outcome[r] # "none"
  /\ ~(outcome[r] = "answered" /\ ledger[r] = "open")
  /\ outcome' = [outcome EXCEPT ![r] = "none"]
  /\ ledger' = [ledger EXCEPT ![r] = "none"]
  /\ charges' = [charges EXCEPT ![r] = 0]

Next ==
  \E r \in Slots :
    \/ Refuse(r) \/ Open(r)
    \/ AnswerWhole(r) \/ AnswerStream(r) \/ FinishStream(r)
    \/ GiveUp(r) \/ Abandon(r) \/ Recycle(r)

Spec == Init /\ [][Next]_vars

-----------------------------------------------------------------------------
\* Usage is charged at most once per request, and only for a request whose
\* books say success.
ChargedOnce ==
  \A r \in Slots :
    /\ charges[r] <= 1
    /\ charges[r] = 1 => outcome[r] = "answered" /\ ledger[r] = "success"

\* A request whose client got an error or no upstream's answer is never charged
\* and its books never say success.
BooksAgree ==
  \A r \in Slots :
    outcome[r] \in {"refused", "error", "abandoned"} =>
      charges[r] = 0 /\ ledger[r] # "success"
=============================================================================
