---------------------------- MODULE SlidingLimit ----------------------------
(***************************************************************************)
(* What an API key's limits promise, told from the full history of the     *)
(* key's answered requests: a request is admitted or refused by the        *)
(* requests and tokens of the last Window ticks, exactly, and by the       *)
(* tokens of the day, up to those of answers that crossed midnight.        *)
(***************************************************************************)
EXTENDS Integers, Sequences, FiniteSets

CONSTANTS
  Slots,          \* concurrent requests of the key
  Window,         \* length of the sliding window
  Rpm, Tpm, Daily,\* the key's limits, 0 for none
  Tokens          \* token counts an answer may have

VARIABLES
  now,            \* monotonic clock
  day,            \* calendar day
  phase,          \* phase[r]: where request r is
  since,          \* since[r]: the day r was admitted
  log             \* every answered request so far, oldest first

vars == <<now, day, phase, since, log>>

\* Tokens of the answers at some positions of a history.
Total(history, positions) ==
  LET f[i \in 0 .. Len(history)] ==
        IF i = 0 THEN 0
        ELSE f[i - 1] + (IF i \in positions THEN history[i].tok ELSE 0)
  IN  f[Len(history)]

Spent(positions) == Total(log, positions)

Recent == {i \in DOMAIN log : log[i].at >= now - Window}

\* Today's answers, and those to requests of today.
Today == {i \in DOMAIN log : log[i].day = day}
Sure == {i \in Today : log[i].since = day}

Init ==
  /\ now = 0 /\ day = 0
  /\ phase = [r \in Slots |-> "idle"]
  /\ since = [r \in Slots |-> 0]
  /\ log = <<>>

Tick == now' = now + 1 /\ UNCHANGED <<day, phase, since, log>>

Midnight == day' = day + 1 /\ UNCHANGED <<now, phase, since, log>>

Admit(r) ==
  /\ phase[r] = "idle"
  /\ Rpm > 0 => Cardinality(Recent) < Rpm
  /\ Tpm > 0 => Spent(Recent) < Tpm
  /\ Daily > 0 => Spent(Sure) < Daily
  /\ phase' = [phase EXCEPT ![r] = "running"]
  /\ since' = [since EXCEPT ![r] = day]
  /\ UNCHANGED <<now, day, log>>

Refuse(r) ==
  /\ phase[r] = "idle"
  /\ \/ Rpm > 0 /\ Cardinality(Recent) >= Rpm
     \/ Tpm > 0 /\ Spent(Recent) >= Tpm
     \/ Daily > 0 /\ Spent(Today) >= Daily
  /\ phase' = [phase EXCEPT ![r] = "refused"]
  /\ UNCHANGED <<now, day, since, log>>

Answer(r) ==
  /\ phase[r] = "running"
  /\ phase' = [phase EXCEPT ![r] = "idle"]
  /\ \E t \in Tokens :
       log' = Append(log, [at |-> now, day |-> day, tok |-> t, since |-> since[r]])
  /\ UNCHANGED <<now, day, since>>

Leave(r) ==
  /\ phase[r] \in {"running", "refused"}
  /\ phase' = [phase EXCEPT ![r] = "idle"]
  /\ UNCHANGED <<now, day, since, log>>

Next ==
  \/ Tick \/ Midnight
  \/ \E r \in Slots : Admit(r) \/ Refuse(r) \/ Answer(r) \/ Leave(r)

Spec == Init /\ [][Next]_vars
=============================================================================
