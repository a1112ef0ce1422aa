----------------------------- MODULE KeyWindow -----------------------------
(***************************************************************************)
(* The limiter of API keys (RateLimiter of src/src/proxy/rate_limiter.rs), *)
(* for one key: the sliding window of its answered requests, the counter   *)
(* of the day, and the requests that are checked against them first and    *)
(* recorded in them much later, when their answer is complete.             *)
(*                                                                         *)
(* The window goes by the monotonic clock, the counter by the calendar;    *)
(* the window is cleaned up lazily, in each check and once a minute, but   *)
(* not when usage is recorded.                                             *)
(***************************************************************************)
EXTENDS Integers, Sequences, FiniteSets

CONSTANTS
  Slots,          \* concurrent requests of the key
  Window,         \* window_secs, in ticks
  Rpm, Tpm, Daily,\* the key's limits, 0 for none
  Tokens,         \* bound: token counts an answer may have
  MaxNow,         \* bound: ticks
  MaxDay,         \* bound: days
  MaxLog          \* bound: answers

ASSUME KeyWindowAssumption ==
  /\ IsFiniteSet(Slots)
  /\ Window \in Nat
  /\ Rpm \in Nat /\ Tpm \in Nat /\ Daily \in Nat
  /\ Tokens \subseteq Nat
  /\ MaxNow \in Nat /\ MaxDay \in Nat /\ MaxLog \in Nat

VARIABLES
  \* SlidingWindow
  window,         \* requests and tokens, which are pushed and popped together
  daily,          \* daily_tokens
  date,           \* daily_date
  \* clocks
  now, day,
  \* requests
  phase, since,
  log             \* history: every answer that was recorded

state == <<window, daily, date>>
vars == <<window, daily, date, now, day, phase, since, log>>

Sum(s) ==
  LET f[i \in 0 .. Len(s)] == IF i = 0 THEN 0 ELSE f[i - 1] + s[i].tok
  IN  f[Len(s)]

TypeOK ==
  /\ window \in Seq([at : 0..now, tok : Tokens])
  /\ \A i, k \in DOMAIN window : i < k => window[i].at <= window[k].at
  /\ daily \in Nat
  /\ date \in 0..day
  /\ now \in 0..MaxNow /\ day \in 0..MaxDay
  /\ phase \in [Slots -> {"idle", "running", "refused"}]
  /\ since \in [Slots -> 0..day]
  /\ log \in Seq([at : 0..now, day : 0..day, tok : Tokens, since : 0..day])

Init ==
  /\ window = <<>> /\ daily = 0 /\ date = 0
  /\ now = 0 /\ day = 0
  /\ phase = [r \in Slots |-> "idle"]
  /\ since = [r \in Slots |-> 0]
  /\ log = <<>>

-----------------------------------------------------------------------------
\* Mutant of Expired: an entry leaves the window a tick early.
ExpiredEarly(e) == e.at <= now - Window

Expired(e) == e.at < now - Window

\* cleanup pops expired entries from the front while there are any.
Kept ==
  LET fresh == {i \in DOMAIN window : ~Expired(window[i])} IN
  IF fresh = {} THEN <<>>
  ELSE SubSeq(window, CHOOSE i \in fresh : \A k \in fresh : i <= k, Len(window))

\* ... and starts the daily counter anew when the date is not today's.
Cleanup ==
  /\ window' = Kept
  /\ daily' = IF date # day THEN 0 ELSE daily
  /\ date' = day

\* Mutant of Full: the limit itself is still admitted.
FullPast(entries, tokens) ==
  \/ Rpm > 0 /\ Len(entries) > Rpm
  \/ Tpm > 0 /\ Sum(entries) > Tpm
  \/ Daily > 0 /\ tokens > Daily

Full(entries, tokens) ==
  \/ Rpm > 0 /\ Len(entries) >= Rpm
  \/ Tpm > 0 /\ Sum(entries) >= Tpm
  \/ Daily > 0 /\ tokens >= Daily

\* check_rate_limit, one step under the window's lock.
Check(r) ==
  /\ phase[r] = "idle"
  /\ Cleanup
  /\ IF Full(window', daily')
     THEN /\ phase' = [phase EXCEPT ![r] = "refused"]
          /\ UNCHANGED since
     ELSE /\ phase' = [phase EXCEPT ![r] = "running"]
          /\ since' = [since EXCEPT ![r] = day]
  /\ UNCHANGED <<now, day, log>>

\* Mutant of Record: the new entry is put at the front.
RecordInFront(r, t) ==
  /\ phase[r] = "running" /\ Len(log) < MaxLog
  /\ window' = <<[at |-> now, tok |-> t]>> \o window
  /\ daily' = daily + t
  /\ phase' = [phase EXCEPT ![r] = "idle"]
  /\ log' = Append(log, [at |-> now, day |-> day, tok |-> t, since |-> since[r]])
  /\ UNCHANGED <<date, now, day, since>>

\* record_usage with the answer's tokens.  It does not clean up: the tokens go
\* to the counter of whatever day the window was last looked at.
Record(r, t) ==
  /\ phase[r] = "running" /\ Len(log) < MaxLog
  /\ window' = Append(window, [at |-> now, tok |-> t])
  /\ daily' = daily + t
  /\ phase' = [phase EXCEPT ![r] = "idle"]
  /\ log' = Append(log, [at |-> now, day |-> day, tok |-> t, since |-> since[r]])
  /\ UNCHANGED <<date, now, day, since>>

\* A refused request, or one that fails or is abandoned, records nothing.
Leave(r) ==
  /\ phase[r] \in {"running", "refused"}
  /\ phase' = [phase EXCEPT ![r] = "idle"]
  /\ UNCHANGED <<state, now, day, since, log>>

\* The limiter's background task.
Sweep ==
  /\ Cleanup
  /\ UNCHANGED <<now, day, phase, since, log>>

Tick ==
  /\ now < MaxNow
  /\ now' = now + 1
  /\ UNCHANGED <<state, day, phase, since, log>>

Midnight ==
  /\ day < MaxDay
  /\ day' = day + 1
  /\ UNCHANGED <<state, now, phase, since, log>>

Next ==
  \/ \E r \in Slots : \/ Check(r) \/ Leave(r)
                      \/ \E t \in Tokens : Record(r, t)
  \/ Sweep \/ Tick \/ Midnight

Spec == Init /\ [][Next]_vars

-----------------------------------------------------------------------------
(* Properties. *)

Limit == INSTANCE SlidingLimit

\* Lazy clean-up loses and keeps nothing: each verdict is the one the whole
\* history gives for the last Window ticks.  For the day it is the verdict of a
\* count between today's tokens of today's requests and all of today's tokens.
VerdictsFromHistory == Limit!Spec

\* Check and record are far apart, so concurrent requests overshoot the rpm
\* limit, by at most one less than there are concurrent requests.
RpmOvershoot == Rpm > 0 => Cardinality(Limit!Recent) <= Rpm + Cardinality(Slots) - 1

\* What "RPM" says (README.md:14): no more answers per window than the limit.
RpmHonoured == Rpm > 0 => Cardinality(Limit!Recent) <= Rpm
=============================================================================
