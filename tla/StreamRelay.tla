---------------------------- MODULE StreamRelay ----------------------------
(***************************************************************************)
(* The relay task of a streamed answer (handle_stream_response of          *)
(* src/src/proxy/handlers.rs): it decodes the server-sent events of the    *)
(* upstream, passes them to the client through a bounded channel, ends the *)
(* client's stream, and then writes the books of the request.  The client  *)
(* reads at its own pace and may leave; the upstream may end its stream    *)
(* cleanly, in the middle of an event, or with an error or read timeout.   *)
(*                                                                         *)
(* An event is JSON with text ("text", or "null" when it has a usage field *)
(* of null too) or with token counts ("usage"); "junk" (a comment, another *)
(* field, broken JSON); or "end" (OpenAI's [DONE], Anthropic's             *)
(* message_stop, which is JSON too).  Items on the way to the client are   *)
(* the positions of the events they repeat, and the markers the relay      *)
(* adds.  Token counts are "reported", "estimated" or "zero".              *)
(***************************************************************************)
EXTENDS Naturals, Sequences, SequencesExt

CONSTANTS
  MaxEvents,      \* bound: events an upstream sends
  Cap             \* capacity of the channel (100 in the code)

ASSUME RelayAssumption == MaxEvents \in Nat /\ Cap \in Nat \ {0}

VARIABLES
  \* what the upstream does, chosen at the start
  dialect,        \* the upstream's API
  events,         \* the events it sends
  form,           \* how its last event ends
  ending,         \* how the connection ends
  \* the relay task
  pc,             \* reading, at the leftover, closing the client's stream, done
  next,           \* position of the next event
  chunks,         \* positions of the events decoded and forwarded so far
  ended,          \* stream_ended_normally
  err,            \* stream_error
  pending,        \* items the task still has to put into the channel
  status,         \* status of the log row
  charged,        \* whether usage was recorded
  tokens,         \* the token counts in the books
  \* the channel and the client
  chan,
  client,
  got             \* history: the items the client received

upstream == <<dialect, events, form, ending>>
relay == <<next, chunks, ended, err>>
books == <<status, charged, tokens>>
vars == <<upstream, pc, relay, pending, books, chan, client, got>>

Json == {"text", "null", "usage"}
Kinds == Json \cup {"junk", "end"}
Markers == {"finish", "error", "done"}
Items == [event : 1..MaxEvents] \cup [marker : Markers]
Event(i) == [event |-> i]
Marker(x) == [marker |-> x]

\* The buffer ends inside the last event ("cut"), or after its last line but
\* before the blank line that ends an event ("held"), or at an event's end.
Forms == {"whole", "cut", "held"}

TypeOK ==
  /\ dialect \in {"openai", "anthropic"}
  /\ events \in Seq(Kinds) /\ Len(events) <= MaxEvents
  /\ form \in Forms /\ ending \in {"eof", "error"}
  /\ pc \in {"read", "leftover", "finish", "flush", "done"}
  /\ next \in 1..(MaxEvents + 1)
  /\ chunks \in Seq(1..MaxEvents)
  /\ ended \in BOOLEAN /\ err \in BOOLEAN
  /\ pending \in Seq(Items)
  /\ status \in {"pending", "success", "failed"} /\ charged \in BOOLEAN
  /\ tokens \in {"zero", "reported", "estimated"}
  /\ chan \in Seq(Items) /\ Len(chan) <= Cap
  /\ client \in {"reading", "gone", "closed"}
  /\ got \in Seq(Items)

Init ==
  /\ dialect \in {"openai", "anthropic"}
  /\ events \in BoundedSeq(Kinds, MaxEvents)
  /\ form \in IF events = <<>> THEN {"whole"} ELSE Forms
  /\ ending \in {"eof", "error"}
  /\ pc = "read" /\ next = 1
  /\ chunks = <<>> /\ ended = FALSE /\ err = FALSE
  /\ pending = <<>> /\ status = "pending" /\ charged = FALSE /\ tokens = "zero"
  /\ chan = <<>> /\ client = "reading" /\ got = <<>>

-----------------------------------------------------------------------------
(* Decoding. *)

\* Events of Anthropic end with a blank line, those of OpenAI with the line.
Unterminated(i) ==
  /\ i = Len(events)
  /\ \/ form = "cut"
     \/ (form = "held" /\ dialect = "anthropic")

\* Mutant of Forwarded: the upstream's [DONE] is passed on too.
ForwardedDone(i) == events[i] # "junk"

\* Whatever parses as JSON is collected and passed on; [DONE] does not.
Forwarded(i) ==
  events[i] \in Json \/ (events[i] = "end" /\ dialect = "anthropic")

Decode(i) ==
  /\ ended' = (ended \/ events[i] = "end")
  /\ IF Forwarded(i)
     THEN /\ chunks' = Append(chunks, i)
          /\ pending' = <<Event(i)>>
     ELSE UNCHANGED <<chunks, pending>>
  /\ next' = next + 1

\* The next event is complete in the buffer.
Receive ==
  /\ pc = "read" /\ pending = <<>>
  /\ next <= Len(events) /\ ~Unterminated(next)
  /\ Decode(next)
  /\ UNCHANGED <<upstream, pc, err, books, chan, client, got>>

\* The upstream closes, or the stream fails or times out: the loop ends.
EndOfStream ==
  /\ pc = "read" /\ pending = <<>>
  /\ next > Len(events) \/ Unterminated(next)
  /\ err' = (ending = "error")
  /\ pc' = "leftover"
  /\ UNCHANGED <<upstream, next, chunks, ended, pending, books, chan, client, got>>

\* Text without a newline is still in the buffer.  Lines already taken out of
\* it ("held") are only looked at together with such text.
HasLeftover == next <= Len(events) /\ form = "cut" /\ ~ended

\* What is left in the buffer counts as an event unless the end was seen.
Leftover ==
  /\ pc = "leftover"
  /\ pc' = "finish"
  /\ IF HasLeftover THEN Decode(next)
     ELSE UNCHANGED <<next, chunks, ended, pending>>
  /\ UNCHANGED <<upstream, err, books, chan, client, got>>

-----------------------------------------------------------------------------
(* Sending, and the end of the client's stream. *)

\* Mutants of CanSend: the channel has no bound; a client that left is waited
\* for.
CanSendAlways == TRUE

CanSendToReader == Len(chan) < Cap /\ client # "gone"

\* tx.send waits for room, and fails at once when the receiver is dropped.
CanSend == Len(chan) < Cap \/ client = "gone"

\* Mutant of Push: try_send, which loses an event when the channel is full.
PushOrLose ==
  /\ pending # <<>>
  /\ pending' = Tail(pending)
  /\ chan' = IF Len(chan) < Cap /\ client # "gone"
             THEN Append(chan, Head(pending)) ELSE chan
  /\ UNCHANGED <<upstream, pc, relay, books, client, got>>

\* The result of send is ignored: without a client the relay reads on.
Push ==
  /\ pending # <<>> /\ CanSend
  /\ pending' = Tail(pending)
  /\ chan' = IF client = "gone" THEN chan ELSE Append(chan, Head(pending))
  /\ UNCHANGED <<upstream, pc, relay, books, client, got>>

\* An answer with data and no error ended normally, with or without an end.
EndedNormally == ended \/ (~err /\ chunks # <<>>)

\* Mutant of Closing: a stream without data ends like any other.
ClosingSilently == <<Marker("done")>>

Closing ==
  IF EndedNormally THEN <<Marker("done")>>
  ELSE <<Marker(IF chunks = <<>> THEN "error" ELSE "finish"), Marker("done")>>

Finish ==
  /\ pc = "finish" /\ pending = <<>>
  /\ pc' = "flush"
  /\ pending' = Closing
  /\ UNCHANGED <<upstream, relay, books, chan, client, got>>

\* Mutant of Failed: the books go by how the stream ended.
FailedByEnd == ~EndedNormally

Failed == chunks = <<>>

HasText(positions) == \E i \in positions : events[i] \in {"text", "null"}

\* The counters of an Anthropic stream; what was left in the buffer does not
\* reach them, and the chunks have no field that from_stream_chunks knows.
AnthropicTokens ==
  IF \E i \in ToSet(chunks) : events[i] = "usage" /\ ~Unterminated(i)
  THEN "reported" ELSE "zero"

\* from_stream_chunks: the last usage field counts, and null takes back what was
\* said before it; without counts, but with text, they are estimated.
OpenAITokens ==
  IF \E i \in DOMAIN chunks :
       /\ events[chunks[i]] = "usage"
       /\ \A k \in DOMAIN chunks : k > i => events[chunks[k]] # "null"
  THEN "reported"
  ELSE IF HasText(ToSet(chunks)) THEN "estimated" ELSE "zero"

\* Usage is recorded and the log row closed; the channel closes with the task.
Settle ==
  /\ pc = "flush" /\ pending = <<>>
  /\ pc' = "done"
  /\ status' = IF Failed THEN "failed" ELSE "success"
  /\ charged' = ~Failed
  /\ tokens' = IF dialect = "anthropic" THEN AnthropicTokens ELSE OpenAITokens
  /\ UNCHANGED <<upstream, relay, pending, chan, client, got>>

-----------------------------------------------------------------------------
(* The client. *)

ClientReads ==
  /\ client = "reading" /\ chan # <<>>
  /\ got' = Append(got, Head(chan))
  /\ chan' = Tail(chan)
  /\ UNCHANGED <<upstream, pc, relay, pending, books, client>>

ClientSeesClose ==
  /\ client = "reading" /\ chan = <<>> /\ pc = "done"
  /\ client' = "closed"
  /\ UNCHANGED <<upstream, pc, relay, pending, books, chan, got>>

\* The server drops the receiver and what is in the channel with it.
ClientLeaves ==
  /\ client = "reading"
  /\ client' = "gone"
  /\ chan' = <<>>
  /\ UNCHANGED <<upstream, pc, relay, pending, books, got>>

Relay == Receive \/ EndOfStream \/ Leftover \/ Push \/ Finish \/ Settle
Client == ClientReads \/ ClientSeesClose \/ ClientLeaves
Next == Relay \/ Client

Spec == Init /\ [][Next]_vars

\* The runtime polls the task, and a silent upstream runs into the read
\* timeout.  That a client reads on, or leaves, is an assumption about it.
FairSpec == Spec /\ WF_vars(Relay) /\ WF_vars(ClientReads \/ ClientSeesClose)

-----------------------------------------------------------------------------
(* Properties. *)

IsEvent(x) == "event" \in DOMAIN x
Data(s) == {s[i].event : i \in {k \in DOMAIN s : IsEvent(s[k])}}
Has(s, x) == \E i \in DOMAIN s : s[i] = Marker(x)

\* [DONE] on the wire, the relay's or the upstream's.
IsDone(x) ==
  \/ x = Marker("done")
  \/ /\ IsEvent(x)
     /\ dialect = "openai" /\ events[x.event] = "end"

\* The events a client should see: those that can be decoded and were ended,
\* and an event cut off by the end of the connection, as long as the upstream
\* had not said before that it was finished.
Due(i) ==
  /\ Forwarded(i)
  /\ ~Unterminated(i) \/ (form = "cut" /\ \A k \in 1..(i - 1) : events[k] # "end")

\* Nothing is skipped, repeated or reordered on the way to a slow client, and
\* one that stays gets everything, even when the upstream's connection failed.
Faithful ==
  /\ \A i, k \in DOMAIN got :
       i < k /\ IsEvent(got[i]) /\ IsEvent(got[k]) => got[i].event < got[k].event
  /\ \A i \in Data(got) : Due(i) /\ \A k \in 1..(i - 1) : Due(k) => k \in Data(got)
  /\ client = "closed" => \A k \in DOMAIN events : Due(k) => k \in Data(got)

\* A client's stream is ended exactly once, by the last item it gets, whatever
\* the upstream sent as its own end.
OneTerminator ==
  /\ \A i \in DOMAIN got : IsDone(got[i]) => i = Len(got)
  /\ client = "closed" => Has(got, "done")

\* The books agree with the client: one that was told of an error finds a
\* failed, uncharged request, and one that got data a charged success.  Text is
\* booked with tokens, and counts that reached the client are those in the books,
\* unless a later event took them back or they were cut off; only an Anthropic
\* stream without them goes as if it were empty.
ClientAndBooksAgree ==
  pc = "done" =>
    /\ Has(got, "error") => status = "failed"
    /\ Data(got) # {} => status = "success"
    /\ charged = (status = "success")
    /\ HasText(Data(got)) /\ tokens = "zero" => dialect = "anthropic"
    /\ \A i \in Data(got) :
         events[i] = "usage" /\ tokens # "reported" =>
           IF dialect = "anthropic" THEN Unterminated(i)
           ELSE \E k \in (i + 1) .. Len(events) : events[k] = "null"

\* A client is never left with an empty stream and no error, unless the
\* upstream itself sent nothing but its end.
EmptyMeansError ==
  client = "closed" /\ Data(got) = {} =>
    Has(got, "error") \/ \E i \in DOMAIN events : events[i] = "end"

\* The task ends and settles the books whether the client stays or leaves.
RelayFinishes == <>(pc = "done")
=============================================================================
