------------------------- MODULE StreamRelayProofs -------------------------
(***************************************************************************)
(* What the relay of streams guarantees for every number of events and     *)
(* every capacity of the channel: what the client gets, how its stream     *)
(* ends, and that the books agree with it.                                 *)
(***************************************************************************)
EXTENDS StreamRelay, SequenceTheorems, TLAPS

LEMMA ItemFacts ==
  ASSUME NEW i, NEW x \in Markers
  PROVE  /\ IsEvent(Event(i)) /\ Event(i).event = i
         /\ ~IsEvent(Marker(x)) /\ Event(i) # Marker(x)
         /\ \A y \in Markers : Marker(x) = Marker(y) => x = y
         /\ \A j : Event(i) = Event(j) => i = j
         /\ Marker(x) \in Items
         /\ i \in 1 .. MaxEvents => Event(i) \in Items
<1>1. DOMAIN Event(i) = {"event"} /\ DOMAIN Marker(x) = {"marker"}
  BY DEF Event, Marker
<1>2. IsEvent(Event(i)) /\ ~IsEvent(Marker(x))
  BY <1>1 DEF IsEvent
<1>3. Event(i).event = i /\ Marker(x).marker = x
  BY DEF Event, Marker
<1>4. \A y \in Markers : Marker(x) = Marker(y) => x = y
  BY DEF Marker
<1>5. \A j : Event(i) = Event(j) => i = j
  BY DEF Event
<1>6. Marker(x) \in Items /\ (i \in 1 .. MaxEvents => Event(i) \in Items)
  BY DEF Items, Event, Marker
<1> QED BY <1>2, <1>3, <1>4, <1>5, <1>6

LEMMA ClosingFacts ==
  /\ Closing \in Seq(Items)
  /\ Len(Closing) \in {1, 2}
  /\ Closing[Len(Closing)] = Marker("done")
  /\ \A i \in 1 .. Len(Closing) :
       \E x \in Markers : /\ Closing[i] = Marker(x)
                          /\ x = "done" => i = Len(Closing)
                          /\ x = "error" => chunks = <<>> /\ ~EndedNormally
  /\ chunks = <<>> /\ ~EndedNormally => Closing[1] = Marker("error")
<1>1. Marker("done") \in Items /\ Marker("error") \in Items /\ Marker("finish") \in Items
  BY ItemFacts DEF Markers
<1>2. CASE EndedNormally
  <2>1. Closing = <<Marker("done")>>
    BY <1>2 DEF Closing
  <2> QED BY <1>1, <1>2, <2>1 DEF Markers
<1>3. CASE ~EndedNormally
  <2>1. PICK x \in {"error", "finish"} : /\ Closing = <<Marker(x), Marker("done")>>
                                         /\ x = "error" <=> chunks = <<>>
    BY <1>3 DEF Closing
  <2>2. Len(Closing) = 2 /\ Closing[1] = Marker(x) /\ Closing[2] = Marker("done")
    BY <2>1
  <2>3. Closing \in Seq(Items)
    BY <1>1, <2>1
  <2>4. ASSUME NEW i \in 1 .. 2
        PROVE  \E y \in Markers : /\ Closing[i] = Marker(y)
                                  /\ y = "done" => i = 2
                                  /\ y = "error" => chunks = <<>> /\ ~EndedNormally
    <3>1. CASE i = 1
      BY <1>3, <2>1, <2>2, <3>1 DEF Markers
    <3>2. CASE i = 2
      BY <2>2, <3>2 DEF Markers
    <3> QED BY <3>1, <3>2
  <2> QED BY <2>1, <2>2, <2>3, <2>4
<1> QED BY <1>2, <1>3

-----------------------------------------------------------------------------
(* Types. *)

LEMMA SeqTypes ==
  ASSUME TypeOK
  PROVE  /\ Len(events) \in Nat /\ DOMAIN events = 1 .. Len(events) /\ Len(events) <= MaxEvents
         /\ Len(chunks) \in Nat /\ DOMAIN chunks = 1 .. Len(chunks)
         /\ \A i \in 1 .. Len(chunks) : chunks[i] \in 1 .. MaxEvents
         /\ Len(pending) \in Nat /\ Len(chan) \in Nat
         /\ Len(got) \in Nat /\ DOMAIN got = 1 .. Len(got)
         /\ next \in Nat /\ MaxEvents \in Nat /\ Cap \in Nat
BY RelayAssumption DEF TypeOK

LEMMA DecodeType ==
  ASSUME TypeOK, next <= Len(events), Decode(next)
  PROVE  /\ next' \in 1 .. (MaxEvents + 1)
         /\ chunks' \in Seq(1 .. MaxEvents)
         /\ ended' \in BOOLEAN
         /\ pending' \in Seq(Items)
<1>1. next \in 1 .. MaxEvents /\ next + 1 \in 1 .. (MaxEvents + 1)
  BY SeqTypes DEF TypeOK
<1>2. next' \in 1 .. (MaxEvents + 1) /\ ended' \in BOOLEAN
  BY <1>1 DEF Decode, TypeOK
<1>3. Event(next) \in Items
  BY <1>1, ItemFacts DEF Markers
<1>4. CASE Forwarded(next)
  <2>1. chunks' = Append(chunks, next) /\ pending' = <<Event(next)>>
    BY <1>4 DEF Decode
  <2>2. chunks \in Seq(1 .. MaxEvents)
    BY DEF TypeOK
  <2> QED BY <1>1, <1>2, <1>3, <2>1, <2>2
<1>5. CASE ~Forwarded(next)
  BY <1>2, <1>5 DEF Decode, TypeOK
<1> QED BY <1>4, <1>5

LEMMA InitType == Init => TypeOK
<1> SUFFICES ASSUME Init PROVE TypeOK
  OBVIOUS
<1>1. PICK m \in 0 .. MaxEvents : events \in [1 .. m -> Kinds]
  BY DEF Init, BoundedSeq, SeqOf
<1>2. events \in Seq(Kinds) /\ Len(events) = m
  BY <1>1, RelayAssumption
<1>3. form \in Forms
  BY DEF Init, Forms
<1>4. /\ <<>> \in Seq(1 .. MaxEvents) /\ <<>> \in Seq(Items) /\ Len(<<>>) = 0
      /\ 1 \in 1 .. (MaxEvents + 1)
  BY RelayAssumption
<1>5. Len(events) <= MaxEvents
  BY <1>1, <1>2, RelayAssumption
<1>6. /\ next \in 1 .. (MaxEvents + 1) /\ chunks \in Seq(1 .. MaxEvents)
      /\ pending \in Seq(Items) /\ chan \in Seq(Items) /\ got \in Seq(Items)
  BY <1>4 DEF Init
<1>7. Len(chan) <= Cap
  <2>1. Len(chan) = 0 /\ Cap \in Nat
    BY <1>4, RelayAssumption DEF Init
  <2> QED BY <2>1
<1> QED BY <1>2, <1>3, <1>5, <1>6, <1>7 DEF Init, TypeOK

LEMMA StepType == TypeOK /\ [Next]_vars => TypeOK'
<1> SUFFICES ASSUME TypeOK, [Next]_vars PROVE TypeOK'
  OBVIOUS
<1>1. CASE Receive
  <2>1. next <= Len(events) /\ Decode(next)
    BY <1>1 DEF Receive
  <2> QED BY <1>1, <2>1, DecodeType DEF Receive, TypeOK, upstream, books
<1>2. CASE EndOfStream
  BY <1>2 DEF EndOfStream, TypeOK, upstream, books
<1>3. CASE Leftover
  <2>1. CASE HasLeftover
    <3>1. next <= Len(events) /\ Decode(next)
      BY <1>3, <2>1 DEF Leftover, HasLeftover
    <3> QED BY <1>3, <3>1, DecodeType DEF Leftover, TypeOK, upstream, books
  <2>2. CASE ~HasLeftover
    BY <1>3, <2>2 DEF Leftover, TypeOK, upstream, books
  <2> QED BY <2>1, <2>2
<1>4. CASE Push
  <2>1. pending \in Seq(Items) /\ pending # <<>> /\ chan \in Seq(Items) /\ Len(chan) <= Cap
    BY <1>4 DEF Push, TypeOK
  <2>2. Tail(pending) \in Seq(Items) /\ Head(pending) \in Items
    BY <2>1
  <2>3. chan' \in Seq(Items) /\ Len(chan') <= Cap
    <3>1. CASE client = "gone"
      BY <1>4, <2>1, <3>1 DEF Push
    <3>2. CASE client # "gone"
      <4>1. chan' = Append(chan, Head(pending)) /\ Len(chan) < Cap
        BY <1>4, <3>2 DEF Push, CanSend
      <4>2. Cap \in Nat /\ Len(chan) \in Nat
        BY SeqTypes
      <4> QED BY <2>1, <2>2, <4>1, <4>2, AppendProperties
    <3> QED BY <3>1, <3>2
  <2> QED BY <1>4, <2>2, <2>3 DEF Push, TypeOK, upstream, relay, books
<1>5. CASE Finish
  BY <1>5, ClosingFacts DEF Finish, TypeOK, upstream, relay, books
<1>6. CASE Settle
  BY <1>6 DEF Settle, TypeOK, AnthropicTokens, OpenAITokens, upstream, relay
<1>7. CASE ClientReads
  <2>1. chan \in Seq(Items) /\ chan # <<>> /\ got \in Seq(Items) /\ Len(chan) <= Cap
    BY <1>7 DEF ClientReads, TypeOK
  <2>2. Head(chan) \in Items /\ Tail(chan) \in Seq(Items) /\ Len(Tail(chan)) = Len(chan) - 1 /\ Len(chan) \in Nat
    BY <2>1, HeadTailProperties
  <2>3. Append(got, Head(chan)) \in Seq(Items) /\ Len(Tail(chan)) <= Cap
    BY <2>1, <2>2, SeqTypes
  <2> QED BY <1>7, <2>2, <2>3 DEF ClientReads, TypeOK, upstream, relay, books
<1>8. CASE ClientSeesClose
  BY <1>8 DEF ClientSeesClose, TypeOK, upstream, relay, books
<1>9. CASE ClientLeaves
  <2>1. <<>> \in Seq(Items) /\ Len(<<>>) = 0 /\ Cap \in Nat
    BY RelayAssumption
  <2> QED BY <1>9, <2>1 DEF ClientLeaves, TypeOK, upstream, relay, books
<1>10. CASE UNCHANGED vars
  BY <1>10 DEF vars, TypeOK, upstream, relay, books
<1> QED BY <1>1, <1>2, <1>3, <1>4, <1>5, <1>6, <1>7, <1>8, <1>9, <1>10 DEF Next, Relay, Client

\* Every variable keeps its type, and the channel its capacity.
THEOREM TypeSafe == Spec => []TypeOK
BY InitType, StepType, PTL DEF Spec

-----------------------------------------------------------------------------
(* Decoding: the chunks are the due events among those looked at, in order. *)

ReadInv ==
  /\ next <= Len(events) + 1
  /\ \A i, k \in 1 .. Len(chunks) : i < k => chunks[i] < chunks[k]
  /\ \A i \in 1 .. Len(chunks) : chunks[i] < next /\ Due(chunks[i])
  /\ \A k \in 1 .. (next - 1) : Due(k) => \E i \in 1 .. Len(chunks) : chunks[i] = k
  /\ ended <=> \E k \in 1 .. (next - 1) : events[k] = "end"
  /\ pc = "leftover" => next > Len(events) \/ Unterminated(next)
  /\ pc \in {"finish", "flush", "done"} => \A k \in 1 .. Len(events) : Due(k) => k < next

\* What is due does not change.
LEMMA DueStays ==
  ASSUME UNCHANGED upstream, NEW k
  PROVE  (Due(k) <=> Due(k)') /\ (Unterminated(k) <=> Unterminated(k)')
BY DEF upstream, Due, Forwarded, Unterminated

LEMMA DecodeRead ==
  ASSUME TypeOK, ReadInv, UNCHANGED upstream, next <= Len(events), Decode(next),
         Forwarded(next) <=> Due(next)
  PROVE  /\ next' <= Len(events') + 1
         /\ \A i, k \in 1 .. Len(chunks') : i < k => chunks'[i] < chunks'[k]
         /\ \A i \in 1 .. Len(chunks') : chunks'[i] < next' /\ Due(chunks'[i])
         /\ \A k \in 1 .. (next' - 1) : Due(k) => \E i \in 1 .. Len(chunks') : chunks'[i] = k
         /\ ended' <=> \E k \in 1 .. (next' - 1) : events'[k] = "end"
<1>1. /\ next' = next + 1 /\ next \in Nat /\ next \in 1 .. MaxEvents /\ events' = events
      /\ Len(events) \in Nat /\ Len(chunks) \in Nat /\ chunks \in Seq(1 .. MaxEvents)
      /\ \A i \in 1 .. Len(chunks) : chunks[i] \in Nat
      /\ MaxEvents \in Nat
  BY SeqTypes DEF Decode, upstream, TypeOK
<1>2. next' <= Len(events') + 1
  BY <1>1
<1>3. ended' <=> \E k \in 1 .. (next' - 1) : events'[k] = "end"
  <2>1. 1 .. (next' - 1) = (1 .. (next - 1)) \cup {next}
    BY <1>1
  <2>2. ended' <=> ended \/ events[next] = "end"
    BY DEF Decode
  <2> QED BY <1>1, <2>1, <2>2 DEF ReadInv
<1>4. CASE Forwarded(next)
  <2>1. /\ chunks' = Append(chunks, next) /\ Len(chunks') = Len(chunks) + 1
        /\ chunks'[Len(chunks) + 1] = next
        /\ \A i \in 1 .. Len(chunks) : chunks'[i] = chunks[i]
    <3>1. chunks' = Append(chunks, next)
      BY <1>4 DEF Decode
    <3>2. next \in 1 .. MaxEvents /\ chunks \in Seq(1 .. MaxEvents)
      BY <1>1
    <3>3. /\ Len(Append(chunks, next)) = Len(chunks) + 1
          /\ Append(chunks, next)[Len(chunks) + 1] = next
          /\ \A i \in 1 .. Len(chunks) : Append(chunks, next)[i] = chunks[i]
      BY ONLY <3>2, AppendProperties
    <3> QED BY ONLY <3>1, <3>3
  <2>2. ASSUME NEW i \in 1 .. Len(chunks'), i # Len(chunks) + 1 PROVE i \in 1 .. Len(chunks)
    BY <1>1, <2>1, <2>2
  <2>3. ASSUME NEW i \in 1 .. Len(chunks'), NEW k \in 1 .. Len(chunks'), i < k
        PROVE  chunks'[i] < chunks'[k]
    <3>1. i \in 1 .. Len(chunks)
      BY <1>1, <2>1, <2>3
    <3>2. CASE k = Len(chunks) + 1
      BY <2>1, <3>1, <3>2 DEF ReadInv
    <3>3. CASE k # Len(chunks) + 1
      BY <2>1, <2>2, <2>3, <3>1, <3>3 DEF ReadInv
    <3> QED BY <3>2, <3>3
  <2>4. ASSUME NEW i \in 1 .. Len(chunks')
        PROVE  chunks'[i] < next' /\ Due(chunks'[i])
    <3>1. CASE i = Len(chunks) + 1
      BY <1>1, <1>4, <2>1, <3>1
    <3>2. CASE i # Len(chunks) + 1
      <4>1. i \in 1 .. Len(chunks)
        BY <2>2, <3>2
      <4>2. chunks[i] < next /\ Due(chunks[i]) /\ chunks[i] \in Nat
        BY <1>1, <4>1 DEF ReadInv
      <4> QED BY <1>1, <2>1, <4>1, <4>2
    <3> QED BY <3>1, <3>2
  <2>5. ASSUME NEW k \in 1 .. (next' - 1), Due(k)
        PROVE  \E i \in 1 .. Len(chunks') : chunks'[i] = k
    <3>1. CASE k = next
      BY <1>1, <2>1, <3>1
    <3>2. CASE k # next
      <4>1. k \in 1 .. (next - 1)
        BY <1>1, <3>2
      <4>2. PICK i \in 1 .. Len(chunks) : chunks[i] = k
        BY <2>5, <4>1 DEF ReadInv
      <4>3. i \in 1 .. Len(chunks') /\ chunks'[i] = k
        BY <1>1, <2>1, <4>2
      <4> QED BY <4>3
    <3> QED BY <3>1, <3>2
  <2> QED BY <1>2, <1>3, <2>3, <2>4, <2>5
<1>5. CASE ~Forwarded(next)
  <2>1. chunks' = chunks
    BY <1>5 DEF Decode
  <2>2. ASSUME NEW i \in 1 .. Len(chunks) PROVE chunks[i] < next'
    <3>1. chunks[i] < next /\ chunks[i] \in Nat
      BY <1>1 DEF ReadInv
    <3> QED BY <1>1, <3>1
  <2>3. ASSUME NEW k \in 1 .. (next' - 1), Due(k)
        PROVE  \E i \in 1 .. Len(chunks') : chunks'[i] = k
    <3>1. k \in 1 .. (next - 1)
      BY <1>1, <1>5, <2>3
    <3> QED BY <2>1, <2>3, <3>1 DEF ReadInv
  <2> QED BY <1>2, <1>3, <2>1, <2>2, <2>3 DEF ReadInv
<1> QED BY <1>4, <1>5

LEMMA ReadInit == Init => ReadInv
<1> SUFFICES ASSUME Init PROVE ReadInv
  OBVIOUS
<1>1. Len(chunks) = 0 /\ next = 1 /\ ended = FALSE /\ pc = "read"
  BY DEF Init
<1>2. Len(events) \in Nat
  BY InitType, SeqTypes
<1> QED BY <1>1, <1>2 DEF ReadInv

LEMMA ReadStep == TypeOK /\ ReadInv /\ [Next]_vars => ReadInv'
<1> SUFFICES ASSUME TypeOK, ReadInv, [Next]_vars PROVE ReadInv'
  OBVIOUS
<1>1. /\ Len(events) \in Nat /\ next \in 1 .. (MaxEvents + 1) /\ next \in Nat
  BY SeqTypes DEF TypeOK
<1>2. UNCHANGED upstream
  BY DEF Next, Relay, Client, Receive, EndOfStream, Leftover, Push, Finish, Settle,
         ClientReads, ClientSeesClose, ClientLeaves, vars
<1>3. \A k : (Due(k) <=> Due(k)') /\ (Unterminated(k) <=> Unterminated(k)')
  BY <1>2, DueStays
<1>4. events' = events
  BY <1>2 DEF upstream
<1>5. CASE Receive
  <2>1. next <= Len(events) /\ ~Unterminated(next) /\ Decode(next) /\ pc' = "read"
    BY <1>5 DEF Receive
  <2>2. Forwarded(next) <=> Due(next)
    BY <2>1 DEF Due
  <2> QED BY <1>2, <1>3, <2>1, <2>2, DecodeRead DEF ReadInv
<1>6. CASE EndOfStream
  BY <1>3, <1>4, <1>6 DEF EndOfStream, ReadInv
<1>7. CASE Leftover
  <2>1. /\ pc = "leftover" /\ pc' = "finish"
        /\ next > Len(events) \/ Unterminated(next)
    BY <1>7 DEF Leftover, ReadInv
  <2>2. CASE HasLeftover
    <3>1. next <= Len(events) /\ Decode(next) /\ form = "cut" /\ ~ended
      BY <1>7, <2>2 DEF Leftover, HasLeftover
    <3>2. Forwarded(next) <=> Due(next)
      BY <3>1 DEF Due, ReadInv
    <3>3. next' = next + 1 /\ next = Len(events)
      BY <1>1, <2>1, <3>1 DEF Decode, Unterminated
    <3>4. \A k \in 1 .. Len(events') : k < next'
      BY <1>1, <1>4, <3>3
    <3> QED BY <1>2, <1>3, <2>1, <3>1, <3>2, <3>4, DecodeRead DEF ReadInv
  <2>3. CASE ~HasLeftover
    <3>1. next' = next /\ chunks' = chunks /\ ended' = ended
      BY <1>7, <2>3 DEF Leftover
    <3>2. ASSUME NEW k \in 1 .. Len(events), Due(k) PROVE k < next
      <4>1. CASE next > Len(events)
        BY <1>1, <4>1
      <4>2. CASE next <= Len(events)
        <5>1. Unterminated(next) /\ next = Len(events)
          BY <1>1, <2>1, <4>2 DEF Unterminated
        <5>2. form # "cut" \/ ended
          BY <2>3, <4>2 DEF HasLeftover
        <5>3. ~Due(next)
          BY <5>1, <5>2 DEF Due, ReadInv
        <5> QED BY <1>1, <3>2, <5>1, <5>3
      <4> QED BY <1>1, <4>1, <4>2
    <3> QED BY <1>3, <1>4, <2>1, <3>1, <3>2 DEF ReadInv
  <2> QED BY <2>2, <2>3
<1>8. CASE Push \/ Settle \/ Finish \/ ClientReads \/ ClientSeesClose \/ ClientLeaves \/ UNCHANGED vars
  <2>1. /\ next' = next /\ chunks' = chunks /\ ended' = ended
        /\ pc' = pc \/ (pc \in {"finish", "flush"} /\ pc' \in {"flush", "done"})
    BY <1>8 DEF Push, Settle, Finish, ClientReads, ClientSeesClose, ClientLeaves, vars, relay
  <2> QED BY <1>3, <1>4, <2>1 DEF ReadInv
<1> QED BY <1>5, <1>6, <1>7, <1>8 DEF Next, Relay, Client

-----------------------------------------------------------------------------
(* Sending: what the client got, what is in the channel and what waits for  *)
(* room make up the chunks and then the closing markers.                    *)

Closed == pc \in {"flush", "done"}
SentLen == Len(chunks) + (IF Closed THEN Len(Closing) ELSE 0)
Sent ==
  [i \in 1 .. SentLen |->
     IF i <= Len(chunks) THEN Event(chunks[i]) ELSE Closing[i - Len(chunks)]]

PipeInv ==
  /\ Len(got) <= SentLen
  /\ \A i \in 1 .. Len(got) : got[i] = Sent[i]
  /\ client # "gone" =>
       /\ Len(got) + Len(chan) + Len(pending) = SentLen
       /\ \A i \in 1 .. Len(chan) : chan[i] = Sent[Len(got) + i]
       /\ \A i \in 1 .. Len(pending) : pending[i] = Sent[Len(got) + Len(chan) + i]
  /\ client = "closed" => pc = "done" /\ Len(chan) = 0
  /\ pc \in {"leftover", "done"} => Len(pending) = 0

LEMMA SentType ==
  ASSUME TypeOK
  PROVE  /\ SentLen \in Nat /\ Len(chunks) \in Nat /\ Len(chunks) <= SentLen
         /\ Len(Closing) \in Nat
         /\ ~Closed => SentLen = Len(chunks)
         /\ Len(got) \in Nat /\ Len(chan) \in Nat /\ Len(pending) \in Nat
<1>1. Len(Closing) \in Nat
  BY ClosingFacts
<1>2. /\ Len(chunks) \in Nat /\ Len(got) \in Nat
      /\ Len(chan) \in Nat /\ Len(pending) \in Nat
  BY SeqTypes
<1>3. CASE Closed
  BY <1>1, <1>2, <1>3 DEF SentLen
<1>4. CASE ~Closed
  BY <1>1, <1>2, <1>4 DEF SentLen
<1> QED BY <1>3, <1>4

\* What was sent stays so while chunks and closing do.
LEMMA SentStays ==
  ASSUME TypeOK, chunks' = chunks, Closed' = Closed,
         Closed => ended' = ended /\ err' = err
  PROVE  /\ SentLen' = SentLen
         /\ \A i \in 1 .. SentLen : Sent'[i] = Sent[i]
<1>1. CASE Closed
  <2>1. Closing' = Closing
    BY <1>1 DEF Closing, EndedNormally
  <2> QED BY <2>1 DEF SentLen, Sent
<1>2. CASE ~Closed
  <2>1. SentLen = Len(chunks) /\ SentLen' = Len(chunks) /\ Len(chunks) \in Nat
    BY <1>2, SentType DEF SentLen
  <2> QED BY <2>1 DEF Sent
<1> QED BY <1>1, <1>2

\* The steps that leave pending, channel and client alone, and what was sent too.
LEMMA PipeStays ==
  ASSUME TypeOK, PipeInv, chunks' = chunks, Closed' = Closed,
         Closed => ended' = ended /\ err' = err,
         pending' = pending, chan' = chan, got' = got,
         client' = client \/ (pc' = "done" /\ Len(chan) = 0 /\ client # "gone" /\ client' = "closed"),
         pc' = pc \/ pc \notin {"leftover", "done"},
         pc' \in {"leftover", "done"} => Len(pending) = 0
  PROVE  PipeInv'
<1>1. SentLen' = SentLen /\ \A i \in 1 .. SentLen : Sent'[i] = Sent[i]
  BY SentStays
<1>2. SentLen \in Nat /\ Len(got) \in Nat /\ Len(chan) \in Nat /\ Len(pending) \in Nat
  BY SentType
<1>3. Len(got') <= SentLen' /\ \A i \in 1 .. Len(got') : got'[i] = Sent'[i]
  BY <1>1, <1>2 DEF PipeInv
<1>4. ASSUME client' # "gone"
      PROVE  /\ Len(got') + Len(chan') + Len(pending') = SentLen'
             /\ \A i \in 1 .. Len(chan') : chan'[i] = Sent'[Len(got') + i]
             /\ \A i \in 1 .. Len(pending') : pending'[i] = Sent'[Len(got') + Len(chan') + i]
  <2>1. /\ Len(got) + Len(chan) + Len(pending) = SentLen
        /\ \A i \in 1 .. Len(chan) : chan[i] = Sent[Len(got) + i]
        /\ \A i \in 1 .. Len(pending) : pending[i] = Sent[Len(got) + Len(chan) + i]
    BY <1>4 DEF PipeInv
  <2>2. \A i \in 1 .. Len(chan) : Len(got) + i \in 1 .. SentLen
    BY <1>2, <2>1
  <2>3. \A i \in 1 .. Len(pending) : Len(got) + Len(chan) + i \in 1 .. SentLen
    BY <1>2, <2>1
  <2> QED BY <1>1, <2>1, <2>2, <2>3
<1>5. client' = "closed" => pc' = "done" /\ Len(chan') = 0
  BY DEF PipeInv
<1>6. pc' \in {"leftover", "done"} => Len(pending') = 0
  BY DEF PipeInv
<1> QED BY <1>3, <1>4, <1>5, <1>6 DEF PipeInv

\* More is sent, and nothing was waiting for room before.
LEMMA PipeGrows ==
  ASSUME TypeOK, PipeInv, Len(pending) = 0, chan' = chan, got' = got, client' = client,
         client # "closed", pc' \notin {"leftover", "done"} \/ Len(pending') = 0,
         Len(pending') \in Nat, SentLen' = SentLen + Len(pending'),
         \A i \in 1 .. SentLen : Sent'[i] = Sent[i],
         \A i \in 1 .. Len(pending') : pending'[i] = Sent'[SentLen + i]
  PROVE  PipeInv'
<1>1. SentLen \in Nat /\ Len(got) \in Nat /\ Len(chan) \in Nat
  BY SentType
<1>2. Len(got') <= SentLen' /\ \A i \in 1 .. Len(got') : got'[i] = Sent'[i]
  BY <1>1 DEF PipeInv
<1>3. ASSUME client' # "gone"
      PROVE  /\ Len(got') + Len(chan') + Len(pending') = SentLen'
             /\ \A i \in 1 .. Len(chan') : chan'[i] = Sent'[Len(got') + i]
             /\ \A i \in 1 .. Len(pending') : pending'[i] = Sent'[Len(got') + Len(chan') + i]
  <2>1. /\ Len(got) + Len(chan) = SentLen
        /\ \A i \in 1 .. Len(chan) : chan[i] = Sent[Len(got) + i]
    BY <1>1, <1>3 DEF PipeInv
  <2>2. \A i \in 1 .. Len(chan) : Len(got) + i \in 1 .. SentLen
    BY <1>1, <2>1
  <2> QED BY <1>1, <2>1, <2>2
<1> QED BY <1>2, <1>3 DEF PipeInv

LEMMA PipeInit == Init => PipeInv
<1> SUFFICES ASSUME Init PROVE PipeInv
  OBVIOUS
<1>1. Len(got) = 0 /\ Len(chan) = 0 /\ Len(pending) = 0 /\ Len(chunks) = 0 /\ pc = "read" /\ client = "reading"
  BY DEF Init
<1>2. SentLen = 0
  BY <1>1 DEF SentLen, Closed
<1> QED BY <1>1, <1>2 DEF PipeInv

LEMMA DecodePipe ==
  ASSUME TypeOK, PipeInv, next <= Len(events), Decode(next), Len(pending) = 0,
         pc \in {"read", "leftover"}, pc' \in {"read", "finish"},
         chan' = chan, got' = got, client' = client, pending = <<>>
  PROVE  PipeInv'
<1>1. ~Closed /\ ~Closed' /\ client # "closed"
  BY DEF Closed, PipeInv
<1>2. SentLen = Len(chunks) /\ Len(chunks) \in Nat /\ SentLen' = Len(chunks')
  BY <1>1, SentType DEF SentLen
<1>3. CASE Forwarded(next)
  <2>1. /\ chunks' = Append(chunks, next) /\ pending' = <<Event(next)>>
        /\ chunks \in Seq(1 .. MaxEvents) /\ next \in 1 .. MaxEvents
    BY <1>3, SeqTypes DEF Decode, TypeOK
  <2>2. /\ Len(chunks') = Len(chunks) + 1 /\ chunks'[Len(chunks) + 1] = next
        /\ \A i \in 1 .. Len(chunks) : chunks'[i] = chunks[i]
    BY <2>1, AppendProperties
  <2>3. Len(pending') = 1 /\ pending'[1] = Event(next)
    BY <2>1
  <2>4. \A i \in 1 .. SentLen : Sent'[i] = Sent[i]
    BY <1>2, <2>2 DEF Sent
  <2>5. Sent'[SentLen + 1] = Event(next)
    BY <1>2, <2>2 DEF Sent
  <2>6. SentLen' = SentLen + Len(pending') /\ Len(pending') \in Nat
    BY <1>2, <2>2, <2>3
  <2>7. \A i \in 1 .. Len(pending') : pending'[i] = Sent'[SentLen + i]
    BY <2>3, <2>5
  <2>8. pc' \notin {"leftover", "done"}
    OBVIOUS
  <2> QED BY <1>1, <2>4, <2>6, <2>7, <2>8, PipeGrows
<1>4. CASE ~Forwarded(next)
  <2>1. chunks' = chunks /\ pending' = pending
    BY <1>4 DEF Decode
  <2>2. \A i \in 1 .. SentLen : Sent'[i] = Sent[i]
    BY <1>2, <2>1 DEF Sent
  <2>3. SentLen' = SentLen + Len(pending') /\ Len(pending') = 0
    BY <1>2, <2>1
  <2>4. \A i \in 1 .. Len(pending') : pending'[i] = Sent'[SentLen + i]
    BY <2>3
  <2> QED BY <1>1, <2>2, <2>3, <2>4, PipeGrows
<1> QED BY <1>3, <1>4

LEMMA PushPipe ==
  ASSUME TypeOK, PipeInv, Push
  PROVE  PipeInv'
<1>1. /\ pending \in Seq(Items) /\ chan \in Seq(Items) /\ pending # <<>> /\ pending' = Tail(pending)
      /\ chunks' = chunks /\ ended' = ended /\ err' = err /\ got' = got /\ client' = client /\ pc' = pc
  BY DEF Push, TypeOK, relay
<1>2. /\ Head(pending) = pending[1] /\ Head(pending) \in Items
      /\ Len(Tail(pending)) = Len(pending) - 1 /\ Len(pending) \in Nat \ {0}
      /\ \A i \in 1 .. (Len(pending) - 1) : Tail(pending)[i] = pending[i + 1]
  BY <1>1
<1>3. Closed' = Closed
  BY <1>1 DEF Closed
<1>4. SentLen' = SentLen /\ \A i \in 1 .. SentLen : Sent'[i] = Sent[i]
  BY <1>1, <1>3, SentStays
<1>5. SentLen \in Nat /\ Len(got) \in Nat /\ Len(chan) \in Nat
  BY SentType
<1>6. Len(got') <= SentLen' /\ \A i \in 1 .. Len(got') : got'[i] = Sent'[i]
  BY <1>1, <1>4, <1>5 DEF PipeInv
<1>7. ASSUME client # "gone"
      PROVE  /\ Len(got') + Len(chan') + Len(pending') = SentLen'
             /\ \A i \in 1 .. Len(chan') : chan'[i] = Sent'[Len(got') + i]
             /\ \A i \in 1 .. Len(pending') : pending'[i] = Sent'[Len(got') + Len(chan') + i]
  <2>1. /\ Len(got) + Len(chan) + Len(pending) = SentLen
        /\ \A i \in 1 .. Len(chan) : chan[i] = Sent[Len(got) + i]
        /\ \A i \in 1 .. Len(pending) : pending[i] = Sent[Len(got) + Len(chan) + i]
    BY <1>7 DEF PipeInv
  <2>2. chan' = Append(chan, Head(pending))
    BY <1>7 DEF Push
  <2>3. /\ Len(chan') = Len(chan) + 1 /\ chan'[Len(chan) + 1] = pending[1]
        /\ \A i \in 1 .. Len(chan) : chan'[i] = chan[i]
    BY <1>1, <1>2, <2>2, AppendProperties
  <2>4. Len(got') + Len(chan') + Len(pending') = SentLen'
    <3>1. Len(pending') = Len(pending) - 1 /\ Len(got') = Len(got)
      BY <1>1, <1>2
    <3>2. SentLen' = SentLen /\ Len(got) + Len(chan) + Len(pending) = SentLen
      BY <1>4, <2>1
    <3>3. Len(chan') = Len(chan) + 1
      BY <2>3
    <3> QED BY <1>2, <1>5, <3>1, <3>2, <3>3
  <2>5. ASSUME NEW i \in 1 .. Len(chan') PROVE chan'[i] = Sent'[Len(got') + i]
    <3>1. Len(got) + i \in 1 .. SentLen
      BY <1>2, <1>5, <2>1, <2>3
    <3>2. chan'[i] = Sent[Len(got) + i]
      <4>1. CASE i = Len(chan) + 1
        BY <1>2, <1>5, <2>1, <2>3, <4>1
      <4>2. CASE i # Len(chan) + 1
        <5>1. i \in 1 .. Len(chan)
          BY <1>5, <2>3, <4>2
        <5> QED BY <2>1, <2>3, <5>1
      <4> QED BY <4>1, <4>2
    <3> QED BY <1>1, <1>4, <3>1, <3>2
  <2>6. ASSUME NEW i \in 1 .. Len(pending') PROVE pending'[i] = Sent'[Len(got') + Len(chan') + i]
    <3>1. i + 1 \in 1 .. Len(pending) /\ i \in 1 .. (Len(pending) - 1)
      BY <1>1, <1>2
    <3>2. /\ Len(got) + Len(chan) + (i + 1) \in 1 .. SentLen
          /\ Len(got') + Len(chan') + i = Len(got) + Len(chan) + (i + 1)
      BY <1>1, <1>2, <1>5, <2>1, <2>3, <3>1
    <3>3. pending'[i] = Sent[Len(got) + Len(chan) + (i + 1)]
      BY <1>1, <1>2, <2>1, <3>1
    <3> QED BY <1>4, <3>2, <3>3
  <2> QED BY <2>4, <2>5, <2>6
<1>8. client # "closed" /\ pc \notin {"leftover", "done"}
  BY <1>2 DEF PipeInv
<1> QED BY <1>1, <1>6, <1>7, <1>8 DEF PipeInv

LEMMA FinishPipe ==
  ASSUME TypeOK, PipeInv, Finish
  PROVE  PipeInv'
<1>1. /\ pc = "finish" /\ pc' = "flush" /\ pending = <<>> /\ pending' = Closing
      /\ chunks' = chunks /\ ended' = ended /\ err' = err /\ got' = got /\ chan' = chan /\ client' = client
  BY DEF Finish, relay
<1>2. Closing' = Closing
  BY <1>1 DEF Closing, EndedNormally
<1>3. /\ SentLen = Len(chunks) /\ SentLen' = Len(chunks) + Len(Closing) /\ Len(chunks) \in Nat
      /\ Len(Closing) \in Nat
  BY <1>1, <1>2, SentType DEF SentLen, Closed
<1>4. \A i \in 1 .. SentLen : Sent'[i] = Sent[i]
  BY <1>1, <1>3 DEF Sent
<1>5. ASSUME NEW i \in 1 .. Len(pending') PROVE pending'[i] = Sent'[SentLen + i]
  <2>1. ~(SentLen + i <= Len(chunks)) /\ (SentLen + i) - Len(chunks) = i
    BY <1>1, <1>3
  <2>2. SentLen + i \in 1 .. SentLen'
    BY <1>1, <1>3
  <2> QED BY <1>1, <1>2, <2>1, <2>2 DEF Sent
<1>6. client # "closed" /\ Len(pending) = 0
  BY <1>1 DEF PipeInv
<1>7. SentLen' = SentLen + Len(pending') /\ Len(pending') \in Nat /\ pc' \notin {"leftover", "done"}
  BY <1>1, <1>3
<1> QED BY <1>1, <1>4, <1>5, <1>6, <1>7, PipeGrows

LEMMA ClientReadsPipe ==
  ASSUME TypeOK, PipeInv, ClientReads
  PROVE  PipeInv'
<1>1. /\ chan \in Seq(Items) /\ got \in Seq(Items) /\ chan # <<>> /\ client = "reading" /\ client' = client
      /\ got' = Append(got, Head(chan)) /\ chan' = Tail(chan) /\ pending' = pending
      /\ chunks' = chunks /\ ended' = ended /\ err' = err /\ pc' = pc
  BY DEF ClientReads, TypeOK, relay
<1>2. /\ Head(chan) = chan[1] /\ Head(chan) \in Items
      /\ Len(Tail(chan)) = Len(chan) - 1 /\ Len(chan) \in Nat \ {0}
      /\ \A i \in 1 .. (Len(chan) - 1) : Tail(chan)[i] = chan[i + 1]
  BY <1>1
<1>3. Closed' = Closed
  BY <1>1 DEF Closed
<1>4. SentLen' = SentLen /\ \A i \in 1 .. SentLen : Sent'[i] = Sent[i]
  BY <1>1, <1>3, SentStays
<1>5. SentLen \in Nat /\ Len(got) \in Nat /\ Len(pending) \in Nat
  BY SentType
<1>6. /\ Len(got) + Len(chan) + Len(pending) = SentLen
      /\ \A i \in 1 .. Len(got) : got[i] = Sent[i]
      /\ \A i \in 1 .. Len(chan) : chan[i] = Sent[Len(got) + i]
      /\ \A i \in 1 .. Len(pending) : pending[i] = Sent[Len(got) + Len(chan) + i]
  BY <1>1 DEF PipeInv
<1>7. /\ Len(got') = Len(got) + 1 /\ got'[Len(got) + 1] = chan[1]
      /\ \A i \in 1 .. Len(got) : got'[i] = got[i]
  BY <1>1, <1>2, AppendProperties
<1>8. /\ Len(got') + Len(chan') + Len(pending') = SentLen' /\ Len(got') <= SentLen'
      /\ Len(chan') = Len(chan) - 1
  <2>1. Len(chan') = Len(chan) - 1 /\ Len(pending') = Len(pending)
    BY <1>1, <1>2
  <2>2. SentLen' = SentLen /\ Len(got) + Len(chan) + Len(pending) = SentLen
    BY <1>4, <1>6
  <2>3. Len(got') = Len(got) + 1
    BY <1>7
  <2> QED BY <1>2, <1>5, <2>1, <2>2, <2>3
<1>9. ASSUME NEW i \in 1 .. Len(got') PROVE got'[i] = Sent'[i]
  <2>1. i \in 1 .. SentLen
    BY <1>2, <1>5, <1>6, <1>7
  <2>2. got'[i] = Sent[i]
    <3>1. CASE i = Len(got) + 1
      BY <1>2, <1>6, <1>7, <3>1
    <3>2. CASE i # Len(got) + 1
      <4>1. i \in 1 .. Len(got)
        BY <1>5, <1>7, <3>2
      <4> QED BY <1>6, <1>7, <4>1
    <3> QED BY <3>1, <3>2
  <2> QED BY <1>4, <2>1, <2>2
<1>10. ASSUME NEW i \in 1 .. Len(chan') PROVE chan'[i] = Sent'[Len(got') + i]
  <2>1. /\ i + 1 \in 1 .. Len(chan) /\ i \in 1 .. (Len(chan) - 1)
        /\ Len(got) + (i + 1) \in 1 .. SentLen /\ Len(got') + i = Len(got) + (i + 1)
    BY <1>2, <1>5, <1>6, <1>7, <1>8
  <2>2. chan'[i] = Sent[Len(got) + (i + 1)]
    BY <1>1, <1>2, <1>6, <2>1
  <2> QED BY <1>4, <2>1, <2>2
<1>11. ASSUME NEW i \in 1 .. Len(pending') PROVE pending'[i] = Sent'[Len(got') + Len(chan') + i]
  <2>1. /\ Len(got) + Len(chan) + i \in 1 .. SentLen
        /\ Len(got') + Len(chan') + i = Len(got) + Len(chan) + i
    BY <1>1, <1>2, <1>5, <1>6, <1>7, <1>8
  <2>2. pending'[i] = Sent[Len(got) + Len(chan) + i]
    BY <1>1, <1>6
  <2> QED BY <1>4, <2>1, <2>2
<1> QED BY <1>1, <1>8, <1>9, <1>10, <1>11 DEF PipeInv

LEMMA PipeStep == TypeOK /\ PipeInv /\ [Next]_vars => PipeInv'
<1> SUFFICES ASSUME TypeOK, PipeInv, [Next]_vars PROVE PipeInv'
  OBVIOUS
<1>1. CASE Receive
  BY <1>1, DecodePipe DEF Receive
<1>2. CASE EndOfStream
  <2>1. Closed' = Closed /\ ~Closed /\ Len(pending) = 0
    BY <1>2 DEF EndOfStream, Closed
  <2> QED BY <1>2, <2>1, PipeStays DEF EndOfStream
<1>3. CASE Leftover
  <2>1. pc = "leftover" /\ pc' = "finish" /\ Len(pending) = 0 /\ pending \in Seq(Items)
    BY <1>3 DEF Leftover, PipeInv, TypeOK
  <2>2. CASE HasLeftover
    BY <1>3, <2>1, <2>2, DecodePipe DEF Leftover, HasLeftover
  <2>3. CASE ~HasLeftover
    <3>1. Closed' = Closed /\ ~Closed
      BY <2>1 DEF Closed
    <3>2. chunks' = chunks /\ pending' = pending /\ chan' = chan /\ got' = got /\ client' = client
      BY <1>3, <2>3 DEF Leftover
    <3>3. SentLen' = SentLen /\ \A i \in 1 .. SentLen : Sent'[i] = Sent[i]
      BY <3>1, <3>2, SentStays
    <3>4. SentLen \in Nat /\ client # "closed"
      BY <2>1, SentType DEF PipeInv
    <3> QED BY <2>1, <3>2, <3>3, <3>4, PipeGrows
  <2> QED BY <2>2, <2>3
<1>4. CASE Push
  BY <1>4, PushPipe
<1>5. CASE Finish
  BY <1>5, FinishPipe
<1>6. CASE Settle
  <2>1. Closed' = Closed /\ Len(pending) = 0
    BY <1>6 DEF Settle, Closed
  <2> QED BY <1>6, <2>1, PipeStays DEF Settle, relay
<1>7. CASE ClientReads
  BY <1>7, ClientReadsPipe
<1>8. CASE ClientSeesClose
  <2>1. Closed' = Closed /\ Len(chan) = 0 /\ Len(pending) = 0
    BY <1>8 DEF ClientSeesClose, Closed, PipeInv
  <2> QED BY <1>8, <2>1, PipeStays DEF ClientSeesClose, relay
<1>9. CASE ClientLeaves
  <2>1. /\ pc' = pc /\ chunks' = chunks /\ ended' = ended /\ err' = err /\ pending' = pending
        /\ got' = got /\ client' = "gone"
    BY <1>9 DEF ClientLeaves, relay
  <2>2. Closed' = Closed
    BY <2>1 DEF Closed
  <2>3. SentLen' = SentLen /\ \A i \in 1 .. SentLen : Sent'[i] = Sent[i]
    BY <2>1, <2>2, SentStays
  <2>4. SentLen \in Nat /\ Len(got) \in Nat
    BY SentType
  <2> QED BY <2>1, <2>3, <2>4 DEF PipeInv
<1>10. CASE UNCHANGED vars
  <2>1. Closed' = Closed
    BY <1>10 DEF vars, Closed
  <2>2. pc' \in {"leftover", "done"} => Len(pending) = 0
    BY <1>10 DEF vars, PipeInv
  <2> QED BY <1>10, <2>1, <2>2, PipeStays DEF vars, relay
<1> QED BY <1>1, <1>2, <1>3, <1>4, <1>5, <1>6, <1>7, <1>8, <1>9, <1>10 DEF Next, Relay, Client

-----------------------------------------------------------------------------
(* Settling. *)

SettledInv ==
  pc = "done" =>
    /\ status = IF Failed THEN "failed" ELSE "success"
    /\ charged = ~Failed
    /\ tokens = IF dialect = "anthropic" THEN AnthropicTokens ELSE OpenAITokens

IInv == TypeOK /\ ReadInv /\ PipeInv /\ SettledInv

LEMMA SettledStep == SettledInv /\ [Next]_vars => SettledInv'
<1> SUFFICES ASSUME SettledInv, [Next]_vars, pc' = "done" PROVE SettledInv'
  BY DEF SettledInv
<1>1. CASE Settle
  BY <1>1 DEF Settle, SettledInv, Failed, AnthropicTokens, OpenAITokens, HasText,
              Unterminated, upstream, relay
<1>2. CASE ~Settle
  <2>1. pc = "done" /\ UNCHANGED <<upstream, relay, books>>
    BY <1>2 DEF Next, Relay, Client, Receive, EndOfStream, Leftover, Push, Finish,
                ClientReads, ClientSeesClose, ClientLeaves, vars
  <2> QED BY <2>1 DEF SettledInv, Failed, AnthropicTokens, OpenAITokens, HasText,
                      Unterminated, upstream, relay, books
<1> QED BY <1>1, <1>2

LEMMA Invariance == Spec => []IInv
<1>1. Init => IInv
  BY InitType, ReadInit, PipeInit DEF IInv, SettledInv, Init
<1>2. IInv /\ [Next]_vars => IInv'
  BY StepType, ReadStep, PipeStep, SettledStep DEF IInv
<1> QED BY <1>1, <1>2, PTL DEF Spec

\* What the client got, position by position.
LEMMA GotFacts ==
  ASSUME IInv
  PROVE  /\ DOMAIN got = 1 .. Len(got) /\ Len(got) \in Nat /\ Len(chunks) \in Nat
         /\ Len(got) <= SentLen /\ SentLen \in Nat
         /\ \A i \in 1 .. Len(got) : i <= Len(chunks) =>
              got[i] = Event(chunks[i]) /\ IsEvent(got[i]) /\ got[i].event = chunks[i]
         /\ \A i \in 1 .. Len(got) : i > Len(chunks) =>
              /\ ~IsEvent(got[i]) /\ Closed
              /\ \E x \in Markers : /\ got[i] = Marker(x)
                                    /\ x = "done" => i = SentLen
                                    /\ x = "error" => chunks = <<>> /\ ~EndedNormally
<1>1. /\ DOMAIN got = 1 .. Len(got) /\ Len(got) \in Nat /\ Len(chunks) \in Nat
      /\ SentLen \in Nat /\ Len(got) <= SentLen
      /\ \A i \in 1 .. Len(got) : got[i] = Sent[i] /\ i \in 1 .. SentLen
  BY SeqTypes, SentType DEF IInv, PipeInv
<1>2. ASSUME NEW i \in 1 .. Len(got), i <= Len(chunks)
      PROVE  got[i] = Event(chunks[i]) /\ IsEvent(got[i]) /\ got[i].event = chunks[i]
  <2>1. got[i] = Event(chunks[i])
    BY <1>1, <1>2 DEF Sent
  <2> QED BY <2>1, ItemFacts DEF Markers
<1>3. ASSUME NEW i \in 1 .. Len(got), i > Len(chunks)
      PROVE  /\ ~IsEvent(got[i]) /\ Closed
             /\ \E x \in Markers : /\ got[i] = Marker(x)
                                   /\ x = "done" => i = SentLen
                                   /\ x = "error" => chunks = <<>> /\ ~EndedNormally
  <2>1. Closed /\ SentLen = Len(chunks) + Len(Closing) /\ Len(Closing) \in Nat
    BY <1>1, <1>3, SentType, ClosingFacts DEF SentLen, IInv
  <2>2. got[i] = Closing[i - Len(chunks)]
    <3>1. i \in 1 .. SentLen /\ ~(i <= Len(chunks)) /\ got[i] = Sent[i]
      BY <1>1, <1>3
    <3> QED BY <3>1 DEF Sent
  <2>3. i - Len(chunks) \in 1 .. Len(Closing)
    BY <1>1, <1>3, <2>1
  <2>4. PICK x \in Markers : /\ Closing[i - Len(chunks)] = Marker(x)
                             /\ x = "done" => i - Len(chunks) = Len(Closing)
                             /\ x = "error" => chunks = <<>> /\ ~EndedNormally
    BY <2>3, ClosingFacts
  <2>5. x = "done" => i = SentLen
    BY <1>1, <2>1, <2>4
  <2>6. ~IsEvent(got[i])
    BY <2>2, <2>4, ItemFacts
  <2> QED BY <2>1, <2>2, <2>4, <2>5, <2>6
<1> QED BY <1>1, <1>2, <1>3

\* The events a client got are chunks, in their order.
LEMMA DataFacts ==
  ASSUME IInv
  PROVE  /\ \A k : k \in Data(got) <=> \E i \in 1 .. Len(got) : i <= Len(chunks) /\ chunks[i] = k
         /\ Data(got) \subseteq ToSet(chunks)
         /\ Data(got) # {} => chunks # <<>>
<1>1. \A k : k \in Data(got) <=> \E i \in 1 .. Len(got) : i <= Len(chunks) /\ chunks[i] = k
  <2>1. ASSUME NEW k, k \in Data(got)
        PROVE  \E i \in 1 .. Len(got) : i <= Len(chunks) /\ chunks[i] = k
    <3>1. PICK i \in DOMAIN got : IsEvent(got[i]) /\ got[i].event = k
      BY <2>1 DEF Data
    <3>2. i \in 1 .. Len(got) /\ i <= Len(chunks)
      BY <3>1, GotFacts
    <3> QED BY <3>1, <3>2, GotFacts
  <2>2. ASSUME NEW i \in 1 .. Len(got), i <= Len(chunks)
        PROVE  chunks[i] \in Data(got)
    BY <2>2, GotFacts DEF Data
  <2> QED BY <2>1, <2>2
<1>2. ASSUME NEW k \in Data(got) PROVE k \in ToSet(chunks) /\ chunks # <<>>
  <2>1. PICK i \in 1 .. Len(got) : i <= Len(chunks) /\ chunks[i] = k
    BY <1>1
  <2>2. i \in DOMAIN chunks /\ Len(chunks) # 0
    BY <2>1, SeqTypes DEF IInv
  <2> QED BY <2>1, <2>2 DEF ToSet
<1> QED BY <1>1, <1>2

\* A client that saw its stream close got all of it.
LEMMA ClosedGotAll ==
  ASSUME IInv, client = "closed"
  PROVE  pc = "done" /\ Closed /\ Len(got) = SentLen /\ SentLen = Len(chunks) + Len(Closing)
<1>1. pc = "done" /\ Closed /\ Len(chan) = 0 /\ Len(pending) = 0
  BY DEF IInv, PipeInv, Closed
<1>2. Len(got) + Len(chan) + Len(pending) = SentLen /\ Len(got) \in Nat
  BY SentType DEF IInv, PipeInv
<1> QED BY <1>1, <1>2 DEF SentLen

-----------------------------------------------------------------------------
(* The properties. *)

\* FIDELITY.  For any stream and any pace of its client, no due event is skipped,
\* repeated or reordered, and a client that stays gets all of them.
THEOREM FaithfulSafe == Spec => []Faithful
<1> SUFFICES ASSUME IInv PROVE Faithful
  BY Invariance, PTL
<1>1. /\ \A i, k \in 1 .. Len(chunks) : i < k => chunks[i] < chunks[k]
      /\ \A i \in 1 .. Len(chunks) : chunks[i] < next /\ Due(chunks[i])
      /\ \A k \in 1 .. (next - 1) : Due(k) => \E i \in 1 .. Len(chunks) : chunks[i] = k
      /\ pc \in {"finish", "flush", "done"} => \A k \in 1 .. Len(events) : Due(k) => k < next
  BY DEF IInv, ReadInv
<1>2. /\ Len(chunks) \in Nat /\ Len(got) \in Nat /\ next \in Nat /\ DOMAIN got = 1 .. Len(got)
      /\ \A i \in 1 .. Len(chunks) : chunks[i] \in Nat /\ chunks[i] \in 1 .. MaxEvents
      /\ Len(events) \in Nat /\ DOMAIN events = 1 .. Len(events)
  BY SeqTypes DEF IInv
<1>3. ASSUME NEW i \in DOMAIN got, NEW k \in DOMAIN got, i < k, IsEvent(got[i]), IsEvent(got[k])
      PROVE  got[i].event < got[k].event
  <2>1. i \in 1 .. Len(chunks) /\ k \in 1 .. Len(chunks)
    BY <1>2, <1>3, GotFacts
  <2>2. got[i].event = chunks[i] /\ got[k].event = chunks[k]
    BY <1>2, <2>1, GotFacts
  <2> QED BY <1>1, <1>3, <2>1, <2>2
<1>4. ASSUME NEW e \in Data(got)
      PROVE  Due(e) /\ \A k \in 1 .. (e - 1) : Due(k) => k \in Data(got)
  <2>1. PICK i \in 1 .. Len(got) : i <= Len(chunks) /\ chunks[i] = e
    BY DataFacts
  <2>2. i \in 1 .. Len(chunks) /\ e \in Nat /\ e < next /\ Due(e)
    BY <1>1, <1>2, <2>1
  <2>3. ASSUME NEW k \in 1 .. (e - 1), Due(k) PROVE k \in Data(got)
    <3>1. k \in 1 .. (next - 1) /\ k < e
      BY <1>2, <2>2
    <3>2. PICK j \in 1 .. Len(chunks) : chunks[j] = k
      BY <1>1, <2>3, <3>1
    <3>3. j < i
      <4> SUFFICES ASSUME ~(j < i) PROVE FALSE
        OBVIOUS
      <4>1. i = j \/ i < j
        BY <2>2, <3>2
      <4>2. e <= k
        BY <1>1, <1>2, <2>1, <2>2, <3>2, <4>1
      <4> QED BY <1>2, <2>2, <3>1, <4>2
    <3>4. j \in 1 .. Len(got) /\ j <= Len(chunks)
      BY <1>2, <2>1, <3>2, <3>3
    <3> QED BY <3>2, <3>4, DataFacts
  <2> QED BY <2>2, <2>3
<1>5. ASSUME client = "closed", NEW k \in DOMAIN events, Due(k)
      PROVE  k \in Data(got)
  <2>1. pc = "done" /\ Len(chunks) <= Len(got)
    BY <1>2, <1>5, ClosedGotAll, SentType DEF IInv
  <2>2. k \in 1 .. (next - 1)
    BY <1>1, <1>2, <1>5, <2>1
  <2>3. PICK j \in 1 .. Len(chunks) : chunks[j] = k
    BY <1>1, <1>5, <2>2
  <2>4. j \in 1 .. Len(got) /\ j <= Len(chunks)
    BY <1>2, <2>1, <2>3
  <2> QED BY <2>3, <2>4, DataFacts
<1> QED BY <1>3, <1>4, <1>5 DEF Faithful

\* ONE END.  A client's stream has one terminator, the last item it gets, and
\* never closes without it.
THEOREM OneTerminatorSafe == Spec => []OneTerminator
<1> SUFFICES ASSUME IInv PROVE OneTerminator
  BY Invariance, PTL
<1>1. /\ Len(chunks) \in Nat /\ Len(got) \in Nat /\ DOMAIN got = 1 .. Len(got)
      /\ SentLen \in Nat /\ Len(got) <= SentLen /\ Len(Closing) \in Nat
  BY GotFacts, SentType DEF IInv
<1>2. ASSUME NEW i \in DOMAIN got, IsDone(got[i])
      PROVE  i = Len(got)
  <2>1. CASE i <= Len(chunks)
    <3>1. got[i] = Event(chunks[i]) /\ got[i].event = chunks[i] /\ i \in 1 .. Len(chunks)
      BY <1>1, <2>1, GotFacts
    <3>2. got[i] # Marker("done")
      BY <3>1, ItemFacts DEF Markers
    <3>3. dialect = "openai" /\ events[chunks[i]] = "end"
      BY <1>2, <3>1, <3>2 DEF IsDone
    <3>4. Forwarded(chunks[i])
      BY <3>1 DEF IInv, ReadInv, Due
    <3> QED BY <3>3, <3>4 DEF Forwarded, Json
  <2>2. CASE i > Len(chunks)
    <3>1. i \in 1 .. Len(got)
      BY <1>1
    <3>2. PICK x \in Markers : got[i] = Marker(x) /\ (x = "done" => i = SentLen)
      BY <2>2, <3>1, GotFacts
    <3>3. ~IsEvent(got[i])
      BY <2>2, <3>1, GotFacts
    <3>4. x = "done"
      BY <1>2, <3>2, <3>3, ItemFacts DEF IsDone, Markers
    <3>5. i = SentLen
      BY <3>2, <3>4
    <3>6. i \in Nat /\ i <= Len(got)
      BY <1>1, <3>1
    <3>7. Len(got) \in Nat /\ Len(got) <= i
      BY <1>1, <3>5
    <3> QED BY <3>6, <3>7
  <2> QED BY <1>1, <2>1, <2>2
<1>3. ASSUME client = "closed" PROVE Has(got, "done")
  <2>1. Len(got) = SentLen /\ SentLen = Len(chunks) + Len(Closing)
    BY <1>3, ClosedGotAll
  <2>2. Len(Closing) \in {1, 2} /\ Closing[Len(Closing)] = Marker("done")
    BY ClosingFacts
  <2>3. Len(got) \in 1 .. Len(got) /\ Len(got) \in 1 .. SentLen
        /\ ~(Len(got) <= Len(chunks)) /\ Len(got) - Len(chunks) = Len(Closing)
    BY <1>1, <2>1, <2>2
  <2>4. got[Len(got)] = Sent[Len(got)]
    BY <2>3 DEF IInv, PipeInv
  <2>5. Sent[Len(got)] = Closing[Len(Closing)]
    BY <2>3 DEF Sent
  <2> QED BY <1>1, <2>2, <2>3, <2>4, <2>5 DEF Has
<1> QED BY <1>2, <1>3 DEF OneTerminator

LEMMA ErrorMeansNoData ==
  ASSUME IInv, Has(got, "error")
  PROVE  chunks = <<>>
<1>1. PICK i \in 1 .. Len(got) : got[i] = Marker("error")
  BY GotFacts DEF Has
<1>2. i > Len(chunks)
  <2> SUFFICES ASSUME i <= Len(chunks) PROVE FALSE
    BY GotFacts
  <2>1. got[i] = Event(chunks[i])
    BY GotFacts
  <2> QED BY <1>1, <2>1, ItemFacts DEF Markers
<1>3. PICK x \in Markers : got[i] = Marker(x) /\ (x = "error" => chunks = <<>>)
  BY <1>2, GotFacts
<1>4. x = "error"
  BY <1>1, <1>3, ItemFacts DEF Markers
<1> QED BY <1>3, <1>4

\* BOOKS.  The log row and the charge agree with what the client was told, and
\* the token counts with what it got, however the stream and the client ended.
THEOREM BooksAgreeSafe == Spec => []ClientAndBooksAgree
<1> SUFFICES ASSUME IInv PROVE ClientAndBooksAgree
  BY Invariance, PTL
<1> SUFFICES ASSUME pc = "done" PROVE ClientAndBooksAgree
  BY DEF ClientAndBooksAgree
<1>1. /\ status = IF Failed THEN "failed" ELSE "success"
      /\ charged = ~Failed
      /\ tokens = IF dialect = "anthropic" THEN AnthropicTokens ELSE OpenAITokens
  BY DEF IInv, SettledInv
<1>2. Has(got, "error") => status = "failed"
  BY <1>1, ErrorMeansNoData DEF Failed
<1>3. Data(got) # {} => status = "success"
  BY <1>1, DataFacts DEF Failed
<1>4. charged = (status = "success")
  BY <1>1
<1>5. ASSUME HasText(Data(got)), tokens = "zero" PROVE dialect = "anthropic"
  <2>1. HasText(ToSet(chunks))
    BY <1>5, DataFacts DEF HasText
  <2> QED BY <1>1, <1>5, <2>1 DEF OpenAITokens
<1>6. ASSUME NEW i \in Data(got), events[i] = "usage", tokens # "reported", dialect = "anthropic"
      PROVE  Unterminated(i)
  BY <1>1, <1>6, DataFacts DEF AnthropicTokens
<1>7. ASSUME NEW i \in Data(got), events[i] = "usage", tokens # "reported", dialect # "anthropic"
      PROVE  \E k \in (i + 1) .. Len(events) : events[k] = "null"
  <2>1. PICK j \in 1 .. Len(got) : j <= Len(chunks) /\ chunks[j] = i
    BY DataFacts
  <2>2. /\ DOMAIN chunks = 1 .. Len(chunks) /\ Len(chunks) \in Nat /\ Len(events) \in Nat /\ next \in Nat
        /\ \A k \in 1 .. Len(chunks) : chunks[k] \in Nat
    BY SeqTypes DEF IInv
  <2>3. j \in 1 .. Len(chunks)
    BY <2>1, <2>2
  <2>4. PICK k \in 1 .. Len(chunks) : k > j /\ events[chunks[k]] = "null"
    BY <1>1, <1>7, <2>1, <2>2, <2>3 DEF OpenAITokens
  <2>5. chunks[j] < chunks[k] /\ chunks[k] < next /\ next <= Len(events) + 1
    BY <2>3, <2>4 DEF IInv, ReadInv
  <2>6. chunks[k] \in (i + 1) .. Len(events)
    BY <2>1, <2>2, <2>3, <2>5
  <2> QED BY <2>4, <2>6
<1> QED BY <1>2, <1>3, <1>4, <1>5, <1>6, <1>7 DEF ClientAndBooksAgree

\* NO SILENCE.  A client whose stream closes empty was told of an error, unless
\* the upstream said itself that it was done.
THEOREM EmptyMeansErrorSafe == Spec => []EmptyMeansError
<1> SUFFICES ASSUME IInv PROVE EmptyMeansError
  BY Invariance, PTL
<1> SUFFICES ASSUME client = "closed", Data(got) = {}, \A i \in DOMAIN events : events[i] # "end"
             PROVE  Has(got, "error")
  BY DEF EmptyMeansError
<1>1. /\ Len(chunks) \in Nat /\ Len(got) \in Nat /\ DOMAIN got = 1 .. Len(got)
      /\ Len(events) \in Nat /\ DOMAIN events = 1 .. Len(events) /\ next \in Nat
      /\ chunks \in Seq(1 .. MaxEvents)
  BY GotFacts, SeqTypes DEF IInv, TypeOK
<1>2. /\ Len(got) = SentLen /\ SentLen = Len(chunks) + Len(Closing) /\ Len(Closing) \in {1, 2}
  BY ClosedGotAll, ClosingFacts
<1>3. Len(chunks) = 0
  <2> SUFFICES ASSUME Len(chunks) # 0 PROVE FALSE
    OBVIOUS
  <2>1. 1 \in 1 .. Len(got) /\ 1 <= Len(chunks)
    BY <1>1, <1>2
  <2> QED BY <2>1, DataFacts
<1>4. chunks = <<>>
  BY <1>1, <1>3
<1>5. ~ended
  BY <1>1 DEF IInv, ReadInv
<1>6. ~EndedNormally
  BY <1>4, <1>5 DEF EndedNormally
<1>7. Closing[1] = Marker("error")
  BY <1>4, <1>6, ClosingFacts
<1>8. 1 \in 1 .. Len(got) /\ 1 \in 1 .. SentLen /\ ~(1 <= Len(chunks)) /\ 1 - Len(chunks) = 1
  BY <1>1, <1>2, <1>3
<1>9. got[1] = Sent[1]
  BY <1>8 DEF IInv, PipeInv
<1>10. Sent[1] = Closing[1]
  BY <1>8 DEF Sent
<1> QED BY <1>1, <1>7, <1>8, <1>9, <1>10 DEF Has
-----------------------------------------------------------------------------
(* An end in sight. *)

\* What the relay has still to do: events to decode, items to send, and the way
\* to the end of the task.
Ahead ==
  CASE pc = "read"     -> 12
    [] pc = "leftover" -> 8
    [] pc = "finish"   -> 4
    [] pc = "flush"    -> 1
    [] OTHER           -> 0
Work == 3 * (Len(events) + 1 - next) + Ahead + Len(pending)

\* NO SPINNING.  Each step of the relay task leaves it less to do, whatever the
\* upstream sent and whatever its client does meanwhile; there is no way round the
\* loop that reads nothing, and no item is put back.
RelayWorks == [][IF Relay THEN Work' < Work ELSE Work' = Work]_vars

LEMMA WorkIsNat == IInv => Work \in Nat
<1> SUFFICES ASSUME IInv PROVE Work \in Nat
  OBVIOUS
<1>1. Len(events) \in Nat /\ next \in Nat /\ Len(pending) \in Nat /\ next <= Len(events) + 1
  BY SeqTypes DEF IInv, ReadInv
<1>2. Ahead \in Nat
  BY DEF Ahead
<1>3. 3 * (Len(events) + 1 - next) \in Nat
  BY <1>1
<1> QED BY <1>1, <1>2, <1>3 DEF Work

\* Less is left when what a step decodes outweighs what it adds.
LEMMA LessLeft ==
  ASSUME NEW e \in Nat, NEW n \in Nat, NEW n2 \in Nat, NEW a \in Nat, NEW a2 \in Nat,
         NEW p \in Nat, NEW p2 \in Nat, 3 * n + a2 + p2 < 3 * n2 + a + p
  PROVE  3 * (e + 1 - n2) + a2 + p2 < 3 * (e + 1 - n) + a + p
OBVIOUS

LEMMA RelayStepWorks == IInv /\ Relay => Work' < Work
<1> SUFFICES ASSUME IInv, Relay PROVE Work' < Work
  OBVIOUS
<1>1. Len(events) \in Nat /\ next \in Nat /\ Len(pending) \in Nat /\ pending \in Seq(Items)
  BY SeqTypes DEF IInv, TypeOK
<1>2. Len(events') = Len(events)
  BY DEF Relay, Receive, EndOfStream, Leftover, Push, Finish, Settle, upstream
<1>3. ASSUME NEW i, Decode(i), pending = <<>>
      PROVE  next' = next + 1 /\ Len(pending') \in Nat /\ Len(pending') <= 1
  <2>1. pending' = <<>> \/ pending' = <<Event(i)>>
    BY <1>3 DEF Decode
  <2>2. Len(<<>>) = 0 /\ Len(<<Event(i)>>) = 1
    OBVIOUS
  <2>3. next' = next + 1
    BY <1>3 DEF Decode
  <2>4. CASE pending' = <<>>
    BY <2>2, <2>3, <2>4
  <2>5. CASE pending' = <<Event(i)>>
    <3>1. Len(pending') = 1
      BY <2>2, <2>5
    <3> QED BY <2>3, <3>1
  <2> QED BY <2>1, <2>4, <2>5
<1>4. Len(<<>>) = 0
  OBVIOUS
<1>5. Ahead \in Nat /\ Ahead' \in Nat
  BY DEF Ahead
<1>6. ASSUME next' \in Nat, Len(pending') \in Nat,
             3 * next + Ahead' + Len(pending') < 3 * next' + Ahead + Len(pending)
      PROVE  Work' < Work
  <2>1. 3 * (Len(events) + 1 - next') + Ahead' + Len(pending')
          < 3 * (Len(events) + 1 - next) + Ahead + Len(pending)
    BY <1>1, <1>5, <1>6, LessLeft
  <2> QED BY <1>2, <2>1 DEF Work
<1>7. CASE Receive
  <2>1. /\ next' = next + 1 /\ Len(pending') \in Nat /\ Len(pending') <= 1 /\ Len(pending) = 0
        /\ pc' = pc
    BY <1>3, <1>4, <1>7 DEF Receive
  <2>2. Ahead' = Ahead
    BY <2>1 DEF Ahead
  <2> QED BY <1>1, <1>5, <1>6, <2>1, <2>2
<1>8. CASE EndOfStream
  <2>1. next' = next /\ pending' = pending /\ Ahead = 12 /\ Ahead' = 8
    BY <1>8 DEF EndOfStream, Ahead
  <2> QED BY <1>1, <1>6, <2>1
<1>9. CASE Leftover
  <2>1. pc = "leftover" /\ Ahead = 8 /\ Ahead' = 4
    BY <1>9 DEF Leftover, Ahead
  <2>2. Len(pending) = 0 /\ pending = <<>>
    BY <1>1, <2>1 DEF IInv, PipeInv
  <2>3. CASE HasLeftover
    <3>1. next' = next + 1 /\ Len(pending') \in Nat /\ Len(pending') <= 1
      BY <1>3, <1>9, <2>2, <2>3 DEF Leftover
    <3> QED BY <1>1, <1>6, <2>1, <2>2, <3>1
  <2>4. CASE ~HasLeftover
    <3>1. next' = next /\ pending' = pending
      BY <1>9, <2>4 DEF Leftover
    <3> QED BY <1>1, <1>6, <2>1, <2>2, <3>1
  <2> QED BY <2>3, <2>4
<1>10. CASE Push
  <2>1. next' = next /\ Ahead' = Ahead
    BY <1>10 DEF Push, relay, Ahead
  <2>2. Len(pending') = Len(pending) - 1 /\ Len(pending') \in Nat
    BY <1>1, <1>10 DEF Push
  <2> QED BY <1>1, <1>5, <1>6, <2>1, <2>2
<1>11. CASE Finish
  <2>1. next' = next /\ Len(pending) = 0 /\ Ahead = 4 /\ Ahead' = 1
    BY <1>4, <1>11 DEF Finish, relay, Ahead
  <2>2. Len(pending') \in Nat /\ Len(pending') <= 2
    BY <1>11, ClosingFacts DEF Finish
  <2> QED BY <1>1, <1>6, <2>1, <2>2
<1>12. CASE Settle
  <2>1. next' = next /\ pending' = pending /\ Ahead = 1 /\ Ahead' = 0
    BY <1>12 DEF Settle, relay, Ahead
  <2> QED BY <1>1, <1>6, <2>1
<1> QED BY <1>7, <1>8, <1>9, <1>10, <1>11, <1>12 DEF Relay

\* Work is a number, so the task makes at most as many steps as there is work at
\* its start: three for each event, and twelve more.
THEOREM RelayWorksSafe == Spec => [](Work \in Nat) /\ RelayWorks
<1>1. IInv /\ [Next]_vars => [IF Relay THEN Work' < Work ELSE Work' = Work]_vars
  <2> SUFFICES ASSUME IInv, Next PROVE IF Relay THEN Work' < Work ELSE Work' = Work
    OBVIOUS
  <2>1. CASE Relay
    BY <2>1, RelayStepWorks
  <2>2. CASE ~Relay
    BY <2>2 DEF Next, Client, ClientReads, ClientSeesClose, ClientLeaves, upstream, relay, Work, Ahead
  <2> QED BY <2>1, <2>2
<1> QED BY <1>1, Invariance, WorkIsNat, PTL DEF Spec, RelayWorks
=============================================================================
