------------------------- MODULE EventStreamProofs -------------------------
(***************************************************************************)
(* Three arguments, each for any limits of the buffers and any number of     *)
(* events and faults.                                                      *)
(*                                                                         *)
(* A shown page is never left without a connection, a fetch or a timer.    *)
(* What a buffer does to a stream is of no account here but that it never  *)
(* takes the stream itself away (Keeps).                                   *)
(*                                                                         *)
(* Nothing that was published is lost between the rows and the projection  *)
(* (FeedInv): lemmas on sequences and on the numbers of a set in order,    *)
(* then on each operator on streams (StreamPart), then one lemma per step. *)
(*                                                                         *)
(* Each event is sent once and in order (OnceInv, beside FeedInv), so that *)
(* the projection never meets one that it has.                             *)
(***************************************************************************)
EXTENDS EventStream, FiniteSetTheorems, SequenceTheorems, TLAPS

Fields == {"state", "cursor", "reset", "replay", "buffer", "pending", "blocked", "wire"}

\* Streams of the client: it holds one until it closes it.
Shaped(s) == DOMAIN s = Fields /\ s = [x \in Fields |-> s[x]]

Keeps(s, t) == Shaped(t) /\ (t.state = "none" <=> s.state = "none")

\* The types that the argument needs.
ShapeOK ==
    /\ last \in Nat /\ started \in BOOLEAN /\ visible \in BOOLEAN
    /\ fetch \in [Fetcher -> [at : {"none", "asked", "answered"}, through : Nat, later : BOOLEAN]]
    /\ Shaped(stream)

IndInv == ShapeOK /\ NeverDeaf

-----------------------------------------------------------------------------
(* Operators on streams.                                                   *)

LEMMA TerminateKeeps ==
    ASSUME NEW s, Shaped(s), s.state # "none"
    PROVE  Keeps(s, Terminate(s))
  BY DEF Shaped, Keeps, Terminate, Fields

LEMMA SendKeeps ==
    ASSUME NEW s, NEW frames, Shaped(s), s.state # "none"
    PROVE  Keeps(s, Send(s, frames))
<1> DEFINE room == IF s.blocked THEN 0 ELSE Max({1, SocketLimit - Len(s.wire)})
           written == SubSeq(frames, 1, Min({room, Len(frames)}))
           sent == [s EXCEPT !.wire = @ \o written,
                             !.pending = @ \o SubSeq(frames, room + 1, Len(frames)),
                             !.blocked = @ \/ Len(s.wire) + Len(written) >= SocketLimit]
<1>1. Shaped(sent) /\ sent.state = s.state
  <2> HIDE DEF room, written
  <2> QED BY DEF Shaped, Fields
<1>2. Send(s, frames) = IF Len(sent.pending) <= FrameLimit THEN sent ELSE Terminate(sent)
  BY DEF Send
<1> HIDE DEF sent
<1> QED BY <1>1, <1>2, TerminateKeeps DEF Keeps

LEMMA EmitKeeps ==
    ASSUME NEW s, NEW S, Shaped(s), s.state # "none"
    PROVE  Keeps(s, Emit(s, S))
<1> DEFINE sent == Send(s, EventFrames(Unsent(s, S)))
<1>1. Keeps(s, sent)
  BY SendKeeps
<1>2. Keeps(s, [sent EXCEPT !.cursor = Max(S)])
  <2> HIDE DEF sent
  <2> QED BY <1>1 DEF Keeps, Shaped, Fields
<1> QED BY <1>2 DEF Emit, Keeps

LEMMA ReceivePublishedKeeps ==
    ASSUME NEW s, NEW S, Shaped(s)
    PROVE  Keeps(s, ReceivePublished(s, S))
<1>1. CASE s.state = "live"
  BY <1>1, EmitKeeps DEF ReceivePublished
<1>2. CASE s.state = "replaying"
  <2>1. ReceivePublished(s, S) \in {[s EXCEPT !.buffer = @ \cup S], Terminate(s), s}
    BY <1>2 DEF ReceivePublished
  <2>2. Keeps(s, [s EXCEPT !.buffer = @ \cup S])
    BY DEF Keeps, Shaped, Fields
  <2>3. Keeps(s, Terminate(s)) /\ Keeps(s, s)
    BY <1>2, TerminateKeeps DEF Keeps
  <2> QED BY <2>1, <2>2, <2>3
<1>3. CASE s.state \notin {"live", "replaying"}
  BY <1>3 DEF ReceivePublished, Keeps
<1> QED BY <1>1, <1>2, <1>3

LEMMA FinishedKeeps ==
    ASSUME NEW s, Shaped(s), s.state # "none"
    PROVE  Keeps(s, Finished(s))
<1> DEFINE through == Max(s.replay)
           sent == IF s.reset THEN Send(s, <<Reset(through)>> \o EventFrames({q \in s.buffer : q > through}))
                   ELSE Emit(s, s.replay \cup s.buffer)
<1>1. Keeps(s, sent)
  BY SendKeeps, EmitKeeps
<1>2. Keeps(s, [sent EXCEPT !.state = "live", !.buffer = {}, !.replay = {}, !.reset = FALSE,
                            !.cursor = Max({@} \cup s.replay \cup s.buffer)])
  <2> HIDE DEF sent
  <2> QED BY <1>1 DEF Keeps, Shaped, Fields
<1> QED BY <1>1, <1>2 DEF Finished

-----------------------------------------------------------------------------
(* Steps of the server.                                                    *)

\* The server's steps leave the client alone, and the stream in its hands.
LEMMA ServerStep ==
    ASSUME IndInv, UNCHANGED client, last' \in Nat,
           Keeps(stream, stream') \/ stream' = stream
    PROVE  IndInv'
  BY DEF IndInv, ShapeOK, NeverDeaf, Resyncing, client, Keeps

LEMMA PublishStep ==
    ASSUME IndInv, NEW new \in 1 .. 2, NEW S, Publish(new, S)
    PROVE  IndInv'
<1>1. Keeps(stream, stream')
  BY ReceivePublishedKeeps DEF IndInv, ShapeOK, Publish
<1>2. last' \in Nat /\ UNCHANGED client
  BY DEF IndInv, ShapeOK, Publish
<1> QED BY <1>1, <1>2, ServerStep

LEMMA StreamStep ==
    ASSUME IndInv, StreamNext \/ Compact \/ Break
    PROVE  IndInv'
<1>1. last' \in Nat /\ UNCHANGED client
  BY DEF IndInv, ShapeOK, StreamNext, Accept, FinishReplay, Drain, Compact, Break, events
<1>2. Shaped(stream)
  BY DEF IndInv, ShapeOK
<1>3. CASE Accept
  <2> DEFINE gap == (last > 0 /\ stream.cursor < Retained - 1) \/ ~Contiguous(stream.cursor, After(stream.cursor))
  <2>1. stream' = [stream EXCEPT !.state = "replaying", !.reset = gap,
                                 !.replay = IF gap THEN {last} ELSE After(stream.cursor),
                                 !.wire = <<Open>>]
    BY <1>3 DEF Accept
  <2>2. stream.state = "connecting"
    BY <1>3 DEF Accept
  <2> HIDE DEF gap
  <2>3. Keeps(stream, stream')
    BY <1>2, <2>1, <2>2 DEF Keeps, Shaped, Fields
  <2> QED BY <1>1, <2>3, ServerStep
<1>4. CASE FinishReplay
  BY <1>1, <1>2, <1>4, FinishedKeeps, ServerStep DEF FinishReplay
<1>5. CASE Drain
  <2>1. PICK some : stream' = [stream EXCEPT !.wire = @ \o SubSeq(stream.pending, 1, some),
                                             !.pending = SubSeq(@, some + 1, Len(@)),
                                             !.blocked = Len(stream.wire) + some >= SocketLimit]
    BY <1>5 DEF Drain
  <2>2. Keeps(stream, stream')
    BY <1>2, <2>1 DEF Keeps, Shaped, Fields
  <2> QED BY <1>1, <2>2, ServerStep
<1>6. CASE Compact
  BY <1>1, <1>6, ServerStep DEF Compact
<1>7. CASE Break
  <2>1. PICK w : stream' = [NoStream EXCEPT !.state = "ended", !.wire = w]
    BY <1>7 DEF Break
  <2>2. stream.state # "none"
    BY <1>7 DEF Break
  <2>3. Keeps(stream, stream')
    BY <2>1, <2>2 DEF Keeps, Shaped, Fields, NoStream
  <2> QED BY <1>1, <2>3, ServerStep
<1> QED BY <1>3, <1>4, <1>5, <1>6, <1>7 DEF StreamNext

(* Steps of the client.                                                    *)

LEMMA FetchStep ==
    ASSUME IndInv, NEW w \in Fetcher, ReadSnapshot(w) \/ ReplaceFromSnapshot(w) \/ FetchFails(w)
    PROVE  IndInv'
<1> USE DEF IndInv, ShapeOK, Fetcher
<1>1. CASE ReadSnapshot(w)
  <2>1. /\ UNCHANGED <<last, stream, visible, started, timer>>
        /\ fetch' = [fetch EXCEPT ![w].at = "answered", ![w].through = last]
    BY <1>1 DEF ReadSnapshot, events
  <2>2. fetch' \in [Fetcher -> [at : {"none", "asked", "answered"}, through : Nat, later : BOOLEAN]]
    BY <2>1
  <2>3. Resyncing => Resyncing'
    BY <2>1 DEF Resyncing
  <2> QED BY <2>1, <2>2, <2>3 DEF NeverDeaf
<1>2. CASE ReplaceFromSnapshot(w)
  <2>1. fetch' \in [Fetcher -> [at : {"none", "asked", "answered"}, through : Nat, later : BOOLEAN]]
    BY <1>2 DEF ReplaceFromSnapshot, NoFetch
  <2>2. Shaped(stream') /\ (visible' => stream'.state # "none")
    BY <1>2 DEF ReplaceFromSnapshot, Connect, NoStream, Shaped, Fields
  <2> QED BY <1>2, <2>1, <2>2 DEF ReplaceFromSnapshot, NeverDeaf, events
<1>3. CASE FetchFails(w)
  <2>1. fetch' \in [Fetcher -> [at : {"none", "asked", "answered"}, through : Nat, later : BOOLEAN]]
    BY <1>3 DEF FetchFails, NoFetch
  <2>2. CASE w = "resync"
    BY <1>3, <2>1, <2>2 DEF FetchFails, Schedule, NeverDeaf, events
  <2>3. CASE w = "start"
    BY <1>3, <2>1, <2>3 DEF FetchFails, NeverDeaf, Resyncing, events
  <2> QED BY <2>2, <2>3
<1> QED BY <1>1, <1>2, <1>3

LEMMA AskTyped ==
    ASSUME IndInv, NEW w \in Fetcher, Ask(w)
    PROVE  /\ fetch' \in [Fetcher -> [at : {"none", "asked", "answered"}, through : Nat, later : BOOLEAN]]
           /\ fetch'[w].at = "asked"
           /\ \A v \in Fetcher \ {w} : fetch'[v] = fetch[v]
  BY DEF IndInv, ShapeOK, Ask

\* A frame was taken from the stream, and perhaps a snapshot asked for.
LEMMA ResyncStep ==
    ASSUME IndInv, NEW s, Shaped(s), s.state = stream.state, RequestResync(s),
           UNCHANGED <<last, visible, started>>
    PROVE  IndInv'
<1>1. CASE Resyncing
  BY <1>1 DEF RequestResync, IndInv, ShapeOK, NeverDeaf, Resyncing
<1>2. CASE ~Resyncing
  <2>1. Shaped(stream')
    BY <1>2 DEF RequestResync, NoStream, Shaped, Fields
  <2>2. Resyncing' /\ fetch' \in [Fetcher -> [at : {"none", "asked", "answered"}, through : Nat, later : BOOLEAN]]
    BY <1>2, AskTyped DEF RequestResync, Resyncing, Fetcher
  <2> QED BY <2>1, <2>2 DEF IndInv, ShapeOK, NeverDeaf
<1> QED BY <1>1, <1>2

LEMMA ReceiveStep ==
    ASSUME IndInv, ReceiveNext \/ MissItem
    PROVE  IndInv'
<1> DEFINE Taken == stream' = Rest /\ UNCHANGED <<last, visible, started, fetch, timer>>
<1>1. Shaped(Rest) /\ Rest.state = stream.state
  BY DEF IndInv, ShapeOK, Rest, Shaped, Fields
<1>2. ASSUME Taken PROVE IndInv'
  BY <1>1, <1>2 DEF IndInv, ShapeOK, NeverDeaf, Resyncing
<1>3. CASE ReceiveNotice \/ ReceiveReset \/ ApplyEvent
  <2>1. Taken
    BY <1>3 DEF ReceiveNotice, ReceiveReset, ApplyEvent, events
  <2> QED BY <1>2, <2>1
<1>4. CASE RefuseEvent \/ MissItem
  <2>1. RequestResync(Rest) /\ UNCHANGED <<last, visible, started>>
    BY <1>4 DEF RefuseEvent, MissItem, events
  <2> QED BY <1>1, <2>1, ResyncStep
<1>5. CASE StreamEnds
  BY <1>5 DEF StreamEnds, Schedule, IndInv, ShapeOK, NeverDeaf, Shaped, Fields, NoStream, events
<1> QED BY <1>3, <1>4, <1>5 DEF ReceiveNext

LEMMA ClientStep ==
    ASSUME IndInv, Start \/ Reconnect \/ ResyncAgain \/ Hide \/ Show \/ Resume
    PROVE  IndInv'
<1> USE DEF IndInv, ShapeOK
<1>1. CASE Start
  <2>1. Ask("start") /\ UNCHANGED <<last, stream, visible, started, timer>>
    BY <1>1 DEF Start, events
  <2>2. /\ fetch' \in [Fetcher -> [at : {"none", "asked", "answered"}, through : Nat, later : BOOLEAN]]
        /\ Resyncing' = Resyncing
    BY <2>1, AskTyped DEF Fetcher, Resyncing
  <2> QED BY <2>1, <2>2 DEF NeverDeaf
<1>2. CASE Reconnect \/ Resume
  BY <1>2 DEF Reconnect, Resume, Connect, NoStream, Shaped, Fields, NeverDeaf, Resyncing, events
<1>3. CASE ResyncAgain
  <2>1. CASE Resyncing
    BY <1>3, <2>1 DEF ResyncAgain, NeverDeaf, Resyncing, events
  <2>2. CASE ~Resyncing
    BY <1>3, <2>2, ResyncStep DEF ResyncAgain, events
  <2> QED BY <2>1, <2>2
<1>4. CASE Hide
  BY <1>4 DEF Hide, NoStream, Shaped, Fields, NeverDeaf, events
<1>5. CASE Show
  BY <1>5 DEF Show, Connect, NoStream, Shaped, Fields, NeverDeaf, Resyncing, events
<1> QED BY <1>1, <1>2, <1>3, <1>4, <1>5

-----------------------------------------------------------------------------
(* The theorems.                                                           *)

\* The inductive invariant: the shape of streams and fetches, and the property.
THEOREM Invariance == Spec => []IndInv
<1>1. Init => IndInv
  <2> SUFFICES ASSUME Init PROVE IndInv
    OBVIOUS
  <2>1. Shaped(stream)
    BY DEF Init, NoStream, Shaped, Fields
  <2>2. fetch \in [Fetcher -> [at : {"none", "asked", "answered"}, through : Nat, later : BOOLEAN]]
    BY DEF Init, NoFetch
  <2> QED BY <2>1, <2>2 DEF Init, IndInv, ShapeOK, NeverDeaf
<1>2. IndInv /\ [Next]_vars => IndInv'
  <2> SUFFICES ASSUME IndInv, [Next]_vars PROVE IndInv'
    OBVIOUS
  <2>1. CASE UNCHANGED vars
    BY <2>1 DEF vars, events, client, IndInv, ShapeOK, NeverDeaf, Resyncing
  <2>2. CASE PublishKnown \/ AppendEvent
    BY <2>2, PublishStep DEF PublishKnown, AppendEvent
  <2>3. CASE StreamNext \/ Compact \/ Break
    BY <2>3, StreamStep
  <2>4. CASE ReceiveNext \/ MissItem
    BY <2>4, ReceiveStep
  <2>5. CASE FetchNext \/ \E w \in Fetcher : FetchFails(w)
    BY <2>5, FetchStep DEF FetchNext
  <2>6. CASE Start \/ Reconnect \/ ResyncAgain \/ Hide \/ Show \/ Resume
    BY <2>6, ClientStep
  <2> QED BY <2>1, <2>2, <2>3, <2>4, <2>5, <2>6 DEF Next
<1> QED BY <1>1, <1>2, PTL DEF Spec

\* A page that is shown always has a connection, a fetch or a timer
\* (SessionRuntimeController), whatever was closed, refused or failed before.
THEOREM ShownPagesGoOn == Spec => []NeverDeaf
<1>1. IndInv => NeverDeaf
  BY DEF IndInv
<1> QED BY <1>1, Invariance, PTL
-----------------------------------------------------------------------------
(* Numbers in order.                                                       *)

LEMMA Interval ==
    ASSUME NEW a \in Nat, NEW b \in Nat
    PROVE  \A k \in 1 .. a : k \in 1 .. a + b /\ k <= a
  OBVIOUS

\* What a bounded set of numbers is: finite, and no larger than what holds it.
LEMMA Bounded ==
    ASSUME NEW n \in Nat, NEW S \in SUBSET (0 .. n)
    PROVE  IsFiniteSet(S) /\ Cardinality(S) \in Nat
<1>1. IsFiniteSet(0 .. n)
  BY FS_Interval
<1>2. IsFiniteSet(S)
  BY <1>1, FS_Subset
<1> QED BY <1>2, FS_CardinalityType

\* The numbers of a set are told apart by how many precede them, and each
\* count up to the size of the set is that of one of them.
LEMMA Ranks ==
    ASSUME NEW n \in Nat, NEW S \in SUBSET (0 .. n)
    PROVE  /\ \A q \in S : Cardinality(Earlier(S, q)) \in 0 .. Cardinality(S) - 1
           /\ \A q, r \in S : q < r => Cardinality(Earlier(S, q)) < Cardinality(Earlier(S, r))
           /\ \A k \in 0 .. Cardinality(S) - 1 : \E q \in S : Cardinality(Earlier(S, q)) = k
<1> DEFINE size == Cardinality(S)
           f == [q \in S |-> Cardinality(Earlier(S, q))]
<1>1. IsFiniteSet(S) /\ size \in Nat
  BY Bounded
<1>2. \A q \in S : Earlier(S, q) \in SUBSET S /\ q \notin Earlier(S, q)
  BY DEF Earlier
<1>3. ASSUME NEW q \in S PROVE Cardinality(Earlier(S, q)) \in 0 .. size - 1
  <2>1. Earlier(S, q) \in SUBSET S /\ Earlier(S, q) # S
    BY <1>2
  <2>2. Cardinality(Earlier(S, q)) \in Nat
    BY <2>1, Bounded
  <2>3. Cardinality(Earlier(S, q)) <= size /\ Cardinality(Earlier(S, q)) # size
    BY <1>1, <2>1, FS_Subset
  <2> QED BY <1>1, <2>2, <2>3
<1>4. ASSUME NEW q \in S, NEW r \in S, q < r
      PROVE  Cardinality(Earlier(S, q)) < Cardinality(Earlier(S, r))
  <2>1. Earlier(S, q) \in SUBSET Earlier(S, r) /\ Earlier(S, q) # Earlier(S, r)
    <3>1. q \in Int /\ r \in Int /\ \A x \in S : x \in Int
      OBVIOUS
    <3>2. \A x \in Earlier(S, q) : x \in Earlier(S, r)
      BY <1>4, <3>1 DEF Earlier
    <3>3. q \in Earlier(S, r) /\ q \notin Earlier(S, q)
      BY <1>2, <1>4 DEF Earlier
    <3> QED BY <3>2, <3>3
  <2>2. /\ IsFiniteSet(Earlier(S, r))
        /\ Cardinality(Earlier(S, q)) \in Nat /\ Cardinality(Earlier(S, r)) \in Nat
    BY <1>2, Bounded
  <2>3. /\ Cardinality(Earlier(S, q)) <= Cardinality(Earlier(S, r))
        /\ Cardinality(Earlier(S, q)) # Cardinality(Earlier(S, r))
    BY <2>1, <2>2, FS_Subset
  <2> QED BY <2>2, <2>3
<1>5. f \in Injection(S, 0 .. size - 1)
  <2>1. f \in [S -> 0 .. size - 1]
    BY <1>3
  <2>2. \A q, r \in S : f[q] = f[r] => q = r
    <3> SUFFICES ASSUME NEW q \in S, NEW r \in S, q # r PROVE f[q] # f[r]
      OBVIOUS
    <3>1. (q < r \/ r < q) /\ f[q] \in Int /\ f[r] \in Int
      BY <1>1, <1>3
    <3> QED BY <1>1, <1>3, <1>4, <3>1
  <2> QED BY <2>1, <2>2 DEF Injection, IsInjective
<1>6. IsFiniteSet(0 .. size - 1) /\ Cardinality(0 .. size - 1) = size
  BY <1>1, FS_Interval
<1>7. f \in Surjection(S, 0 .. size - 1)
  BY <1>5, <1>6, FS_Injection
<1>8. \A k \in 0 .. size - 1 : \E q \in S : f[q] = k
  BY <1>7 DEF Surjection
<1> QED BY <1>3, <1>4, <1>8

\* The largest of a bounded set of numbers.
LEMMA MaxFacts ==
    ASSUME NEW n \in Nat, NEW S \in SUBSET (0 .. n), S # {}
    PROVE  Max(S) \in S /\ \A q \in S : q <= Max(S)
<1>1. \E m \in S : \A q \in S : m >= q
  <2> DEFINE size == Cardinality(S)
  <2>1. IsFiniteSet(S) /\ size \in Nat
    BY Bounded
  <2>2. size # 0
    BY <2>1, FS_EmptySet
  <2>3. size - 1 \in 0 .. size - 1
    BY <2>1, <2>2
  <2>4. PICK m \in S : Cardinality(Earlier(S, m)) = size - 1
    BY <2>3, Ranks
  <2>5. ASSUME NEW q \in S, m < q PROVE FALSE
    <3>1. size - 1 < Cardinality(Earlier(S, q)) /\ Cardinality(Earlier(S, q)) \in 0 .. size - 1
      BY <2>4, <2>5, Ranks
    <3> QED BY <2>1, <3>1
  <2>6. \A q \in S : m >= q
    BY <2>5
  <2> QED BY <2>6
<1> QED BY <1>1 DEF Max

\* The larger and the smaller of two numbers.
LEMMA OfTwo ==
    ASSUME NEW a \in Int, NEW b \in Int
    PROVE  /\ Max({a, b}) = IF a >= b THEN a ELSE b
           /\ Min({a, b}) = IF a <= b THEN a ELSE b
  BY DEF Max, Min

LEMMA OfOne ==
    ASSUME NEW a \in Int
    PROVE  Max({a}) = a
  BY DEF Max

\* The frames of a set of events: each event once, the earlier ones first.
LEMMA EventFramesFacts ==
    ASSUME MaxSeq \in Nat, NEW S \in SUBSET Seqs
    PROVE  /\ EventFrames(S) \in Seq(Frame)
           /\ \A k \in 1 .. Len(EventFrames(S)) :
                /\ EventFrames(S)[k].kind = "event" /\ EventFrames(S)[k].seq \in S
                /\ \A p \in S : p < EventFrames(S)[k].seq =>
                     \E j \in 1 .. k - 1 : EventFrames(S)[j] = Event(p)
           /\ \A p \in S : \E k \in 1 .. Len(EventFrames(S)) : EventFrames(S)[k] = Event(p)
           /\ Ascending(EventFrames(S))
<1> DEFINE size == Cardinality(S)
           At(k) == CHOOSE q \in S : Cardinality(Earlier(S, q)) = k - 1
<1>1. S \in SUBSET (0 .. MaxSeq)
  BY DEF Seqs
<1>2. size \in Nat
  BY <1>1, Bounded
<1>3. ASSUME NEW k \in 1 .. size
      PROVE  At(k) \in S /\ Cardinality(Earlier(S, At(k))) = k - 1
  <2>1. k - 1 \in 0 .. size - 1
    BY <1>2
  <2>2. \E q \in S : Cardinality(Earlier(S, q)) = k - 1
    BY <1>1, <2>1, Ranks
  <2> QED BY <2>2
<1>4. ASSUME NEW p \in S
      PROVE  \E k \in 1 .. size : At(k) = p /\ k = Cardinality(Earlier(S, p)) + 1
  <2> DEFINE k == Cardinality(Earlier(S, p)) + 1
  <2>1. Cardinality(Earlier(S, p)) \in 0 .. size - 1
    BY <1>1, Ranks
  <2>2. k \in 1 .. size /\ k - 1 = Cardinality(Earlier(S, p))
    BY <1>2, <2>1
  <2>3. At(k) \in S /\ Cardinality(Earlier(S, At(k))) = Cardinality(Earlier(S, p))
    <3> HIDE DEF k, At
    <3> QED BY <1>3, <2>2
  <2>4. At(k) = p
    <3> DEFINE q == At(k)
    <3>1. q \in S /\ Cardinality(Earlier(S, q)) = Cardinality(Earlier(S, p))
      BY <2>3
    <3> HIDE DEF q
    <3>2. q \in Nat /\ p \in Nat
      BY <1>1, <3>1
    <3>3. ~(q < p) /\ ~(p < q)
      <4>1. /\ q < p => Cardinality(Earlier(S, q)) < Cardinality(Earlier(S, p))
            /\ p < q => Cardinality(Earlier(S, p)) < Cardinality(Earlier(S, q))
        BY <1>1, <3>1, Ranks
      <4> QED BY <1>2, <2>1, <3>1, <4>1
    <3>4. q = p
      BY <3>2, <3>3
    <3> QED BY <3>4 DEF q
  <2> QED BY <2>2, <2>4
<1> HIDE DEF At
<1>5. EventFrames(S) = [k \in 1 .. size |-> Event(At(k))]
  BY DEF EventFrames, At
<1>6. \A k \in 1 .. size : Event(At(k)) \in Frame
  BY <1>1, <1>3 DEF Event, Frame, Seqs
<1>7. EventFrames(S) \in Seq(Frame) /\ Len(EventFrames(S)) = size
  BY <1>2, <1>5, <1>6, SeqDef, LenProperties
<1>8. ASSUME NEW k \in 1 .. size, NEW p \in S, p < At(k)
      PROVE  \E j \in 1 .. k - 1 : EventFrames(S)[j] = Event(p)
  <2>1. PICK j \in 1 .. size : At(j) = p /\ j = Cardinality(Earlier(S, p)) + 1
    BY <1>4
  <2>2. At(k) \in S /\ Cardinality(Earlier(S, At(k))) = k - 1
    BY <1>3
  <2>3. Cardinality(Earlier(S, p)) < k - 1
    BY <1>1, <1>8, <2>2, Ranks
  <2>4. j \in 1 .. k - 1
    <3>1. k \in Int /\ j \in Nat /\ 1 <= j /\ j < k
      <4>1. Cardinality(Earlier(S, p)) \in 0 .. size - 1
        BY <1>1, Ranks
      <4> QED BY <1>2, <2>1, <2>3, <4>1
    <3> QED BY <3>1
  <2> QED BY <1>5, <2>1, <2>4
<1>9. \A k \in 1 .. size : EventFrames(S)[k].kind = "event" /\ EventFrames(S)[k].seq = At(k)
  BY <1>5 DEF Event
<1>10. \A p \in S : \E k \in 1 .. size : EventFrames(S)[k] = Event(p)
  BY <1>4, <1>5
<1>11. ASSUME NEW j \in 1 .. size, NEW k \in 1 .. size, j < k PROVE At(j) < At(k)
  <2>1. /\ At(j) \in S /\ Cardinality(Earlier(S, At(j))) = j - 1
        /\ At(k) \in S /\ Cardinality(Earlier(S, At(k))) = k - 1
    BY <1>3
  <2>2. At(j) # At(k) /\ ~(At(k) < At(j))
    <3>1. At(k) < At(j) => k - 1 < j - 1
      BY <1>1, <2>1, Ranks
    <3> QED BY <1>2, <1>11, <2>1, <3>1
  <2>3. \A q \in S : q \in Nat
    BY <1>1
  <2>4. \A q, r \in S : q # r /\ ~(r < q) => q < r
    BY <2>3
  <2> QED BY <2>1, <2>2, <2>4
<1>12. Ascending(EventFrames(S))
  BY <1>7, <1>9, <1>11 DEF Ascending
<1> QED BY <1>3, <1>7, <1>8, <1>9, <1>10, <1>12
-----------------------------------------------------------------------------
(* Frames on their way.                                                    *)

\* G is H as far as it goes, save for the error that a stream ends with.
Within(G, H) ==
    \A k \in 1 .. Len(G) :
        \/ k <= Len(H) /\ \A j \in 1 .. k : G[j] = H[j]
        \/ G[k] = Error

LEMMA FrameFacts ==
    /\ Open.kind = "open" /\ Open.seq = 0
    /\ Error.kind = "error" /\ Error.seq = 0
    /\ \A q : Event(q).kind = "event" /\ Event(q).seq = q
    /\ \A q : Reset(q).kind = "reset" /\ Reset(q).seq = q
    /\ MaxSeq \in Nat => Open \in Frame /\ Error \in Frame /\ \A q \in 0 .. MaxSeq : Reset(q) \in Frame
  BY DEF Open, Error, Event, Reset, Frame

\* Ending a stream early hides no hole, and lets no snapshot slip behind an event.
LEMMA WithinFacts ==
    ASSUME NEW G \in Seq(Frame), NEW H \in Seq(Frame), Within(G, H)
    PROVE  /\ \A A, st : InSequence(H, A, st) => InSequence(G, A, st)
           /\ \A from : ResetsFirst(H, from) => ResetsFirst(G, from)
           /\ \A n \in Nat : (\A k \in 1 .. Len(H) : H[k].seq <= n)
                => \A k \in 1 .. Len(G) : G[k].seq <= n
<1>1. ASSUME NEW k \in 1 .. Len(G), G[k].kind # "error"
      PROVE  k \in 1 .. Len(H) /\ \A j \in 1 .. k : G[j] = H[j]
  BY <1>1, FrameFacts, LenProperties DEF Within
<1>2. ASSUME NEW A, NEW st, InSequence(H, A, st), NEW k \in 1 .. Len(G),
             G[k].kind = "event", NEW p \in A, p < G[k].seq
      PROVE  HasBefore(G, k, p, st)
  <2>1. k \in 1 .. Len(H) /\ \A j \in 1 .. k : G[j] = H[j]
    BY <1>1, <1>2
  <2>2. HasBefore(H, k, p, st)
    BY <1>2, <2>1 DEF InSequence
  <2> QED BY <2>1, <2>2 DEF HasBefore
<1>3. ASSUME NEW from, ResetsFirst(H, from), NEW k \in 1 .. Len(G), G[k].kind = "reset"
      PROVE  G[k].seq >= from /\ \A j \in 1 .. k - 1 : G[j] = Open
  <2>1. k \in 1 .. Len(H) /\ \A j \in 1 .. k : G[j] = H[j]
    BY <1>1, <1>3
  <2> QED BY <1>3, <2>1 DEF ResetsFirst
<1>4. ASSUME NEW n \in Nat, \A k \in 1 .. Len(H) : H[k].seq <= n, NEW k \in 1 .. Len(G)
      PROVE  G[k].seq <= n
  <2>1. CASE G[k] = Error
    BY <2>1, FrameFacts
  <2>2. CASE G[k] # Error
    BY <1>4, <2>2, LenProperties DEF Within
  <2> QED BY <2>1, <2>2
<1> QED BY <1>2, <1>3, <1>4 DEF InSequence, ResetsFirst

\* New events, sent in order after H, leave no hole that was not there, and
\* afterwards everything is there.
LEMMA AppendEvents ==
    ASSUME MaxSeq \in Nat, NEW H \in Seq(Frame), NEW S \in SUBSET Seqs,
           NEW A \in SUBSET Seqs, NEW st, InSequence(H, A, st),
           \A p \in A : p \in S \/ HasBefore(H, Len(H) + 1, p, st)
    PROVE  LET K == H \o EventFrames(S)
           IN  /\ K \in Seq(Frame)
               /\ InSequence(K, A, st)
               /\ \A p \in A : HasBefore(K, Len(K) + 1, p, st)
               /\ \A from : ResetsFirst(H, from) => ResetsFirst(K, from)
               /\ \A n \in Nat : (\A k \in 1 .. Len(H) : H[k].seq <= n) /\ S \subseteq 1 .. n
                    => \A k \in 1 .. Len(K) : K[k].seq <= n
<1> DEFINE E == EventFrames(S)
           K == H \o E
<1>1. /\ E \in Seq(Frame)
      /\ \A k \in 1 .. Len(E) :
           /\ E[k].kind = "event" /\ E[k].seq \in S
           /\ \A p \in S : p < E[k].seq => \E j \in 1 .. k - 1 : E[j] = Event(p)
      /\ \A p \in S : \E k \in 1 .. Len(E) : E[k] = Event(p)
  BY EventFramesFacts
<1> HIDE DEF E
<1>2. /\ K \in Seq(Frame) /\ Len(K) = Len(H) + Len(E) /\ Len(H) \in Nat /\ Len(E) \in Nat
      /\ \A k \in 1 .. Len(H) : K[k] = H[k]
      /\ \A k \in 1 .. Len(E) : K[Len(H) + k] = E[k]
  <2>1. /\ K \in Seq(Frame) /\ Len(K) = Len(H) + Len(E) /\ Len(H) \in Nat /\ Len(E) \in Nat
        /\ \A i \in 1 .. Len(H) + Len(E) : K[i] = IF i <= Len(H) THEN H[i] ELSE E[i - Len(H)]
    BY <1>1, ConcatProperties, LenProperties
  <2> HIDE DEF K
  <2>2. ASSUME NEW k \in 1 .. Len(E) PROVE K[Len(H) + k] = E[k]
    <3>1. Len(H) + k \in 1 .. Len(H) + Len(E) /\ ~(Len(H) + k <= Len(H)) /\ Len(H) + k - Len(H) = k
      BY <2>1
    <3> QED BY <2>1, <3>1
  <2> QED BY <2>1, <2>2
<1> HIDE DEF K
<1>3. ASSUME NEW k \in 1 .. Len(K), k > Len(H)
      PROVE  \E i \in 1 .. Len(E) : k = Len(H) + i /\ K[k] = E[i]
  <2>1. k - Len(H) \in 1 .. Len(E) /\ k = Len(H) + (k - Len(H))
    BY <1>2, <1>3
  <2> QED BY <1>2, <2>1
<1>4. ASSUME NEW k \in 1 .. Len(E) + 1, NEW p \in A, HasBefore(H, Len(H) + 1, p, st)
      PROVE  HasBefore(K, Len(H) + k, p, st)
  <2>1. CASE p <= st.through
    BY <2>1 DEF HasBefore
  <2>2. CASE \E j \in 1 .. Len(H) : Covers(H[j], p)
    <3>1. PICK j \in 1 .. Len(H) : Covers(K[j], p)
      BY <1>2, <2>2
    <3>2. j \in 1 .. Len(H) + k - 1
      BY <1>2
    <3> QED BY <3>1, <3>2 DEF HasBefore
  <2>3. CASE st.gap # NoGap /\ \A j \in 1 .. Len(H) : H[j].kind # "reset"
    <3>1. ASSUME NEW j \in 1 .. Len(H) + k - 1 PROVE K[j].kind # "reset"
      <4>1. CASE j <= Len(H)
        BY <1>2, <2>3, <4>1
      <4>2. CASE j > Len(H)
        <5>1. j \in 1 .. Len(K)
          BY <1>2
        <5> QED BY <1>1, <1>3, <4>2, <5>1
      <4> QED BY <1>2, <4>1, <4>2
    <3> QED BY <2>3, <3>1 DEF HasBefore
  <2>4. Len(H) + 1 - 1 = Len(H)
    BY <1>2
  <2> QED BY <1>4, <2>1, <2>2, <2>3, <2>4 DEF HasBefore
<1>5. ASSUME NEW k \in 1 .. Len(E) + 1, NEW j \in 1 .. k - 1, NEW p, E[j] = Event(p)
      PROVE  HasBefore(K, Len(H) + k, p, st)
  <2>1. j \in 1 .. Len(E) /\ Len(H) + j \in 1 .. Len(H) + k - 1
    BY <1>2
  <2>2. Covers(K[Len(H) + j], p)
    BY <1>2, <1>5, <2>1, FrameFacts DEF Covers
  <2> QED BY <2>1, <2>2 DEF HasBefore
<1>6. ASSUME NEW k \in 1 .. Len(K), K[k].kind = "event", NEW p \in A, p < K[k].seq
      PROVE  HasBefore(K, k, p, st)
  <2>1. CASE k <= Len(H)
    <3>1. k \in 1 .. Len(H) /\ \A j \in 1 .. k : K[j] = H[j]
      BY <1>2, <2>1
    <3>2. HasBefore(H, k, p, st)
      BY <1>6, <3>1 DEF InSequence
    <3> QED BY <3>1, <3>2 DEF HasBefore
  <2>2. CASE k > Len(H)
    <3>1. PICK i \in 1 .. Len(E) : k = Len(H) + i /\ K[k] = E[i]
      BY <1>3, <2>2
    <3>2. i \in 1 .. Len(E) + 1
      BY <1>2
    <3>3. CASE p \in S
      BY <1>1, <1>5, <1>6, <3>1, <3>2, <3>3
    <3>4. CASE HasBefore(H, Len(H) + 1, p, st)
      BY <1>4, <3>1, <3>2, <3>4
    <3> QED BY <3>3, <3>4
  <2> QED BY <1>2, <2>1, <2>2
<1>7. ASSUME NEW p \in A PROVE HasBefore(K, Len(K) + 1, p, st)
  <2>1. Len(E) + 1 \in 1 .. Len(E) + 1 /\ Len(K) + 1 = Len(H) + (Len(E) + 1)
    BY <1>2
  <2>2. CASE p \in S
    <3>1. PICK j \in 1 .. Len(E) : E[j] = Event(p)
      BY <1>1, <2>2
    <3>2. j \in 1 .. (Len(E) + 1) - 1
      BY <1>2
    <3> QED BY <1>5, <2>1, <3>1, <3>2
  <2>3. CASE HasBefore(H, Len(H) + 1, p, st)
    BY <1>4, <2>1, <2>3
  <2> QED BY <2>2, <2>3
<1>8. ASSUME NEW from, ResetsFirst(H, from), NEW k \in 1 .. Len(K), K[k].kind = "reset"
      PROVE  K[k].seq >= from /\ \A j \in 1 .. k - 1 : K[j] = Open
  <2>1. k <= Len(H)
    <3>1. ~(k > Len(H))
      BY <1>1, <1>3, <1>8
    <3> QED BY <1>2, <3>1
  <2>2. k \in 1 .. Len(H) /\ \A j \in 1 .. k : K[j] = H[j]
    BY <1>2, <2>1
  <2> QED BY <1>8, <2>2 DEF ResetsFirst
<1>9. ASSUME NEW n \in Nat, \A k \in 1 .. Len(H) : H[k].seq <= n, S \subseteq 1 .. n,
             NEW k \in 1 .. Len(K)
      PROVE  K[k].seq <= n
  <2>1. CASE k <= Len(H)
    BY <1>2, <1>9, <2>1
  <2>2. CASE k > Len(H)
    <3>1. PICK i \in 1 .. Len(E) : K[k] = E[i]
      BY <1>3, <2>2
    <3>2. K[k].seq \in S
      BY <1>1, <3>1
    <3>3. K[k].seq \in 1 .. n /\ n \in Nat
      BY <1>9, <3>2
    <3> QED BY <3>3
  <2> QED BY <1>2, <2>1, <2>2
<1> QED BY <1>2, <1>6, <1>7, <1>8, <1>9 DEF InSequence, ResetsFirst, K, E
\* Taking the first frame of F: what it carried is then in the projection st2, or
\* the client knows that it misses some and no snapshot is on its way.
Takes(F, G, A, st, st2) ==
    /\ F \in Seq(Frame) /\ G \in Seq(Frame) /\ Len(F) = Len(G) + 1
    /\ \A k \in 1 .. Len(G) : G[k] = F[k + 1]
    /\ \A p \in A : p <= st.through \/ Covers(F[1], p) =>
          \/ p <= st2.through
          \/ st2.gap # NoGap /\ \A k \in 1 .. Len(F) : F[k].kind # "reset"
    /\ st.gap # NoGap /\ F[1].kind # "reset" => st2.gap # NoGap

LEMMA TakeFirst ==
    ASSUME NEW F, NEW G, NEW A, NEW st, NEW st2, Takes(F, G, A, st, st2)
    PROVE  /\ \A k \in 1 .. Len(F), p \in A : HasBefore(F, k + 1, p, st) => HasBefore(G, k, p, st2)
           /\ InSequence(F, A, st) => InSequence(G, A, st2)
           /\ \A from : ResetsFirst(F, from) => ResetsFirst(G, from)
           /\ \A n \in Nat : (\A k \in 1 .. Len(F) : F[k].seq <= n)
                => \A k \in 1 .. Len(G) : G[k].seq <= n
<1> USE DEF Takes
<1>1. Len(F) \in Nat /\ Len(G) \in Nat
  BY LenProperties
<1>2. \A k \in 1 .. Len(G) : k + 1 \in 1 .. Len(F) /\ k \in 1 .. Len(F)
  BY <1>1
<1>3. ASSUME NEW k \in 1 .. Len(F), NEW p \in A, HasBefore(F, k + 1, p, st)
      PROVE  HasBefore(G, k, p, st2)
  <2>1. /\ 1 \in 1 .. k
        /\ k + 1 - 1 = k
        /\ \A j \in 1 .. k - 1 : j \in 1 .. Len(G) /\ j + 1 \in 1 .. k
        /\ \A j \in 1 .. k : j = 1 \/ (j - 1 \in 1 .. k - 1 /\ (j - 1) + 1 = j)
    BY <1>1
  <2>2. ASSUME p <= st.through \/ Covers(F[1], p) PROVE HasBefore(G, k, p, st2)
    <3>1. CASE p <= st2.through
      BY <3>1 DEF HasBefore
    <3>2. CASE st2.gap # NoGap /\ \A i \in 1 .. Len(F) : F[i].kind # "reset"
      <4>1. \A j \in 1 .. k - 1 : G[j].kind # "reset"
        BY <1>2, <2>1, <3>2
      <4> QED BY <3>2, <4>1 DEF HasBefore
    <3> QED BY <2>2, <3>1, <3>2
  <2>3. ASSUME NEW j \in 1 .. k, Covers(F[j], p), j # 1 PROVE HasBefore(G, k, p, st2)
    <3>1. j - 1 \in 1 .. k - 1 /\ Covers(G[j - 1], p)
      BY <2>1, <2>3
    <3> QED BY <3>1 DEF HasBefore
  <2>4. ASSUME st.gap # NoGap, \A j \in 1 .. k : F[j].kind # "reset" PROVE HasBefore(G, k, p, st2)
    <3>1. \A j \in 1 .. k - 1 : G[j].kind # "reset"
      BY <2>1, <2>4
    <3>2. st2.gap # NoGap
      BY <2>1, <2>4
    <3> QED BY <3>1, <3>2 DEF HasBefore
  <2>5. \/ p <= st.through
        \/ \E j \in 1 .. k : Covers(F[j], p)
        \/ st.gap # NoGap /\ \A j \in 1 .. k : F[j].kind # "reset"
    BY <1>3, <2>1 DEF HasBefore
  <2> QED BY <2>2, <2>3, <2>4, <2>5
<1>4. ASSUME InSequence(F, A, st), NEW k \in 1 .. Len(G), G[k].kind = "event",
             NEW p \in A, p < G[k].seq
      PROVE  HasBefore(G, k, p, st2)
  <2>1. HasBefore(F, k + 1, p, st)
    BY <1>2, <1>4 DEF InSequence
  <2> QED BY <1>2, <1>3, <2>1
<1>5. ASSUME NEW from, ResetsFirst(F, from), NEW k \in 1 .. Len(G), G[k].kind = "reset"
      PROVE  G[k].seq >= from /\ \A j \in 1 .. k - 1 : G[j] = Open
  <2>1. F[k + 1].seq >= from /\ \A j \in 1 .. (k + 1) - 1 : F[j] = Open
    BY <1>2, <1>5 DEF ResetsFirst
  <2>2. \A j \in 1 .. k - 1 : j \in 1 .. Len(G) /\ j + 1 \in 1 .. (k + 1) - 1
    BY <1>1
  <2> QED BY <2>1, <2>2
<1>6. ASSUME NEW n \in Nat, \A k \in 1 .. Len(F) : F[k].seq <= n, NEW k \in 1 .. Len(G)
      PROVE  G[k].seq <= n
  BY <1>2, <1>6
<1> QED BY <1>3, <1>4, <1>5, <1>6 DEF InSequence, ResetsFirst

-----------------------------------------------------------------------------
(* Streams and what they have under way.                                   *)

StreamOK(s) ==
    /\ s \in Stream /\ Cardinality(s.buffer) <= BufferLimit /\ Len(s.pending) <= FrameLimit
    /\ ~s.blocked => s.pending = <<>>

Sending(s) == s.wire \o s.pending

LEMMA SendingFacts ==
    ASSUME NEW s \in Stream
    PROVE  /\ s.wire \in Seq(Frame) /\ s.pending \in Seq(Frame) /\ Sending(s) \in Seq(Frame)
           /\ Len(Sending(s)) = Len(s.wire) + Len(s.pending)
           /\ Len(s.wire) \in Nat /\ Len(s.pending) \in Nat
           /\ \A k \in 1 .. Len(s.wire) : Sending(s)[k] = s.wire[k]
<1>1. s.wire \in Seq(Frame) /\ s.pending \in Seq(Frame)
  BY DEF Stream
<1>2. /\ Sending(s) \in Seq(Frame)
      /\ Len(Sending(s)) = Len(s.wire) + Len(s.pending)
      /\ Len(s.wire) \in Nat /\ Len(s.pending) \in Nat
      /\ \A k \in 1 .. Len(s.wire) + Len(s.pending) :
           Sending(s)[k] = IF k <= Len(s.wire) THEN s.wire[k] ELSE s.pending[k - Len(s.wire)]
  BY <1>1, ConcatProperties, LenProperties DEF Sending
<1>3. \A k \in 1 .. Len(s.wire) : k \in 1 .. Len(s.wire) + Len(s.pending) /\ k <= Len(s.wire)
  BY <1>2, Interval
<1> QED BY <1>1, <1>2, <1>3

\* The error is the last frame of a stream, after those that were written.
LEMMA TerminateFacts ==
    ASSUME MaxSeq \in Nat, NEW s \in Stream
    PROVE  LET t == Terminate(s)
           IN  /\ StreamOK(t) /\ Within(Sending(t), Sending(s))
               /\ t = [s EXCEPT !.state = "ended", !.pending = <<>>, !.buffer = {},
                                !.blocked = FALSE, !.wire = t.wire]
<1> DEFINE t == Terminate(s)
<1>1. s.wire \in Seq(Frame) /\ Error \in Frame
  BY SendingFacts, FrameFacts
<1>2. /\ Append(s.wire, Error) \in Seq(Frame) /\ Len(Append(s.wire, Error)) = Len(s.wire) + 1
      /\ \A k \in 1 .. Len(s.wire) : Append(s.wire, Error)[k] = s.wire[k]
      /\ Append(s.wire, Error)[Len(s.wire) + 1] = Error
  BY <1>1, AppendProperties
<1>3. t = [s EXCEPT !.state = "ended", !.pending = <<>>, !.buffer = {},
                    !.blocked = FALSE, !.wire = Append(s.wire, Error)]
  BY DEF Terminate
<1> HIDE DEF t
<1>4. t \in Stream /\ t.buffer = {} /\ t.pending = <<>> /\ t.wire = Append(s.wire, Error)
  <2>1. <<>> \in Seq(Frame)
    BY EmptySeq
  <2> DEFINE w == Append(s.wire, Error)
  <2>2. w \in Seq(Frame) /\ t = [s EXCEPT !.state = "ended", !.pending = <<>>, !.buffer = {},
                                         !.blocked = FALSE, !.wire = w]
    BY <1>2, <1>3
  <2> HIDE DEF w
  <2>3. t \in Stream /\ t.buffer = {} /\ t.pending = <<>> /\ t.wire = w
    BY <2>1, <2>2 DEF Stream
  <2> QED BY <2>3 DEF w
<1>5. StreamOK(t)
  <2>1. Cardinality({}) = 0 /\ Len(<<>>) = 0 /\ BufferLimit \in Nat /\ FrameLimit \in Nat
    BY FS_EmptySet, LimitAssumption
  <2> QED BY <1>4, <2>1 DEF StreamOK
<1>6. Sending(t) = Append(s.wire, Error)
  BY <1>2, <1>4, ConcatEmptySeq DEF Sending
<1>7. Within(Sending(t), Sending(s))
  <2>1. ASSUME NEW k \in 1 .. Len(s.wire) + 1
        PROVE  \/ k <= Len(Sending(s)) /\ \A j \in 1 .. k : Append(s.wire, Error)[j] = Sending(s)[j]
               \/ Append(s.wire, Error)[k] = Error
    <3>1. /\ Len(s.wire) \in Nat /\ Len(s.wire) <= Len(Sending(s)) /\ Len(Sending(s)) \in Nat
          /\ \A j \in 1 .. Len(s.wire) : Sending(s)[j] = s.wire[j]
      <4>1. /\ Len(Sending(s)) = Len(s.wire) + Len(s.pending)
            /\ Len(s.wire) \in Nat /\ Len(s.pending) \in Nat
            /\ \A j \in 1 .. Len(s.wire) : Sending(s)[j] = s.wire[j]
        BY SendingFacts
      <4> DEFINE a == Len(s.wire)
                 b == Len(s.pending)
      <4>2. a \in Nat /\ b \in Nat /\ Len(Sending(s)) = a + b
        BY <4>1
      <4> HIDE DEF a, b
      <4>3. a <= Len(Sending(s)) /\ Len(Sending(s)) \in Nat
        BY <4>2
      <4> QED BY <4>1, <4>3 DEF a
    <3>2. CASE k <= Len(s.wire)
      <4>1. \A j \in 1 .. k : j \in 1 .. Len(s.wire)
        BY <3>1, <3>2
      <4> QED BY <1>2, <3>1, <3>2, <4>1
    <3>3. CASE k = Len(s.wire) + 1
      BY <1>2, <3>3
    <3> QED BY <3>1, <3>2, <3>3
  <2> QED BY <1>2, <1>6, <2>1 DEF Within
<1>8. t = [s EXCEPT !.state = "ended", !.pending = <<>>, !.buffer = {},
                    !.blocked = FALSE, !.wire = t.wire]
  BY <1>3, <1>4
<1> QED BY <1>5, <1>7, <1>8 DEF t

\* Frames are sent behind those that are under way, all of them unless the
\* stream ends.
LEMMA SendFacts ==
    ASSUME MaxSeq \in Nat, NEW s, StreamOK(s), NEW frames \in Seq(Frame)
    PROVE  LET t == Send(s, frames)
           IN  /\ StreamOK(t) /\ Within(Sending(t), Sending(s) \o frames)
               /\ t.cursor = s.cursor /\ t.reset = s.reset /\ t.replay = s.replay
               /\ \/ t.state = "ended" /\ t.buffer = {}
                  \/ /\ t.state = s.state /\ t.buffer = s.buffer
                     /\ Sending(t) = Sending(s) \o frames
<1> DEFINE room == IF s.blocked THEN 0 ELSE Max({1, SocketLimit - Len(s.wire)})
           n == Min({room, Len(frames)})
           written == SubSeq(frames, 1, n)
           rest == SubSeq(frames, room + 1, Len(frames))
           full == s.blocked \/ Len(s.wire) + Len(written) >= SocketLimit
           sent == [s EXCEPT !.wire = @ \o written, !.pending = @ \o rest, !.blocked = full]
           t == Send(s, frames)
<1>1. /\ s \in Stream /\ s.wire \in Seq(Frame) /\ s.pending \in Seq(Frame)
      /\ Len(s.wire) \in Nat /\ Len(frames) \in Nat /\ SocketLimit \in Nat
      /\ FrameLimit \in Nat /\ s.blocked \in BOOLEAN
  BY SendingFacts, LenProperties, LimitAssumption DEF StreamOK, Stream
<1>2. /\ room \in Nat
      /\ ~s.blocked => room >= SocketLimit - Len(s.wire)
      /\ s.blocked => room = 0
  BY <1>1, OfTwo
<1>3. n \in 0 .. Len(frames) /\ n <= room /\ n = IF room <= Len(frames) THEN room ELSE Len(frames)
  <2> HIDE DEF room
  <2>1. room \in Nat /\ Len(frames) \in Nat
    BY <1>1, <1>2
  <2> DEFINE m == Len(frames)
  <2>2. room \in Int /\ m \in Int
    BY <2>1
  <2> HIDE DEF m
  <2>3. Min({room, m}) = IF room <= m THEN room ELSE m
    BY <2>2, OfTwo
  <2> QED BY <2>1, <2>3 DEF m
<1> HIDE DEF room, n
<1>4. \A i \in 1 .. Len(frames) : frames[i] \in Frame
  BY ElementOfSeq
<1>5. written \in Seq(Frame) /\ Len(written) = n
  <2>1. \A i \in 1 .. n : frames[i] \in Frame
    BY <1>1, <1>3, <1>4
  <2>2. 1 \in Int /\ n \in Int /\ (IF 1 <= n THEN n - 1 + 1 ELSE 0) = n
    BY <1>3
  <2> QED BY <2>1, <2>2, SubSeqProperties
<1>6. rest \in Seq(Frame)
  <2>1. room + 1 \in Int /\ Len(frames) \in Int /\ \A i \in room + 1 .. Len(frames) : frames[i] \in Frame
    BY <1>1, <1>2, <1>4
  <2> QED BY <2>1, SubSeqProperties
<1>7. written \o rest = frames
  <2>1. CASE room <= Len(frames)
    <3>1. n = room /\ n \in 0 .. Len(frames) /\ 1 \in 1 .. Len(frames) + 1 /\ Len(frames) \in n .. Len(frames)
      BY <1>1, <1>2, <1>3, <2>1
    <3>2. n \in 1 - 1 .. Len(frames)
      BY <3>1
    <3>3. SubSeq(frames, 1, n) \o SubSeq(frames, n + 1, Len(frames)) = SubSeq(frames, 1, Len(frames))
      BY <3>1, <3>2, ConcatAdjacentSubSeq
    <3> QED BY <3>1, <3>3, SubSeqFull
  <2>2. CASE room > Len(frames)
    <3>1. n = Len(frames) /\ room + 1 \in Int /\ Len(frames) \in Int /\ Len(frames) < room + 1
      BY <1>1, <1>2, <1>3, <2>2
    <3>2. written = frames /\ rest = <<>>
      BY <3>1, SubSeqFull, SubSeqEmpty
    <3> QED BY <3>2, ConcatEmptySeq
  <2> DEFINE m == Len(frames)
  <2>3. room \in Nat /\ m \in Nat
    BY <1>1, <1>2
  <2> HIDE DEF m
  <2>4. room <= m \/ room > m
    BY <2>3
  <2> QED BY <2>1, <2>2, <2>4 DEF m
<1>8. s.blocked => written = <<>> /\ rest = frames
  <2> SUFFICES ASSUME s.blocked PROVE written = <<>> /\ rest = frames
    OBVIOUS
  <2>1. n = 0
    BY <1>1, <1>2, <1>3
  <2>2. written = <<>>
    BY <2>1, SubSeqEmpty
  <2> QED BY <1>2, <2>2, SubSeqFull
<1>9. ~full => rest = <<>>
  <2> SUFFICES ASSUME ~full PROVE rest = <<>>
    OBVIOUS
  <2>1. Len(s.wire) \in Nat /\ Len(frames) \in Nat /\ SocketLimit \in Nat /\ room \in Nat /\ n \in Nat
    BY <1>1, <1>2, <1>3
  <2>2. ~s.blocked /\ ~(Len(s.wire) + n >= SocketLimit)
    BY <1>5
  <2>3. Len(frames) < room + 1
    <3> DEFINE m == Len(frames)
               w == Len(s.wire)
    <3>1. m \in Nat /\ w \in Nat /\ n = (IF room <= m THEN room ELSE m) /\ room >= SocketLimit - w
          /\ ~(w + n >= SocketLimit)
      BY <1>2, <1>3, <2>1, <2>2
    <3> HIDE DEF m, w
    <3>2. m < room + 1
      BY <2>1, <3>1
    <3> QED BY <3>2 DEF m
  <2> QED BY <2>1, <2>3, SubSeqEmpty
<1> HIDE DEF written, rest
<1>10. s.wire \o written \in Seq(Frame) /\ s.pending \o rest \in Seq(Frame) /\ full \in BOOLEAN
  BY <1>1, <1>5, <1>6, ConcatProperties
<1> HIDE DEF full
<1>11. /\ sent \in Stream /\ sent.wire = s.wire \o written /\ sent.pending = s.pending \o rest
       /\ sent.blocked = full /\ sent.state = s.state /\ sent.buffer = s.buffer
       /\ sent.cursor = s.cursor /\ sent.reset = s.reset /\ sent.replay = s.replay
  BY <1>1, <1>10 DEF Stream
<1>12. Sending(sent) = Sending(s) \o frames
  <2>1. CASE s.blocked
    <3>1. sent.wire = s.wire /\ sent.pending = s.pending \o frames
      BY <1>1, <1>8, <1>11, <2>1, ConcatEmptySeq
    <3>2. (s.wire \o s.pending) \o frames = s.wire \o (s.pending \o frames)
      <4> DEFINE w == s.wire
                 p == s.pending
      <4>1. w \in Seq(Frame) /\ p \in Seq(Frame)
        BY <1>1
      <4> HIDE DEF w, p
      <4>2. (w \o p) \o frames = w \o (p \o frames)
        BY <4>1, ConcatAssociative
      <4> QED BY <4>2 DEF w, p
    <3> HIDE DEF sent
    <3> QED BY <3>1, <3>2 DEF Sending
  <2>2. CASE ~s.blocked
    <3>1. s.pending = <<>>
      BY <2>2 DEF StreamOK
    <3>2. sent.pending = rest /\ Sending(s) = s.wire
      BY <1>1, <1>6, <1>11, <3>1, ConcatEmptySeq DEF Sending
    <3>3. (s.wire \o written) \o rest = s.wire \o (written \o rest)
      <4> DEFINE w == s.wire
      <4>1. w \in Seq(Frame)
        BY <1>1
      <4> HIDE DEF w
      <4>2. (w \o written) \o rest = w \o (written \o rest)
        BY <1>5, <1>6, <4>1, ConcatAssociative
      <4> QED BY <4>2 DEF w
    <3> QED BY <1>7, <1>11, <3>2, <3>3 DEF Sending
  <2> QED BY <2>1, <2>2
<1>13. ~sent.blocked => sent.pending = <<>>
  <2> SUFFICES ASSUME ~full PROVE s.pending \o rest = <<>>
    BY <1>11
  <2>1. s.pending = <<>>
    BY <1>1 DEF full, StreamOK
  <2> QED BY <1>9, <2>1, ConcatEmptySeq, EmptySeq
<1>14. t = IF Len(sent.pending) <= FrameLimit THEN sent ELSE Terminate(sent)
  BY DEF Send, room, n, written, rest, full
<1> HIDE DEF sent, t
<1>15. CASE Len(sent.pending) <= FrameLimit
  <2>1. t = sent /\ StreamOK(sent)
    BY <1>11, <1>13, <1>14, <1>15 DEF StreamOK
  <2>2. Within(Sending(t), Sending(t))
    <3>1. Len(Sending(t)) \in Nat
      BY <1>11, <2>1, SendingFacts, LenProperties
    <3> QED BY <3>1 DEF Within
  <2> QED BY <1>11, <1>12, <2>1, <2>2 DEF t
<1>16. CASE ~(Len(sent.pending) <= FrameLimit)
  <2>1. t = Terminate(sent)
    BY <1>14, <1>16
  <2>2. /\ StreamOK(t) /\ Within(Sending(t), Sending(sent))
        /\ t = [sent EXCEPT !.state = "ended", !.pending = <<>>, !.buffer = {},
                            !.blocked = FALSE, !.wire = t.wire]
    BY <1>11, <2>1, TerminateFacts
  <2>3. /\ t.state = "ended" /\ t.buffer = {} /\ t.cursor = sent.cursor /\ t.reset = sent.reset
        /\ t.replay = sent.replay
    BY <1>11, <2>2 DEF Stream
  <2> QED BY <1>11, <1>12, <2>2, <2>3 DEF t
<1> QED BY <1>15, <1>16
-----------------------------------------------------------------------------
(* The invariant of a stream s, for the published events A of the first n,  *)
(* and the client as it is.                                                 *)

Numbers(F, n) == \A k \in 1 .. Len(F) : F[k].seq <= n

SentPart(s, A, n) ==
    /\ StreamOK(s)
    /\ s.cursor <= n /\ s.replay \cup s.buffer \subseteq 1 .. n
    /\ Numbers(Sending(s), n)
    /\ InSequence(Sending(s), A, store)
    /\ ResetsFirst(Sending(s), cursor)

ReplayPart(s, A, n) ==
    /\ s.state \in {"connecting", "replaying"} =>
         /\ s.cursor = cursor
         /\ \A k \in 1 .. Len(Sending(s)) : Sending(s)[k] = Open
    /\ s.state = "connecting" => s.buffer = {}
    /\ s.state = "replaying" =>
         /\ s.reset => \E m \in cursor .. n : s.replay = {m}
         /\ \A p \in A : \/ p <= cursor
                         \/ p \in s.buffer
                         \/ p \in s.replay
                         \/ s.reset /\ \A m \in s.replay : p <= m

AllBefore(F, A) == \A p \in A : HasBefore(F, Len(F) + 1, p, store)

LivePart(s, A) ==
    s.state = "live" => AllBefore(Sending(s), A) /\ \A p \in A : p <= s.cursor

StreamPart(s, A, n) == SentPart(s, A, n) /\ ReplayPart(s, A, n) /\ LivePart(s, A)

\* Sending on.
LEMMA SendPart ==
    ASSUME MaxSeq \in Nat, NEW n \in 0 .. MaxSeq, NEW A, NEW s, SentPart(s, A, n),
           NEW frames \in Seq(Frame),
           Numbers(Sending(s) \o frames, n),
           InSequence(Sending(s) \o frames, A, store),
           ResetsFirst(Sending(s) \o frames, cursor)
    PROVE  SentPart(Send(s, frames), A, n)
<1> DEFINE t == Send(s, frames)
           K == Sending(s) \o frames
<1>1. /\ StreamOK(t) /\ Within(Sending(t), K)
      /\ t.cursor = s.cursor /\ t.replay = s.replay
      /\ t.buffer \subseteq s.buffer
  BY SendFacts DEF SentPart
<1>2. Sending(t) \in Seq(Frame) /\ K \in Seq(Frame)
  <2>1. Sending(t) \in Seq(Frame) /\ Sending(s) \in Seq(Frame)
    BY <1>1, SendingFacts DEF StreamOK, SentPart
  <2> QED BY <2>1, ConcatProperties
<1> HIDE DEF t, K
<1>3. InSequence(K, A, store) /\ ResetsFirst(K, cursor) /\ \A k \in 1 .. Len(K) : K[k].seq <= n
  BY DEF K, Numbers
<1>4. /\ InSequence(Sending(t), A, store) /\ ResetsFirst(Sending(t), cursor)
      /\ \A k \in 1 .. Len(Sending(t)) : Sending(t)[k].seq <= n
  BY <1>1, <1>2, <1>3, WithinFacts
<1>5. SentPart(t, A, n)
  BY <1>1, <1>4 DEF SentPart, Numbers
<1> QED BY <1>5 DEF t

\* Only the cursor, or what is replayed, is different.
LEMMA SameSent ==
    ASSUME NEW A, NEW n, NEW s, SentPart(s, A, n), NEW t \in Stream,
           t.wire = s.wire, t.pending = s.pending, t.blocked = s.blocked,
           Cardinality(t.buffer) <= BufferLimit,
           t.cursor <= n, t.replay \cup t.buffer \subseteq 1 .. n
    PROVE  SentPart(t, A, n)
  BY DEF SentPart, StreamOK, Sending

LEMMA SentTyped ==
    ASSUME NEW A, NEW n, NEW s, SentPart(s, A, n)
    PROVE  /\ s \in Stream /\ StreamOK(s) /\ s.cursor \in Nat /\ s.cursor <= n
           /\ s.reset \in BOOLEAN /\ Sending(s) \in Seq(Frame)
           /\ Numbers(Sending(s), n) /\ s.replay \cup s.buffer \subseteq 1 .. n
           /\ InSequence(Sending(s), A, store) /\ ResetsFirst(Sending(s), cursor)
<1>1. s \in Stream
  BY DEF SentPart, StreamOK
<1>2. s.cursor \in Nat /\ s.reset \in BOOLEAN
  BY <1>1 DEF Stream
<1>3. Sending(s) \in Seq(Frame)
  BY <1>1, SendingFacts
<1> QED BY <1>1, <1>2, <1>3 DEF SentPart

\* Events are sent behind what is under way.
LEMMA EmitPart ==
    ASSUME MaxSeq \in Nat, NEW n \in 0 .. MaxSeq, NEW A \in SUBSET (1 .. n), NEW s, SentPart(s, A, n),
           NEW S \in SUBSET (1 .. n),
           \A p \in A : p \in Unsent(s, S)
                        \/ HasBefore(Sending(s), Len(Sending(s)) + 1, p, store)
    PROVE  LET t == Emit(s, S)
           IN  /\ SentPart(t, A, n) /\ t.replay = s.replay /\ t.reset = s.reset
               /\ \/ t.state = "ended"
                  \/ /\ t.state = s.state /\ t.buffer = s.buffer
                     /\ AllBefore(Sending(t), A)
                     /\ s.cursor <= t.cursor /\ \A q \in S : q <= t.cursor
<1> DEFINE U == Unsent(s, S)
           E == EventFrames(U)
           K == Sending(s) \o E
           u == Send(s, E)
           t == Emit(s, S)
<1>1. /\ s \in Stream /\ StreamOK(s) /\ s.cursor \in Nat /\ s.cursor <= n
      /\ Sending(s) \in Seq(Frame) /\ Numbers(Sending(s), n)
      /\ s.replay \cup s.buffer \subseteq 1 .. n
      /\ InSequence(Sending(s), A, store) /\ ResetsFirst(Sending(s), cursor)
  BY SentTyped
<1>2. CASE U = {}
  <2>1. t = s
    BY <1>2 DEF Emit
  <2>2. AllBefore(Sending(s), A)
    BY <1>2 DEF AllBefore
  <2>3. ASSUME NEW q \in S PROVE q <= s.cursor
    <3>1. q \in Nat /\ ~(q > s.cursor)
      BY <1>2 DEF Unsent
    <3> QED BY <1>1, <3>1
  <2> QED BY <1>1, <2>1, <2>2, <2>3
<1>3. CASE U # {}
  <2>1. U \in SUBSET Seqs /\ U \subseteq 1 .. n /\ A \in SUBSET Seqs /\ E \in Seq(Frame)
    <3>1. U \in SUBSET Seqs /\ U \subseteq 1 .. n /\ A \in SUBSET Seqs
      <4>1. \A q \in 1 .. n : q \in Seqs
        BY DEF Seqs
      <4> QED BY <4>1 DEF Unsent
    <3> QED BY <3>1, EventFramesFacts
  <2>2. /\ InSequence(K, A, store) /\ AllBefore(K, A) /\ ResetsFirst(K, cursor) /\ Numbers(K, n)
    <3>1. \A p \in A : p \in U \/ HasBefore(Sending(s), Len(Sending(s)) + 1, p, store)
      OBVIOUS
    <3> DEFINE H == Sending(s)
    <3> HIDE DEF U, H
    <3>2. /\ InSequence(H \o EventFrames(U), A, store)
          /\ \A p \in A : HasBefore(H \o EventFrames(U), Len(H \o EventFrames(U)) + 1, p, store)
          /\ ResetsFirst(H \o EventFrames(U), cursor)
          /\ \A m \in Nat : (\A k \in 1 .. Len(H) : H[k].seq <= m) /\ U \subseteq 1 .. m
               => \A k \in 1 .. Len(H \o EventFrames(U)) : (H \o EventFrames(U))[k].seq <= m
      <4>1. H \in Seq(Frame) /\ InSequence(H, A, store) /\ ResetsFirst(H, cursor)
            /\ \A p \in A : p \in U \/ HasBefore(H, Len(H) + 1, p, store)
        BY <1>1, <3>1 DEF H
      <4> QED BY <2>1, <4>1, AppendEvents
    <3>3. n \in Nat /\ \A k \in 1 .. Len(H) : H[k].seq <= n
      BY <1>1 DEF H, Numbers
    <3>4. Numbers(H \o EventFrames(U), n)
      BY <2>1, <3>2, <3>3 DEF Numbers
    <3> QED BY <3>2, <3>4 DEF AllBefore, H
  <2>3. SentPart(u, A, n)
    BY <2>1, <2>2, SendPart
  <2>4. /\ u.cursor = s.cursor /\ u.reset = s.reset /\ u.replay = s.replay
        /\ \/ u.state = "ended"
           \/ u.state = s.state /\ u.buffer = s.buffer /\ Sending(u) = K
    BY <1>1, <2>1, SendFacts
  <2>5. t = [u EXCEPT !.cursor = Max(S)]
    BY <1>3 DEF Emit
  <2>6. Max(S) \in S /\ \A q \in S : q <= Max(S)
    <3>1. S \in SUBSET (0 .. n) /\ S # {} /\ n \in Nat
      BY <1>3 DEF Unsent
    <3> QED BY <3>1, MaxFacts
  <2> DEFINE m == Max(S)
  <2>7. m \in 1 .. n /\ m \in 0 .. MaxSeq /\ m <= n /\ s.cursor <= m /\ \A q \in S : q <= m
    <3>1. m \in S
      BY <2>6
    <3> HIDE DEF m
    <3>2. m \in 1 .. n
      BY <3>1
    <3>3. PICK q \in S : q > s.cursor
      BY <1>3 DEF Unsent
    <3>4. q <= m
      BY <2>6, <3>3 DEF m
    <3>5. q \in Nat /\ m \in Nat /\ m <= n
      BY <3>2, <3>3
    <3>6. s.cursor <= m
      BY <1>1, <3>3, <3>4, <3>5
    <3> QED BY <2>6, <3>2, <3>6 DEF m
  <2> HIDE DEF m, u, K, t
  <2>8. u \in Stream /\ u.replay \cup u.buffer \subseteq 1 .. n /\ Cardinality(u.buffer) <= BufferLimit
    BY <2>3 DEF SentPart, StreamOK
  <2>9. /\ t \in Stream /\ t.wire = u.wire /\ t.pending = u.pending /\ t.blocked = u.blocked
        /\ t.buffer = u.buffer /\ t.replay = u.replay /\ t.reset = u.reset /\ t.state = u.state
        /\ t.cursor = m
    BY <2>5, <2>7, <2>8 DEF Stream, m
  <2>10. SentPart(t, A, n)
    BY <2>3, <2>7, <2>8, <2>9, SameSent
  <2>11. Sending(t) = Sending(u)
    BY <2>9 DEF Sending
  <2> QED BY <2>2, <2>4, <2>7, <2>9, <2>10, <2>11 DEF t
<1> QED BY <1>2, <1>3

\* A snapshot in place of the replay, and the events that were published since.
LEMMA SnapshotPart ==
    ASSUME MaxSeq \in Nat, NEW n \in 0 .. MaxSeq, NEW A \in SUBSET (1 .. n), NEW s,
           StreamPart(s, A, n), s.state = "replaying", s.reset,
           cursor \in 0 .. n, store.through = cursor
    PROVE  LET through == Max(s.replay)
               sent == Send(s, <<Reset(through)>> \o EventFrames({q \in s.buffer : q > through}))
           IN  /\ SentPart(sent, A, n) /\ sent.replay = s.replay /\ sent.cursor = cursor
               /\ sent.state = "ended" \/ (sent.state = "replaying" /\ AllBefore(Sending(sent), A))
<1> DEFINE through == Max(s.replay)
           B == {q \in s.buffer : q > through}
           sent == Send(s, <<Reset(through)>> \o EventFrames(B))
<1>1. /\ SentPart(s, A, n) /\ s \in Stream /\ StreamOK(s) /\ s.cursor = cursor
      /\ Sending(s) \in Seq(Frame) /\ s.replay \cup s.buffer \subseteq 1 .. n
      /\ \A k \in 1 .. Len(Sending(s)) : Sending(s)[k] = Open
      /\ \E m \in cursor .. n : s.replay = {m}
      /\ \A p \in A : \/ p <= cursor
                      \/ p \in s.buffer
                      \/ p \in s.replay
                      \/ \A m \in s.replay : p <= m
  BY SendingFacts DEF StreamPart, SentPart, ReplayPart, StreamOK, Stream
<1>2. PICK m \in cursor .. n : s.replay = {m}
  BY <1>1
<1>3. m \in 1 .. n /\ m \in Nat /\ m >= cursor /\ m \in 0 .. MaxSeq /\ through = m
  <2>1. m \in 1 .. n
    BY <1>1, <1>2
  <2>2. Max({m}) = m
    BY <2>1, OfOne
  <2> QED BY <1>2, <2>1, <2>2
<1> DEFINE first == <<Reset(m)>>
           H == Sending(s) \o first
           K == H \o EventFrames(B)
<1>4. first \in Seq(Frame) /\ Len(first) = 1 /\ first[1] = Reset(m) /\ H \in Seq(Frame)
  <2>1. Reset(m) \in Frame
    BY <1>3, FrameFacts
  <2> DEFINE r == Reset(m)
  <2> HIDE DEF r
  <2>2. <<r>> \in Seq(Frame) /\ Len(<<r>>) = 1 /\ <<r>>[1] = r
    BY <2>1 DEF r
  <2>3. first \in Seq(Frame) /\ Len(first) = 1 /\ first[1] = Reset(m)
    BY <2>2 DEF r
  <2> QED BY <1>1, <2>3, ConcatProperties
<1> HIDE DEF first
<1> DEFINE size == Len(Sending(s))
<1>5. /\ size \in Nat /\ Len(H) = size + 1
      /\ \A k \in 1 .. size : H[k] = Open
      /\ H[size + 1] = Reset(m)
  <2>1. /\ size \in Nat /\ Len(H) = size + 1
        /\ \A k \in 1 .. size + 1 : H[k] = IF k <= size THEN Sending(s)[k] ELSE first[k - size]
    <3> DEFINE F == Sending(s)
    <3>1. F \in Seq(Frame)
      BY <1>1
    <3> HIDE DEF F
    <3>2. /\ Len(F) \in Nat /\ Len(F \o first) = Len(F) + 1
          /\ \A k \in 1 .. Len(F) + 1 : (F \o first)[k] = IF k <= Len(F) THEN F[k] ELSE first[k - Len(F)]
      <4>1. /\ Len(F \o first) = Len(F) + Len(first)
            /\ \A k \in 1 .. Len(F) + Len(first) :
                 (F \o first)[k] = IF k <= Len(F) THEN F[k] ELSE first[k - Len(F)]
        <5>1. first \in Seq(Frame)
          BY <1>4
        <5> QED BY <3>1, <5>1, ConcatProperties
      <4>2. Len(F) \in Nat /\ Len(first) = 1
        BY <1>4, <3>1, LenProperties
      <4> QED BY <4>1, <4>2
    <3> QED BY <3>2 DEF F
  <2> HIDE DEF H, size
  <2>2. \A k \in 1 .. size : k \in 1 .. size + 1 /\ k <= size
    BY <2>1
  <2>3. size + 1 \in 1 .. size + 1 /\ ~(size + 1 <= size) /\ (size + 1) - size = 1
    BY <2>1
  <2> QED BY <1>1, <1>4, <2>1, <2>2, <2>3 DEF size
<1> HIDE DEF H, size
<1>6. ASSUME NEW k \in 1 .. Len(H)
      PROVE  /\ k = size + 1 \/ H[k] = Open
             /\ k = size + 1 => \A j \in 1 .. k - 1 : H[j] = Open
  BY <1>5
<1>7. /\ InSequence(H, A, store) /\ ResetsFirst(H, cursor) /\ Numbers(H, n)
  <2>1. \A k \in 1 .. Len(H) : H[k] = Open \/ (k = size + 1 /\ H[k] = Reset(m))
    BY <1>5, <1>6
  <2>2. InSequence(H, A, store)
    BY <2>1, FrameFacts DEF InSequence
  <2>3. ResetsFirst(H, cursor)
    BY <1>3, <1>6, <2>1, FrameFacts DEF ResetsFirst
  <2>4. Numbers(H, n)
    BY <1>3, <2>1, FrameFacts DEF Numbers
  <2> QED BY <2>2, <2>3, <2>4
<1>8. ASSUME NEW p \in A PROVE p \in B \/ HasBefore(H, Len(H) + 1, p, store)
  <2>1. p \in Nat
    OBVIOUS
  <2>2. CASE p <= cursor
    BY <2>2 DEF HasBefore
  <2>3. CASE p <= m
    <3>1. Covers(H[size + 1], p)
      BY <1>3, <1>5, <2>1, <2>3, FrameFacts DEF Covers
    <3>2. size + 1 \in 1 .. Len(H) + 1 - 1
      BY <1>5
    <3> QED BY <3>1, <3>2 DEF HasBefore
  <2>4. CASE p > m /\ ~(p <= cursor)
    <3>1. p \notin s.replay /\ ~(\A q \in s.replay : p <= q)
      BY <1>2, <1>3, <2>1, <2>4
    <3>2. p \in s.buffer
      BY <1>1, <2>4, <3>1
    <3> QED BY <1>3, <2>4, <3>2
  <2> QED BY <1>3, <2>1, <2>2, <2>3, <2>4
<1>9. B \in SUBSET Seqs /\ B \subseteq 1 .. n /\ A \in SUBSET Seqs /\ EventFrames(B) \in Seq(Frame)
  <2>1. B \in SUBSET Seqs /\ B \subseteq 1 .. n /\ A \in SUBSET Seqs
    BY <1>1 DEF Seqs
  <2> QED BY <2>1, EventFramesFacts
<1> HIDE DEF B
<1>10. /\ InSequence(K, A, store) /\ AllBefore(K, A) /\ ResetsFirst(K, cursor) /\ Numbers(K, n)
  <2>1. n \in Nat
    OBVIOUS
  <2> QED BY <1>4, <1>7, <1>8, <1>9, <2>1, AppendEvents DEF AllBefore, Numbers
<1> DEFINE frames == first \o EventFrames(B)
<1>11. frames \in Seq(Frame) /\ Sending(s) \o frames = K
  <2> DEFINE F == Sending(s)
             E == EventFrames(B)
  <2>1. F \in Seq(Frame) /\ E \in Seq(Frame) /\ first \in Seq(Frame)
    BY <1>1, <1>4, <1>9
  <2> HIDE DEF F, E
  <2>2. first \o E \in Seq(Frame) /\ F \o (first \o E) = (F \o first) \o E
    BY <2>1, ConcatAssociative, ConcatProperties
  <2> QED BY <2>2 DEF F, E, H
<1>12. sent = Send(s, frames)
  BY <1>1, <1>3 DEF first
<1> HIDE DEF frames, K, sent
<1>13. SentPart(sent, A, n)
  BY <1>1, <1>10, <1>11, <1>12, SendPart
<1>14. /\ sent.cursor = s.cursor /\ sent.replay = s.replay
       /\ sent.state = "ended" \/ (sent.state = s.state /\ Sending(sent) = K)
  BY <1>1, <1>11, <1>12, SendFacts
<1>15. s.state = "replaying"
  OBVIOUS
<1>16. /\ SentPart(sent, A, n) /\ sent.replay = s.replay /\ sent.cursor = cursor
       /\ sent.state = "ended" \/ (sent.state = "replaying" /\ AllBefore(Sending(sent), A))
  BY <1>1, <1>10, <1>13, <1>14, <1>15
<1> QED BY <1>16 DEF sent, B

\* The replay, or the snapshot in its place, and what was published meanwhile.
LEMMA FinishedPart ==
    ASSUME MaxSeq \in Nat, NEW n \in 0 .. MaxSeq, NEW A \in SUBSET (1 .. n), NEW s,
           StreamPart(s, A, n), s.state = "replaying",
           cursor \in 0 .. n, store.through = cursor
    PROVE  StreamPart(Finished(s), A, n) /\ Finished(s).state \in {"ended", "live"}
<1> DEFINE through == Max(s.replay)
           B == {q \in s.buffer : q > through}
           sent == IF s.reset THEN Send(s, <<Reset(through)>> \o EventFrames(B))
                   ELSE Emit(s, s.replay \cup s.buffer)
           top == Max({sent.cursor} \cup s.replay \cup s.buffer)
           t == Finished(s)
<1>1. /\ SentPart(s, A, n) /\ s \in Stream /\ StreamOK(s) /\ s.cursor = cursor /\ s.reset \in BOOLEAN
      /\ Sending(s) \in Seq(Frame) /\ s.replay \cup s.buffer \subseteq 1 .. n
      /\ \A k \in 1 .. Len(Sending(s)) : Sending(s)[k] = Open
      /\ s.reset => \E m \in cursor .. n : s.replay = {m}
      /\ \A p \in A : \/ p <= cursor
                      \/ p \in s.buffer
                      \/ p \in s.replay
                      \/ s.reset /\ \A m \in s.replay : p <= m
  BY SendingFacts DEF StreamPart, SentPart, ReplayPart, StreamOK, Stream
\* What was sent: everything, or the stream ended.
<1>2. /\ SentPart(sent, A, n) /\ sent.replay = s.replay
      /\ \/ sent.state = "ended"
         \/ /\ sent.state = "replaying" /\ AllBefore(Sending(sent), A)
            /\ cursor <= sent.cursor
  <2>1. CASE s.reset
    <3>1. cursor <= cursor
      OBVIOUS
    <3> QED BY <2>1, <3>1, SnapshotPart
  <2>2. CASE ~s.reset
    <3> DEFINE S == s.replay \cup s.buffer
    <3>1. S \in SUBSET (1 .. n)
      BY <1>1
    <3>2. ASSUME NEW p \in A
          PROVE  p \in Unsent(s, S) \/ HasBefore(Sending(s), Len(Sending(s)) + 1, p, store)
      <4>1. CASE p <= cursor
        BY <4>1 DEF HasBefore
      <4>2. CASE ~(p <= cursor)
        <5>1. p \in Nat /\ cursor \in Nat /\ p \in S
          <6>1. p \in s.buffer \/ p \in s.replay
            BY <1>1, <2>2, <4>2
          <6> QED BY <6>1
        <5>2. p > s.cursor
          BY <1>1, <4>2, <5>1
        <5> QED BY <5>1, <5>2 DEF Unsent
      <4> QED BY <4>1, <4>2
    <3> HIDE DEF S
    <3>3. sent = Emit(s, S)
      BY <2>2 DEF S
    <3> HIDE DEF sent
    <3> QED BY <1>1, <3>1, <3>2, <3>3, EmitPart
  <2> QED BY <1>1, <2>1, <2>2
<1>3. t = IF sent.state = "ended" THEN sent
          ELSE [sent EXCEPT !.state = "live", !.buffer = {}, !.replay = {}, !.reset = FALSE, !.cursor = top]
  BY DEF Finished
<1>4. sent \in Stream /\ sent.cursor \in 0 .. n
  <2>1. sent \in Stream /\ sent.cursor <= n
    BY <1>2 DEF SentPart, StreamOK
  <2>2. sent.cursor \in Nat
    BY <2>1 DEF Stream
  <2> QED BY <2>1, <2>2
<1>5. top \in 0 .. n /\ \A q \in {sent.cursor} \cup s.replay \cup s.buffer : q <= top
  <2> DEFINE S == {sent.cursor} \cup s.replay \cup s.buffer
  <2>1. S \in SUBSET (0 .. n) /\ S # {} /\ n \in Nat
    <3>1. \A q \in 1 .. n : q \in 0 .. n
      OBVIOUS
    <3>2. s.replay \cup s.buffer \subseteq 0 .. n /\ sent.cursor \in 0 .. n /\ n \in Nat
      BY <1>1, <1>4, <3>1
    <3> QED BY <3>2
  <2> HIDE DEF S
  <2>2. Max(S) \in S /\ \A q \in S : q <= Max(S)
    BY <2>1, MaxFacts
  <2>3. Max(S) \in 0 .. n
    BY <2>1, <2>2
  <2> QED BY <2>2, <2>3 DEF S
<1> HIDE DEF sent, t, top
<1>6. CASE sent.state = "ended"
  <2>1. StreamPart(sent, A, n)
    BY <1>2, <1>6 DEF StreamPart, ReplayPart, LivePart
  <2> QED BY <1>3, <1>6, <2>1 DEF t
<1>7. CASE sent.state # "ended"
  <2>1. /\ t \in Stream /\ t.wire = sent.wire /\ t.pending = sent.pending /\ t.blocked = sent.blocked
        /\ t.buffer = {} /\ t.replay = {} /\ t.cursor = top /\ t.state = "live"
    <3>1. top \in 0 .. MaxSeq
      BY <1>5
    <3>2. t = [sent EXCEPT !.state = "live", !.buffer = {}, !.replay = {}, !.reset = FALSE, !.cursor = top]
      BY <1>3, <1>7
    <3> QED BY <1>4, <3>1, <3>2 DEF Stream
  <2>2. Cardinality(t.buffer) <= BufferLimit
    BY <2>1, FS_EmptySet, LimitAssumption
  <2>3. SentPart(t, A, n)
    <3>1. t.cursor <= n /\ t.replay \cup t.buffer \subseteq 1 .. n
      BY <1>5, <2>1
    <3> QED BY <1>2, <2>1, <2>2, <3>1, SameSent
  <2>4. AllBefore(Sending(t), A)
    BY <1>2, <1>7, <2>1 DEF Sending
  <2>5. ASSUME NEW p \in A PROVE p <= t.cursor
    <3>1. CASE p \in s.buffer \/ p \in s.replay
      BY <1>5, <2>1, <3>1
    <3>2. ASSUME NEW q \in s.replay, p <= q PROVE p <= t.cursor
      <4>1. p \in Nat /\ q \in Nat /\ top \in Nat /\ q <= top
        BY <1>1, <1>5, <3>2
      <4> QED BY <2>1, <3>2, <4>1
    <3>3. CASE p <= cursor
      <4>1. cursor <= sent.cursor
        BY <1>2, <1>7
      <4>2. p \in Nat /\ cursor \in Nat /\ top \in Nat /\ sent.cursor \in Nat /\ sent.cursor <= top
        BY <1>4, <1>5
      <4> QED BY <2>1, <3>3, <4>1, <4>2
    <3> QED BY <1>1, <3>1, <3>2, <3>3
  <2> QED BY <1>3, <1>7, <2>1, <2>3, <2>4, <2>5 DEF StreamPart, ReplayPart, LivePart, t
<1> QED BY <1>6, <1>7
-----------------------------------------------------------------------------
(* Steps of the server, and the feed.                                      *)

Feed == TypeOK /\ FeedInv

LEMMA FeedParts ==
    ASSUME Feed
    PROVE  /\ StreamPart(stream, Published, last) /\ stream \in Stream
           /\ MaxSeq \in Nat /\ MaxFault \in Nat
           /\ last \in 0 .. MaxSeq /\ Published \in SUBSET (1 .. last)
           /\ rows \subseteq 1 .. last /\ unpublished \subseteq 1 .. last
           /\ cursor \in 0 .. last /\ store.through = cursor
           /\ Sending(stream) = Underway /\ Sending(stream) \in Seq(Frame)
<1>1. stream \in Stream /\ StreamOK(stream)
  BY DEF Feed, TypeOK, FeedInv, Numbered, StreamOK
<1>2. Sending(stream) = Underway
  BY DEF Sending, Underway
<1>3. SentPart(stream, Published, last)
  BY <1>1, <1>2 DEF Feed, FeedInv, Numbered, SentPart, Numbers
<1>4. ReplayPart(stream, Published, last)
  BY <1>2 DEF Feed, FeedInv, ReplayInv, ReplayPart
<1>5. LivePart(stream, Published)
  BY <1>2 DEF Feed, FeedInv, LiveInv, LivePart, AllBefore
<1>6. /\ MaxSeq \in Nat /\ MaxFault \in Nat
      /\ last \in 0 .. MaxSeq /\ Published \in SUBSET (1 .. last)
      /\ rows \subseteq 1 .. last /\ unpublished \subseteq 1 .. last
  BY BoundAssumption DEF Feed, TypeOK, Published
<1>7. cursor \in 0 .. last /\ store.through = cursor
  <2>1. cursor \in 0 .. MaxSeq /\ store.through = cursor /\ cursor <= last
    BY DEF Feed, TypeOK, FeedInv, Numbered
  <2> QED BY <1>6, <2>1
<1>8. Sending(stream) \in Seq(Frame)
  BY <1>1, SendingFacts
<1> QED BY <1>1, <1>2, <1>3, <1>4, <1>5, <1>6, <1>7, <1>8 DEF StreamPart

\* What is left of the invariant when the client does nothing.
LEMMA ServerFeed ==
    ASSUME Feed, UNCHANGED client,
           last' \in last .. MaxSeq, faults' \in 0 .. MaxFault,
           rows' \subseteq 1 .. last', unpublished' \subseteq 1 .. last',
           \A p \in Published' : p \in Published \/ p > last,
           StreamPart(stream', Published', last'),
           stream' = stream \/ (stream.state # "none" /\ stream'.state # "none")
    PROVE  Feed'
<1>1. StreamOK(stream') /\ stream' \in Stream
  BY DEF StreamPart, SentPart, StreamOK
<1>2. last \in Nat /\ last' \in 0 .. MaxSeq /\ last <= last'
  <2>1. last \in 0 .. MaxSeq /\ MaxSeq \in Nat
    BY FeedParts
  <2> QED BY <2>1
<1>3. TypeOK'
  BY <1>1, <1>2 DEF Feed, TypeOK, client, StreamOK
<1>4. Sending(stream') = Underway'
  BY DEF Sending, Underway
<1>5. Numbered'
  <2>1. /\ store.through = cursor /\ cursor \in Nat /\ cursor <= last
        /\ \A w \in Fetcher : fetch[w].through \in Nat /\ fetch[w].through <= last
        /\ store.gap.expected \in Nat
        /\ store.gap.reason = "sequence" => store.gap.expected <= last
    BY DEF Feed, TypeOK, FeedInv, Numbered, Fetch, Gap
  <2>2. /\ cursor <= last' /\ \A w \in Fetcher : fetch[w].through <= last'
        /\ store.gap.reason = "sequence" => store.gap.expected <= last'
    BY <1>2, <2>1
  <2>3. /\ stream'.cursor <= last' /\ stream'.replay \cup stream'.buffer \subseteq 1 .. last'
        /\ \A k \in 1 .. Len(Underway') : Underway'[k].seq <= last'
        /\ ~stream'.blocked => stream'.pending = <<>>
    BY <1>4 DEF StreamPart, SentPart, StreamOK, Numbers
  <2> QED BY <2>1, <2>2, <2>3 DEF Numbered, client
<1>6. Quiet'
  <2>1. stream = NoStream => stream' = stream
    BY DEF NoStream
  <2> QED BY <2>1 DEF Feed, FeedInv, Quiet, client, Resyncing
<1>7. ReplayInv'
  BY <1>4 DEF StreamPart, ReplayPart, ReplayInv, client
<1>8. LiveInv'
  BY <1>4 DEF StreamPart, LivePart, AllBefore, HasBefore, LiveInv, client
<1>9. InSequence(Underway, Published, store)' /\ ResetsFirst(Underway, cursor)'
  BY <1>4 DEF StreamPart, SentPart, client, InSequence, HasBefore, ResetsFirst
<1>10. store'.gap.reason = "sequence" => store'.gap.expected \notin Published'
  <2>1. /\ store.gap.reason = "sequence" => store.gap.expected \notin Published
        /\ store.gap.reason = "sequence" => store.gap.expected <= last
        /\ store.gap.expected \in Nat
    BY DEF Feed, TypeOK, FeedInv, Numbered, Gap
  <2> QED BY <1>2, <2>1 DEF client
<1> QED BY <1>3, <1>5, <1>6, <1>7, <1>8, <1>9, <1>10 DEF Feed, FeedInv

\* More events are stored, or some of them compacted.
LEMMA GrowSent ==
    ASSUME NEW n \in Nat, NEW m \in Nat, n <= m, NEW A, NEW B, NEW s, SentPart(s, A, n),
           \A p \in B : p \in Nat /\ (p \in A \/ p > n)
    PROVE  SentPart(s, B, m)
<1>1. /\ s \in Stream /\ StreamOK(s) /\ s.cursor \in Nat /\ s.cursor <= n
      /\ Sending(s) \in Seq(Frame)
      /\ Numbers(Sending(s), n) /\ s.replay \cup s.buffer \subseteq 1 .. n
      /\ InSequence(Sending(s), A, store) /\ ResetsFirst(Sending(s), cursor)
  BY SentTyped
<1> DEFINE F == Sending(s)
<1> HIDE DEF F
<1>2. \A k \in 1 .. Len(F) : F[k].seq \in Int /\ F[k].seq <= n
  <2>1. F \in Seq(Frame) /\ \A k \in 1 .. Len(F) : F[k].seq <= n
    BY <1>1 DEF F, Numbers
  <2>2. \A k \in 1 .. Len(F) : F[k] \in Frame
    BY <2>1, ElementOfSeq
  <2> QED BY <2>1, <2>2, BoundAssumption DEF Frame
<1>3. Numbers(F, m)
  BY <1>2 DEF Numbers
<1>4. InSequence(F, B, store)
  <2> SUFFICES ASSUME NEW k \in 1 .. Len(F), F[k].kind = "event", NEW p \in B, p < F[k].seq
               PROVE  HasBefore(F, k, p, store)
    BY DEF InSequence
  <2>1. ~(p > n)
    BY <1>2
  <2>2. p \in A
    BY <2>1
  <2> QED BY <1>1, <2>2 DEF InSequence, F
<1>5. s.cursor <= m /\ \A q \in s.replay \cup s.buffer : q \in 1 .. m
  <2>1. \A q \in 1 .. n : q \in 1 .. m
    OBVIOUS
  <2> QED BY <1>1, <2>1
<1> QED BY <1>1, <1>3, <1>4, <1>5 DEF SentPart, F

LEMMA PublishFeed ==
    ASSUME Feed, NEW new \in 1 .. 2, NEW S, S \in {last + 1 .. last + new, {last + 1}},
           Publish(new, S)
    PROVE  Feed'
<1> DEFINE n == last'
           A == Published'
           t == stream'
<1>1. /\ StreamPart(stream, Published, last) /\ stream \in Stream
      /\ MaxSeq \in Nat /\ last \in 0 .. MaxSeq /\ Published \in SUBSET (1 .. last)
      /\ rows \subseteq 1 .. last /\ unpublished \subseteq 1 .. last
      /\ cursor \in 0 .. last /\ store.through = cursor
  BY FeedParts
<1>2. /\ n = last + new /\ n \in 0 .. MaxSeq /\ n \in last .. MaxSeq /\ n \in Nat /\ last < n
      /\ rows' = rows \cup (last + 1 .. n)
      /\ unpublished' = unpublished \cup ((last + 1 .. n) \ S)
      /\ t = ReceivePublished(stream, S)
      /\ UNCHANGED <<client, faults>>
  BY <1>1 DEF Publish
<1> HIDE DEF n, A, t
<1>3. S \subseteq last + 1 .. n /\ S \subseteq 1 .. n /\ \A q \in S : q > last /\ q \in Nat
  <2>1. S \subseteq last + 1 .. n
    BY <1>1, <1>2
  <2> QED BY <1>1, <1>2, <2>1
<1>4. \A q \in 1 .. last : q \in 1 .. n /\ q \in Nat /\ ~(q > last) /\ q \notin last + 1 .. n
  BY <1>1, <1>2
<1>5. rows' \subseteq 1 .. n /\ unpublished' \subseteq 1 .. n
  <2>1. \A q \in last + 1 .. n : q \in 1 .. n
    BY <1>1, <1>2
  <2> QED BY <1>1, <1>2, <1>4, <2>1
<1>6. \A p \in A : p \in Nat /\ (p \in Published \/ (p \in S /\ p > last))
  <2>1. A = rows' \ unpublished'
    BY DEF A, Published
  <2>2. ASSUME NEW p \in A PROVE p \in Nat /\ (p \in Published \/ (p \in S /\ p > last))
    <3>1. CASE p \in rows
      BY <1>1, <1>2, <1>4, <2>1, <3>1 DEF Published
    <3>2. CASE p \in last + 1 .. n
      BY <1>2, <1>3, <2>1, <3>2
    <3> QED BY <1>2, <2>1, <3>1, <3>2
  <2> QED BY <2>2
<1>7. A \in SUBSET (1 .. n) /\ S \in SUBSET (1 .. n)
  BY <1>3, <1>5 DEF A, Published
<1>8. SentPart(stream, Published, last) /\ last \in Nat
  BY <1>1 DEF StreamPart
<1>9. SentPart(stream, A, n)
  <2>1. \A p \in A : p \in Nat /\ (p \in Published \/ p > last)
    BY <1>6
  <2>2. last <= n
    BY <1>2, <1>8
  <2> QED BY <1>2, <1>8, <2>1, <2>2, GrowSent
<1>10. /\ Cardinality(stream.buffer \cup S) \in Nat /\ BufferLimit \in Nat
       /\ ~(/\ Cardinality(stream.buffer \cup S) <= BufferLimit
            /\ Cardinality(stream.buffer \cup S) > BufferLimit)
  <2>1. IsFiniteSet(1 .. n)
    BY <1>2, FS_Interval
  <2>2. stream.buffer \cup S \in SUBSET (1 .. n)
    BY <1>7, <1>9 DEF SentPart
  <2>3. Cardinality(stream.buffer \cup S) \in Nat
    BY <2>1, <2>2, FS_Subset, FS_CardinalityType
  <2>4. BufferLimit \in Nat
    BY LimitAssumption
  <2> DEFINE c == Cardinality(stream.buffer \cup S)
  <2> HIDE DEF c
  <2>5. c \in Nat
    BY <2>3 DEF c
  <2>6. ~(c <= BufferLimit /\ c > BufferLimit)
    BY <2>4, <2>5
  <2> QED BY <2>3, <2>4, <2>6 DEF c
<1>11. StreamPart(t, A, n) /\ (t = stream \/ (stream.state # "none" /\ t.state # "none"))
  <2>1. CASE stream.state = "live"
    <3>1. t = Emit(stream, S)
      BY <1>2, <2>1 DEF ReceivePublished
    <3>2. \A p \in Published : HasBefore(Sending(stream), Len(Sending(stream)) + 1, p, store)
                               /\ p <= stream.cursor
      BY <1>1, <2>1 DEF StreamPart, LivePart, AllBefore
    <3>3. stream.cursor \in Nat /\ stream.cursor <= last
      BY <1>8, SentTyped
    <3>4. \A q \in S : q > stream.cursor
      BY <1>3, <1>8, <3>3
    <3>5. \A p \in A : p \in Unsent(stream, S)
                       \/ HasBefore(Sending(stream), Len(Sending(stream)) + 1, p, store)
      BY <1>6, <3>2, <3>4 DEF Unsent
    <3>6. /\ SentPart(t, A, n)
          /\ \/ t.state = "ended"
             \/ /\ t.state = "live" /\ AllBefore(Sending(t), A)
                /\ stream.cursor <= t.cursor /\ \A q \in S : q <= t.cursor
      <4> DEFINE e == Emit(stream, S)
      <4>1. /\ SentPart(e, A, n)
            /\ \/ e.state = "ended"
               \/ /\ e.state = stream.state /\ e.buffer = stream.buffer
                  /\ AllBefore(Sending(e), A)
                  /\ stream.cursor <= e.cursor /\ \A q \in S : q <= e.cursor
        BY <1>1, <1>2, <1>7, <1>9, <3>5, EmitPart
      <4> HIDE DEF e
      <4>2. t = e
        BY <3>1 DEF e
      <4> QED BY <2>1, <4>1, <4>2
    <3>7. t.cursor \in Nat
      BY <3>6, SentTyped
    <3>8. t.state = "live" => \A p \in A : p <= t.cursor
      <4> SUFFICES ASSUME stream.cursor <= t.cursor, \A q \in S : q <= t.cursor, NEW p \in A
                   PROVE  p <= t.cursor
        BY <3>6
      <4> QED BY <1>6, <3>2, <3>3, <3>7
    <3> QED BY <2>1, <3>6, <3>8 DEF StreamPart, ReplayPart, LivePart
  <2>2. CASE stream.state = "replaying" /\ Cardinality(stream.buffer \cup S) <= BufferLimit
    <3>1. t = [stream EXCEPT !.buffer = @ \cup S]
      BY <1>2, <1>10, <2>2 DEF ReceivePublished
    <3>2. stream.buffer \cup S \in SUBSET Seqs
      <4>1. \A q \in 1 .. n : q \in Seqs
        BY <1>1, <1>2 DEF Seqs
      <4> QED BY <1>1, <1>7, <4>1 DEF Stream
    <3>3. /\ t \in Stream /\ t.wire = stream.wire /\ t.pending = stream.pending
          /\ t.blocked = stream.blocked /\ t.buffer = stream.buffer \cup S /\ t.replay = stream.replay
          /\ t.cursor = stream.cursor /\ t.state = "replaying" /\ t.reset = stream.reset
      BY <1>1, <2>2, <3>1, <3>2 DEF Stream
    <3>4. SentPart(t, A, n)
      <4>1. t.cursor <= n /\ t.replay \cup t.buffer \subseteq 1 .. n
        BY <1>7, <1>9, <3>3 DEF SentPart
      <4> QED BY <1>9, <2>2, <3>3, <4>1, SameSent
    <3>5. Sending(t) = Sending(stream)
      BY <3>3 DEF Sending
    <3>6. ReplayPart(t, A, n)
      <4>1. ReplayPart(stream, Published, last)
        BY <1>1 DEF StreamPart
      <4>2. \A m \in cursor .. last : m \in cursor .. n
        BY <1>1, <1>2
      <4>3. stream.reset => \E m \in cursor .. n : stream.replay = {m}
        BY <2>2, <4>1, <4>2 DEF ReplayPart
      <4>4. ASSUME NEW p \in A
            PROVE  \/ p <= cursor
                   \/ p \in t.buffer
                   \/ p \in t.replay
                   \/ t.reset /\ \A m \in t.replay : p <= m
        BY <1>6, <2>2, <3>3, <4>1 DEF ReplayPart
      <4> QED BY <2>2, <3>3, <3>5, <4>1, <4>3, <4>4 DEF ReplayPart
    <3> QED BY <2>2, <3>3, <3>4, <3>6 DEF StreamPart, LivePart
  <2>3. CASE stream.state = "replaying" /\ Cardinality(stream.buffer \cup S) > BufferLimit
    <3>1. t = Terminate(stream)
      BY <1>2, <1>10, <2>3 DEF ReceivePublished
    <3>2. /\ StreamOK(t) /\ Within(Sending(t), Sending(stream))
          /\ t = [stream EXCEPT !.state = "ended", !.pending = <<>>, !.buffer = {},
                                !.blocked = FALSE, !.wire = t.wire]
      BY <1>1, <3>1, TerminateFacts
    <3>3. /\ t.state = "ended" /\ t.buffer = {} /\ t.replay = stream.replay /\ t.cursor = stream.cursor
      BY <1>1, <3>2 DEF Stream
    <3>4. SentPart(t, A, n)
      <4>1. Sending(t) \in Seq(Frame) /\ Sending(stream) \in Seq(Frame)
        BY <1>1, <3>2, SendingFacts DEF StreamOK
      <4>2. /\ InSequence(Sending(t), A, store) /\ ResetsFirst(Sending(t), cursor)
            /\ \A k \in 1 .. Len(Sending(t)) : Sending(t)[k].seq <= n
        BY <1>2, <1>9, <3>2, <4>1, WithinFacts DEF SentPart, Numbers
      <4> QED BY <1>9, <3>2, <3>3, <4>2 DEF SentPart, Numbers
    <3> QED BY <2>3, <3>3, <3>4 DEF StreamPart, ReplayPart, LivePart
  <2>4. CASE stream.state \notin {"live", "replaying"}
    <3>1. t = stream
      BY <1>2, <2>4 DEF ReceivePublished
    <3>2. ReplayPart(stream, A, n)
      BY <1>1, <2>4 DEF StreamPart, ReplayPart
    <3> QED BY <1>9, <2>4, <3>1, <3>2 DEF StreamPart, LivePart
  <2> QED
    <3>1. Cardinality(stream.buffer \cup S) <= BufferLimit \/ Cardinality(stream.buffer \cup S) > BufferLimit
      <4> DEFINE c == Cardinality(stream.buffer \cup S)
      <4> HIDE DEF c
      <4>1. c \in Nat /\ BufferLimit \in Nat
        BY <1>10 DEF c
      <4>2. c <= BufferLimit \/ c > BufferLimit
        BY <4>1
      <4> QED BY <4>2 DEF c
    <3> QED BY <2>1, <2>2, <2>3, <2>4, <3>1
<1>12. UNCHANGED client /\ faults' \in 0 .. MaxFault
  BY <1>2 DEF Feed, TypeOK
<1> QED BY <1>2, <1>5, <1>6, <1>11, <1>12, ServerFeed DEF n, A, t

\* A step that changes the stream alone.
LEMMA StreamFeed ==
    ASSUME Feed, UNCHANGED <<events, client>>, faults' \in 0 .. MaxFault,
           stream.state # "none", stream'.state # "none",
           StreamPart(stream', Published, last)
    PROVE  Feed'
<1>1. /\ last \in 0 .. MaxSeq /\ MaxSeq \in Nat
      /\ rows \subseteq 1 .. last /\ unpublished \subseteq 1 .. last
  BY FeedParts
<1>2. last' = last /\ rows' = rows /\ unpublished' = unpublished /\ UNCHANGED client
  BY DEF events
<1>3. last' \in last .. MaxSeq /\ rows' \subseteq 1 .. last' /\ unpublished' \subseteq 1 .. last'
  BY <1>1, <1>2
<1>4. Published' = Published
  BY <1>2 DEF Published
<1> QED BY <1>2, <1>3, <1>4, ServerFeed

LEMMA CompactFeed ==
    ASSUME Feed, Compact
    PROVE  Feed'
<1>1. /\ StreamPart(stream, Published, last)
      /\ last \in 0 .. MaxSeq /\ MaxSeq \in Nat /\ MaxFault \in Nat
      /\ rows \subseteq 1 .. last /\ unpublished \subseteq 1 .. last
      /\ Published \in SUBSET (1 .. last)
  BY FeedParts
<1>2. /\ rows' \subseteq rows /\ faults < MaxFault /\ faults' = faults + 1
      /\ UNCHANGED <<last, unpublished, stream, client>>
  BY DEF Compact, Faulty
<1>3. faults \in 0 .. MaxFault
  BY DEF Feed, TypeOK
<1>4. faults' \in 0 .. MaxFault
  BY <1>1, <1>2, <1>3
<1>5. Published' \subseteq Published
  BY <1>2 DEF Published
<1>6. SentPart(stream, Published', last)
  <2>1. SentPart(stream, Published, last) /\ last \in Nat /\ last <= last
    BY <1>1 DEF StreamPart
  <2>2. \A p \in Published' : p \in Nat /\ (p \in Published \/ p > last)
    BY <1>1, <1>5
  <2> QED BY <2>1, <2>2, GrowSent
<1>7. StreamPart(stream, Published', last)
  <2>1. ReplayPart(stream, Published', last)
    BY <1>1, <1>5 DEF StreamPart, ReplayPart
  <2>2. LivePart(stream, Published')
    BY <1>1, <1>5 DEF StreamPart, LivePart, AllBefore
  <2> QED BY <1>6, <2>1, <2>2 DEF StreamPart
<1>8. last' \in last .. MaxSeq /\ rows' \subseteq 1 .. last' /\ unpublished' \subseteq 1 .. last'
  BY <1>1, <1>2
<1> QED BY <1>2, <1>4, <1>5, <1>7, <1>8, ServerFeed

LEMMA AcceptFeed ==
    ASSUME Feed, Accept
    PROVE  Feed'
<1> DEFINE stored == After(stream.cursor)
           gap == (last > 0 /\ stream.cursor < Retained - 1) \/ ~Contiguous(stream.cursor, stored)
           replay == IF gap THEN {last} ELSE stored
           t == stream'
<1>1. /\ SentPart(stream, Published, last) /\ stream \in Stream /\ stream.cursor = cursor
      /\ stream.buffer = {}
      /\ MaxSeq \in Nat /\ last \in 0 .. MaxSeq /\ Published \in SUBSET (1 .. last)
      /\ rows \subseteq 1 .. last /\ cursor \in 0 .. last
      /\ \A k \in 1 .. Len(Sending(stream)) : Sending(stream)[k] = Open
      /\ stream.state = "connecting"
      /\ t = [stream EXCEPT !.state = "replaying", !.reset = gap, !.replay = replay, !.wire = <<Open>>]
      /\ UNCHANGED <<events, client, faults>>
  BY FeedParts DEF Accept, StreamPart, ReplayPart
<1>2. /\ replay \subseteq 1 .. last
      /\ gap => replay = {last}
      /\ ~gap => replay = stored
  <2>1. stored \subseteq 1 .. last
    BY <1>1 DEF After
  <2>2. CASE last = 0
    <3>1. stored = {} /\ cursor = 0
      <4>1. \A q \in 1 .. last : FALSE
        BY <2>2
      <4> QED BY <1>1, <2>1, <2>2, <4>1
    <3>2. Contiguous(stream.cursor, stored)
      BY <1>1, <3>1, FS_EmptySet DEF Contiguous
    <3>3. ~gap
      BY <2>2, <3>2
    <3> QED BY <2>1, <3>3
  <2>3. CASE last # 0
    BY <1>1, <2>1, <2>3
  <2> QED BY <2>2, <2>3
<1>3. gap \in BOOLEAN
  OBVIOUS
<1> DEFINE r == replay
           g == gap
<1>4. /\ r \subseteq 1 .. last /\ g \in BOOLEAN
      /\ g => r = {last}
      /\ ~g => r = stored
      /\ t = [stream EXCEPT !.state = "replaying", !.reset = g, !.replay = r, !.wire = <<Open>>]
  BY <1>1, <1>2, <1>3
<1> HIDE DEF t, r, g
<1>5. r \in SUBSET Seqs
  <2>1. \A q \in 1 .. last : q \in Seqs
    BY <1>1 DEF Seqs
  <2> QED BY <1>4, <2>1
<1>6. <<Open>> \in Seq(Frame) /\ Len(<<Open>>) = 1 /\ <<Open>>[1] = Open
  <2> DEFINE o == Open
  <2>1. o \in Frame
    BY <1>1, FrameFacts
  <2> HIDE DEF o
  <2>2. <<o>> \in Seq(Frame) /\ Len(<<o>>) = 1 /\ <<o>>[1] = o
    BY <2>1
  <2> QED BY <2>2 DEF o
<1>7. /\ t \in Stream /\ t.state = "replaying" /\ t.reset = g /\ t.replay = r /\ t.wire = <<Open>>
      /\ t.pending = stream.pending /\ t.blocked = stream.blocked /\ t.buffer = {}
      /\ t.cursor = cursor
  <2> DEFINE w == <<Open>>
  <2>1. w \in Seq(Frame)
    BY <1>6
  <2> HIDE DEF w
  <2>2. t = [stream EXCEPT !.state = "replaying", !.reset = g, !.replay = r, !.wire = w]
    BY <1>4 DEF w
  <2>3. /\ t \in Stream /\ t.state = "replaying" /\ t.reset = g /\ t.replay = r /\ t.wire = w
        /\ t.pending = stream.pending /\ t.blocked = stream.blocked /\ t.buffer = {}
        /\ t.cursor = cursor
    BY <1>1, <1>4, <1>5, <2>1, <2>2 DEF Stream
  <2> QED BY <2>3 DEF w
<1>8. StreamOK(t)
  BY <1>1, <1>7 DEF StreamOK, SentPart
<1>9. \A k \in 1 .. Len(Sending(t)) : Sending(t)[k] = Open
  <2> DEFINE w == <<Open>>
             p == stream.pending
             v == stream.wire
  <2>1. w \in Seq(Frame) /\ Len(w) = 1 /\ w[1] = Open /\ p \in Seq(Frame) /\ v \in Seq(Frame)
    BY <1>1, <1>6 DEF Stream
  <2> HIDE DEF w, p, v
  <2>2. /\ Len(w \o p) = 1 + Len(p) /\ Len(p) \in Nat
        /\ \A k \in 1 .. 1 + Len(p) : (w \o p)[k] = IF k <= 1 THEN w[k] ELSE p[k - 1]
    <3>1. w \in Seq(Frame) /\ p \in Seq(Frame) /\ Len(w) = 1
      BY <2>1
    <3>2. /\ Len(w \o p) = Len(w) + Len(p) /\ Len(p) \in Nat
          /\ \A k \in 1 .. Len(w) + Len(p) :
               (w \o p)[k] = IF k <= Len(w) THEN w[k] ELSE p[k - Len(w)]
      BY <3>1, ConcatProperties, LenProperties
    <3> QED BY <3>1, <3>2
  <2>3. /\ Len(v \o p) = Len(v) + Len(p) /\ Len(v) \in Nat
        /\ \A k \in 1 .. Len(v) + Len(p) : (v \o p)[k] = IF k <= Len(v) THEN v[k] ELSE p[k - Len(v)]
    BY <2>1, ConcatProperties, LenProperties
  <2>4. \A k \in 1 .. Len(v \o p) : (v \o p)[k] = Open
    BY <1>1 DEF Sending, v, p
  <2>5. ASSUME NEW k \in 1 .. Len(p) PROVE p[k] = Open
    <3>1. Len(v) + k \in 1 .. Len(v) + Len(p) /\ ~(Len(v) + k <= Len(v)) /\ Len(v) + k - Len(v) = k
      BY <2>2, <2>3
    <3> QED BY <2>3, <2>4, <3>1
  <2>6. ASSUME NEW k \in 1 .. Len(w \o p) PROVE (w \o p)[k] = Open
    <3>1. k = 1 \/ (k - 1 \in 1 .. Len(p) /\ ~(k <= 1))
      BY <2>2
    <3> QED BY <2>1, <2>2, <2>5, <3>1
  <2> QED BY <1>7, <2>6 DEF Sending, w, p
<1>10. SentPart(t, Published, last)
  <2>1. /\ Numbers(Sending(t), last)
    BY <1>1, <1>9, FrameFacts DEF Numbers
  <2>2. InSequence(Sending(t), Published, store) /\ ResetsFirst(Sending(t), cursor)
    BY <1>9, FrameFacts DEF InSequence, ResetsFirst
  <2> QED BY <1>1, <1>4, <1>7, <1>8, <2>1, <2>2 DEF SentPart
<1>11. ReplayPart(t, Published, last)
  <2>1. g => \E m \in cursor .. last : t.replay = {m}
    BY <1>1, <1>4, <1>7
  <2>2. ASSUME NEW p \in Published
        PROVE  \/ p <= cursor
               \/ p \in t.replay
               \/ t.reset /\ \A m \in t.replay : p <= m
    <3>1. p \in Nat /\ p <= last /\ p \in rows
      BY <1>1 DEF Published
    <3>2. CASE g
      BY <1>4, <1>7, <3>1, <3>2
    <3>3. CASE ~g
      BY <1>1, <1>4, <1>7, <3>1, <3>3 DEF After
    <3> QED BY <3>2, <3>3
  <2> QED BY <1>7, <1>9, <2>1, <2>2 DEF ReplayPart
<1>12. StreamPart(t, Published, last)
  BY <1>7, <1>10, <1>11 DEF StreamPart, LivePart
<1>13. UNCHANGED <<events, client>> /\ faults' \in 0 .. MaxFault
  BY <1>1 DEF Feed, TypeOK
<1> QED BY <1>1, <1>7, <1>12, <1>13, StreamFeed DEF t

LEMMA FinishFeed ==
    ASSUME Feed, FinishReplay
    PROVE  Feed'
<1>1. /\ StreamPart(stream, Published, last)
      /\ MaxSeq \in Nat /\ last \in 0 .. MaxSeq /\ Published \in SUBSET (1 .. last)
      /\ cursor \in 0 .. last /\ store.through = cursor
      /\ stream.state = "replaying" /\ stream' = Finished(stream)
      /\ UNCHANGED <<events, client>> /\ faults' \in 0 .. MaxFault
  BY FeedParts DEF FinishReplay, Feed, TypeOK
<1>2. StreamPart(stream', Published, last) /\ stream'.state \in {"ended", "live"}
  BY <1>1, FinishedPart
<1> QED BY <1>1, <1>2, StreamFeed

\* A drained socket takes what waits, and loses none of it.
LEMMA DrainFacts ==
    ASSUME NEW s, StreamOK(s), Len(s.wire) < SocketLimit, NEW t,
           LET some == Min({Len(s.pending), SocketLimit - Len(s.wire)})
           IN  t = [s EXCEPT !.wire = @ \o SubSeq(s.pending, 1, some),
                             !.pending = SubSeq(@, some + 1, Len(@)),
                             !.blocked = Len(s.wire) + some >= SocketLimit]
    PROVE  /\ StreamOK(t) /\ Sending(t) = Sending(s)
           /\ t.state = s.state /\ t.cursor = s.cursor /\ t.reset = s.reset
           /\ t.replay = s.replay /\ t.buffer = s.buffer
<1> DEFINE p == s.pending
           w == s.wire
           n == Min({Len(p), SocketLimit - Len(w)})
           first == SubSeq(p, 1, n)
           rest == SubSeq(p, n + 1, Len(p))
           full == Len(w) + n >= SocketLimit
<1>1. /\ s \in Stream /\ p \in Seq(Frame) /\ w \in Seq(Frame) /\ Len(p) \in Nat /\ Len(w) \in Nat
      /\ Len(p) <= FrameLimit /\ FrameLimit \in Nat /\ SocketLimit \in Nat /\ Len(w) < SocketLimit
      /\ t = [s EXCEPT !.wire = w \o first, !.pending = rest, !.blocked = full]
  BY SendingFacts, LimitAssumption DEF StreamOK
<1> HIDE DEF p, w
<1>2. n \in 0 .. Len(p) /\ (~full => n = Len(p))
  <2> DEFINE a == Len(p)
             b == Len(w)
  <2>1. a \in Nat /\ b \in Nat /\ SocketLimit \in Nat /\ b < SocketLimit
    BY <1>1
  <2> HIDE DEF a, b
  <2>2. a \in Int /\ SocketLimit - b \in Int
    BY <2>1
  <2>3. Min({a, SocketLimit - b}) = IF a <= SocketLimit - b THEN a ELSE SocketLimit - b
    BY <2>2, OfTwo
  <2>4. Min({a, SocketLimit - b}) \in 0 .. a
        /\ (~(b + Min({a, SocketLimit - b}) >= SocketLimit) => Min({a, SocketLimit - b}) = a)
    BY <2>1, <2>3
  <2> QED BY <2>4 DEF a, b
<1> HIDE DEF n
<1>3. full \in BOOLEAN
  OBVIOUS
<1> HIDE DEF full
<1>4. \A i \in 1 .. Len(p) : p[i] \in Frame
  BY <1>1, ElementOfSeq
<1>5. first \in Seq(Frame) /\ rest \in Seq(Frame) /\ Len(rest) = Len(p) - n
  <2>1. 1 \in Int /\ n \in Int /\ n + 1 \in Int /\ Len(p) \in Int /\ n <= Len(p) /\ 0 <= n
    BY <1>1, <1>2
  <2>2. (\A i \in 1 .. n : p[i] \in Frame) /\ (\A i \in n + 1 .. Len(p) : p[i] \in Frame)
    BY <1>4, <2>1
  <2>3. first \in Seq(Frame)
    BY <2>1, <2>2, SubSeqProperties
  <2>4. rest \in Seq(Frame) /\ Len(rest) = IF n + 1 <= Len(p) THEN Len(p) - (n + 1) + 1 ELSE 0
    BY <2>1, <2>2, SubSeqProperties
  <2>5. (IF n + 1 <= Len(p) THEN Len(p) - (n + 1) + 1 ELSE 0) = Len(p) - n
    BY <2>1
  <2> QED BY <2>3, <2>4, <2>5
<1>6. first \o rest = p
  <2>1. 1 \in 1 .. Len(p) + 1 /\ n \in 1 - 1 .. Len(p) /\ Len(p) \in n .. Len(p)
    BY <1>1, <1>2
  <2>2. first \o rest = SubSeq(p, 1, Len(p))
    BY <1>1, <2>1, ConcatAdjacentSubSeq
  <2> QED BY <1>1, <2>2, SubSeqFull
<1>7. ~full => rest = <<>>
  <2> SUFFICES ASSUME ~full PROVE rest = <<>>
    OBVIOUS
  <2>1. n + 1 \in Int /\ Len(p) \in Int /\ Len(p) < n + 1
    BY <1>1, <1>2
  <2> QED BY <2>1, SubSeqEmpty
<1> HIDE DEF first, rest
<1>8. w \o first \in Seq(Frame) /\ (w \o first) \o rest = w \o (first \o rest)
  <2>1. w \in Seq(Frame) /\ first \in Seq(Frame) /\ rest \in Seq(Frame)
    BY <1>1, <1>5
  <2> QED BY <2>1, ConcatProperties, ConcatAssociative
<1>9. /\ t \in Stream /\ t.wire = w \o first /\ t.pending = rest /\ t.blocked = full
      /\ t.state = s.state /\ t.cursor = s.cursor /\ t.reset = s.reset
      /\ t.replay = s.replay /\ t.buffer = s.buffer
  BY <1>1, <1>3, <1>5, <1>8 DEF Stream
<1>10. Len(t.pending) <= FrameLimit
  <2> DEFINE a == Len(p)
             b == Len(rest)
  <2>1. a \in Nat /\ FrameLimit \in Nat /\ a <= FrameLimit /\ n \in 0 .. a /\ b = a - n
    BY <1>1, <1>2, <1>5
  <2> HIDE DEF a, b
  <2>2. b <= FrameLimit
    BY <2>1
  <2> QED BY <1>9, <2>2 DEF b
<1>11. StreamOK(t)
  BY <1>7, <1>9, <1>10 DEF StreamOK
<1>12. Sending(t) = Sending(s)
  BY <1>6, <1>8, <1>9 DEF Sending, w, p
<1> QED BY <1>9, <1>11, <1>12

LEMMA DrainFeed ==
    ASSUME Feed, Drain
    PROVE  Feed'
<1>1. /\ StreamPart(stream, Published, last) /\ StreamOK(stream)
      /\ UNCHANGED <<events, client>> /\ faults' \in 0 .. MaxFault
  BY FeedParts DEF Drain, Feed, TypeOK, StreamPart, SentPart
<1>2. stream.state # "none"
  BY DEF Drain, Feed, FeedInv, Quiet, NoStream
<1>3. /\ StreamOK(stream') /\ Sending(stream') = Sending(stream)
      /\ stream'.state = stream.state /\ stream'.cursor = stream.cursor /\ stream'.reset = stream.reset
      /\ stream'.replay = stream.replay /\ stream'.buffer = stream.buffer
  BY <1>1, DrainFacts DEF Drain
<1>4. StreamPart(stream', Published, last)
  BY <1>1, <1>3 DEF StreamPart, SentPart, ReplayPart, LivePart
<1> QED BY <1>1, <1>2, <1>3, <1>4, StreamFeed

\* A lost connection: what still arrives is the beginning of what was under way.
LEMMA BreakFacts ==
    ASSUME Feed, Break
    PROVE  /\ StreamOK(stream') /\ Within(Sending(stream'), Sending(stream))
           /\ stream'.state = "ended" /\ stream'.cursor = 0
           /\ stream'.buffer = {} /\ stream'.replay = {}
<1>1. SentPart(stream, Published, last) /\ stream \in Stream /\ MaxSeq \in Nat
  BY FeedParts DEF StreamPart
<1>2. PICK k \in 0 .. Len(stream.wire) :
         stream' = [NoStream EXCEPT !.state = "ended", !.wire = SubSeq(stream.wire, 1, k)]
  BY DEF Break
<1> DEFINE w == SubSeq(stream.wire, 1, k)
           t == stream'
           v == stream.wire
<1>4. /\ w \in Seq(Frame) /\ Len(w) = k /\ \A j \in 1 .. k : w[j] = v[j]
      /\ v \in Seq(Frame) /\ k \in 0 .. Len(v) /\ Len(v) \in Nat
  <2>1. v \in Seq(Frame) /\ Len(v) \in Nat
    BY <1>1, SendingFacts
  <2> HIDE DEF v
  <2>2. \A i \in 1 .. Len(v) : v[i] \in Frame
    BY <2>1, ElementOfSeq
  <2>3. 1 \in Int /\ k \in Int /\ k \in 0 .. Len(v) /\ k >= 0 /\ k <= Len(v)
    BY <2>1 DEF v
  <2>4. \A i \in 1 .. k : v[i] \in Frame
    BY <2>1, <2>2, <2>3
  <2>5. /\ SubSeq(v, 1, k) \in Seq(Frame)
        /\ Len(SubSeq(v, 1, k)) = IF 1 <= k THEN k - 1 + 1 ELSE 0
        /\ \A i \in 1 .. k - 1 + 1 : SubSeq(v, 1, k)[i] = v[1 + i - 1]
    BY <2>3, <2>4, SubSeqProperties
  <2>6. /\ (IF 1 <= k THEN k - 1 + 1 ELSE 0) = k /\ k - 1 + 1 = k
        /\ \A i \in 1 .. k : 1 + i - 1 = i
    BY <2>3
  <2> QED BY <2>1, <2>3, <2>5, <2>6 DEF v
<1> HIDE DEF w, t, v
<1>5. t = [NoStream EXCEPT !.state = "ended", !.wire = w]
  BY <1>2 DEF w, t
<1>6. <<>> \in Seq(Frame) /\ Len(<<>>) = 0 /\ Cardinality({}) = 0
  BY EmptySeq, FS_EmptySet
<1>7. /\ t \in Stream /\ t.state = "ended" /\ t.wire = w /\ t.pending = <<>> /\ t.buffer = {}
      /\ t.cursor = 0 /\ t.replay = {} /\ t.blocked = FALSE
  <2>1. 0 \in 0 .. MaxSeq /\ w \in Seq(Frame)
    BY <1>1, <1>4
  <2>2. t = [state |-> "ended", cursor |-> 0, reset |-> FALSE, replay |-> {}, buffer |-> {},
             pending |-> <<>>, blocked |-> FALSE, wire |-> w]
    BY <1>5 DEF NoStream
  <2>3. t \in Stream
    BY <1>6, <2>1, <2>2 DEF Stream
  <2> QED BY <2>2, <2>3
<1>8. StreamOK(t)
  BY <1>6, <1>7, LimitAssumption DEF StreamOK
<1>9. Sending(t) = w
  BY <1>4, <1>7, ConcatEmptySeq DEF Sending
<1>10. Within(w, Sending(stream))
  <2> DEFINE F == Sending(stream)
  <2>1. /\ Len(F) = Len(v) + Len(stream.pending) /\ Len(stream.pending) \in Nat
        /\ \A j \in 1 .. Len(v) : F[j] = v[j]
    BY <1>1, SendingFacts DEF v
  <2> DEFINE b == Len(stream.pending)
  <2> HIDE DEF F, b
  <2>2. Len(F) = Len(v) + b /\ b \in Nat
    BY <2>1 DEF b
  <2>3. ASSUME NEW i \in 1 .. Len(w)
        PROVE  i <= Len(F) /\ \A j \in 1 .. i : w[j] = F[j]
    BY <1>4, <2>1, <2>2
  <2> QED BY <2>3 DEF Within, F
<1> QED BY <1>7, <1>8, <1>9, <1>10 DEF t

LEMMA BreakFeed ==
    ASSUME Feed, Break
    PROVE  Feed'
<1>1. /\ SentPart(stream, Published, last) /\ stream \in Stream /\ last \in Nat
      /\ UNCHANGED <<events, client>> /\ faults < MaxFault /\ faults' = faults + 1
      /\ stream.state # "none" /\ MaxFault \in Nat
  <2>1. last \in 0 .. MaxSeq /\ MaxSeq \in Nat /\ MaxFault \in Nat
        /\ StreamPart(stream, Published, last) /\ stream \in Stream
    BY FeedParts
  <2> QED BY <2>1 DEF Break, Faulty, StreamPart
<1>2. faults' \in 0 .. MaxFault
  <2>1. faults \in 0 .. MaxFault
    BY DEF Feed, TypeOK
  <2> QED BY <1>1, <2>1
<1> DEFINE t == stream'
<1>3. /\ StreamOK(t) /\ Within(Sending(t), Sending(stream))
      /\ t.state = "ended" /\ t.cursor = 0 /\ t.buffer = {} /\ t.replay = {}
  BY BreakFacts
<1> HIDE DEF t
<1>4. SentPart(t, Published, last)
  <2>1. Sending(stream) \in Seq(Frame) /\ Sending(t) \in Seq(Frame)
    BY <1>1, <1>3, SendingFacts DEF StreamOK
  <2>2. /\ InSequence(Sending(t), Published, store) /\ ResetsFirst(Sending(t), cursor)
        /\ \A i \in 1 .. Len(Sending(t)) : Sending(t)[i].seq <= last
    BY <1>1, <1>3, <2>1, WithinFacts DEF SentPart, Numbers
  <2> QED BY <1>1, <1>3, <2>2 DEF SentPart, Numbers
<1>5. StreamPart(t, Published, last)
  BY <1>3, <1>4 DEF StreamPart, ReplayPart, LivePart
<1> QED BY <1>1, <1>2, <1>3, <1>5, StreamFeed DEF t
-----------------------------------------------------------------------------
(* Steps of the client, and the feed.                                      *)

LEMMA ClientTyped ==
    ASSUME Feed
    PROVE  /\ visible \in BOOLEAN /\ started \in BOOLEAN /\ timer \in {"none", "reopen", "resync"}
           /\ fetch \in [Fetcher -> Fetch] /\ Fetcher = {"start", "resync"}
           /\ \A w \in Fetcher : fetch[w] \in Fetch /\ fetch[w].through \in 0 .. last
           /\ store \in [through : 0 .. MaxSeq, gap : Gap] /\ store.gap \in Gap
           /\ store.gap.reason = "sequence" =>
                store.gap.expected <= last /\ store.gap.expected \notin Published
           /\ faults \in 0 .. MaxFault
<1>1. ASSUME NEW w \in Fetcher PROVE fetch[w] \in Fetch /\ fetch[w].through \in 0 .. last
  <2>1. fetch[w] \in Fetch /\ fetch[w].through <= last
    BY DEF Feed, TypeOK, FeedInv, Numbered
  <2>2. fetch[w].through \in Nat /\ last \in Nat
    BY <2>1, FeedParts DEF Fetch
  <2> QED BY <2>1, <2>2
<1>2. /\ visible \in BOOLEAN /\ started \in BOOLEAN /\ timer \in {"none", "reopen", "resync"}
      /\ fetch \in [Fetcher -> Fetch]
      /\ store \in [through : 0 .. MaxSeq, gap : Gap]
      /\ faults \in 0 .. MaxFault
      /\ store.gap.reason = "sequence" =>
           store.gap.expected <= last /\ store.gap.expected \notin Published
  BY DEF Feed, TypeOK, FeedInv, Numbered
<1> QED BY <1>1, <1>2 DEF Fetcher

\* The client's stream is as it was, and so is its projection.
LEMMA SameFeed ==
    ASSUME Feed, UNCHANGED <<events, stream, cursor, store>>, faults' \in 0 .. MaxFault,
           visible' \in BOOLEAN, started' \in BOOLEAN, timer' \in {"none", "reopen", "resync"},
           fetch' \in [Fetcher -> Fetch], \A w \in Fetcher : fetch'[w].through <= last,
           Quiet'
    PROVE  Feed'
<1>1. TypeOK'
  BY DEF Feed, TypeOK, events
<1>2. Numbered'
  BY DEF Feed, FeedInv, Numbered, events, Underway
<1>3. ReplayInv' /\ LiveInv'
  BY DEF Feed, FeedInv, ReplayInv, LiveInv, HasBefore, Published, events, Underway
<1>4. InSequence(Underway, Published, store)' /\ ResetsFirst(Underway, cursor)'
  <2>1. Underway' = Underway /\ Published' = Published /\ store' = store /\ cursor' = cursor
    BY DEF Published, events, Underway
  <2>2. InSequence(Underway, Published, store) /\ ResetsFirst(Underway, cursor)
    BY DEF Feed, FeedInv
  <2> QED BY <2>1, <2>2 DEF InSequence, HasBefore, ResetsFirst
<1>5. store'.gap.reason = "sequence" => store'.gap.expected \notin Published'
  BY DEF Feed, FeedInv, Published, events
<1> QED BY <1>1, <1>2, <1>3, <1>4, <1>5 DEF Feed, FeedInv

\* The client has no stream, or a new one from its cursor.
Connecting(from) == [NoStream EXCEPT !.state = "connecting", !.cursor = from]

LEMMA FreshFeed ==
    ASSUME Feed, UNCHANGED events, faults' \in 0 .. MaxFault,
           stream' = NoStream \/ stream' = Connecting(cursor'),
           cursor' \in 0 .. last, store' \in [through : 0 .. MaxSeq, gap : Gap],
           store'.through = cursor',
           store'.gap.reason = "sequence" =>
             store'.gap.expected <= last /\ store'.gap.expected \notin Published,
           visible' \in BOOLEAN, started' \in BOOLEAN, timer' \in {"none", "reopen", "resync"},
           fetch' \in [Fetcher -> Fetch], \A w \in Fetcher : fetch'[w].through <= last,
           Quiet'
    PROVE  Feed'
<1>1. last \in 0 .. MaxSeq /\ MaxSeq \in Nat
  BY FeedParts
<1>2. cursor' \in 0 .. MaxSeq /\ cursor' \in Nat /\ cursor' <= last /\ 0 <= last
  BY <1>1
<1>3. <<>> \in Seq(Frame) /\ Len(<<>>) = 0 /\ <<>> \o <<>> = <<>> /\ Cardinality({}) = 0
  BY EmptySeq, ConcatEmptySeq, FS_EmptySet
<1>4. /\ stream' \in Stream /\ stream'.wire = <<>> /\ stream'.pending = <<>> /\ stream'.buffer = {}
      /\ stream'.replay = {} /\ stream'.state \in {"none", "connecting"}
      /\ stream'.cursor \in {0, cursor'}
      /\ stream'.state = "connecting" => stream'.cursor = cursor'
  <2>1. CASE stream' = NoStream
    BY <1>1, <1>3, <2>1 DEF NoStream, Stream
  <2>2. CASE stream' = Connecting(cursor')
    <3>1. stream' = [state |-> "connecting", cursor |-> cursor', reset |-> FALSE, replay |-> {},
                     buffer |-> {}, pending |-> <<>>, blocked |-> FALSE, wire |-> <<>>]
      BY <2>2 DEF Connecting, NoStream
    <3>2. stream' \in Stream
      BY <1>2, <1>3, <3>1 DEF Stream
    <3> QED BY <3>1, <3>2
  <2> QED BY <2>1, <2>2
<1>5. Underway' = <<>>
  BY <1>3, <1>4 DEF Underway
<1>6. TypeOK'
  <2>1. Cardinality(stream'.buffer) <= BufferLimit /\ Len(stream'.pending) <= FrameLimit
    BY <1>3, <1>4, LimitAssumption
  <2> QED BY <1>2, <1>4, <2>1 DEF Feed, TypeOK, events
<1>7. Numbered'
  <2>1. stream'.cursor <= last /\ stream'.replay \cup stream'.buffer \subseteq 1 .. last
    BY <1>2, <1>4
  <2>2. \A k \in 1 .. Len(Underway') : Underway'[k].seq <= last
    BY <1>3, <1>5
  <2> QED BY <1>2, <1>4, <2>1, <2>2 DEF Numbered, events
<1>8. ReplayInv' /\ LiveInv'
  BY <1>3, <1>4, <1>5 DEF ReplayInv, LiveInv
<1>9. InSequence(Underway, Published, store)' /\ ResetsFirst(Underway, cursor)'
  BY <1>3, <1>5 DEF InSequence, ResetsFirst
<1>10. store'.gap.reason = "sequence" => store'.gap.expected \notin Published'
  BY DEF Published, events
<1> QED BY <1>6, <1>7, <1>8, <1>9, <1>10 DEF Feed, FeedInv

\* The stream without its first frame.
LEMMA RestFacts ==
    ASSUME Feed, stream.wire # <<>>
    PROVE  /\ StreamOK(Rest)
           /\ Rest.state = stream.state /\ Rest.cursor = stream.cursor /\ Rest.reset = stream.reset
           /\ Rest.replay = stream.replay /\ Rest.buffer = stream.buffer
           /\ Sending(Rest) \in Seq(Frame) /\ Len(Underway) = Len(Sending(Rest)) + 1
           /\ Underway[1] = Head(stream.wire) /\ Underway[1] \in Frame
           /\ \A k \in 1 .. Len(Sending(Rest)) : Sending(Rest)[k] = Underway[k + 1]
<1> DEFINE w == stream.wire
           p == stream.pending
           v == Tail(w)
<1>1. w \in Seq(Frame) /\ p \in Seq(Frame) /\ stream \in Stream /\ StreamOK(stream) /\ w # <<>>
  BY FeedParts, SendingFacts DEF StreamPart, SentPart
<1> HIDE DEF w, p
<1>2. /\ v \in Seq(Frame) /\ Len(v) = Len(w) - 1 /\ \A k \in 1 .. Len(v) : v[k] = w[k + 1]
      /\ Len(w) \in Nat \ {0} /\ Head(w) \in Frame
  BY <1>1, HeadTailProperties, EmptySeq
<1>3. Head(w) = w[1]
  BY <1>1
<1> HIDE DEF v
<1>4. Rest = [stream EXCEPT !.wire = v]
  BY DEF Rest, v, w
<1>5. /\ Rest \in Stream /\ Rest.wire = v /\ Rest.pending = p /\ Rest.blocked = stream.blocked
      /\ Rest.state = stream.state /\ Rest.cursor = stream.cursor /\ Rest.reset = stream.reset
      /\ Rest.replay = stream.replay /\ Rest.buffer = stream.buffer
  BY <1>1, <1>2, <1>4 DEF Stream, p
<1>6. StreamOK(Rest)
  BY <1>1, <1>5 DEF StreamOK, p
<1>7. /\ w \o p \in Seq(Frame) /\ Len(w \o p) = Len(w) + Len(p) /\ Len(p) \in Nat
      /\ \A k \in 1 .. Len(w) + Len(p) : (w \o p)[k] = IF k <= Len(w) THEN w[k] ELSE p[k - Len(w)]
  BY <1>1, ConcatProperties, LenProperties
<1>8. /\ v \o p \in Seq(Frame) /\ Len(v \o p) = Len(v) + Len(p)
      /\ \A k \in 1 .. Len(v) + Len(p) : (v \o p)[k] = IF k <= Len(v) THEN v[k] ELSE p[k - Len(v)]
  <2>1. v \in Seq(Frame) /\ p \in Seq(Frame)
    BY <1>1, <1>2
  <2> QED BY <2>1, ConcatProperties
<1>9. Len(w \o p) = Len(v \o p) + 1 /\ (w \o p)[1] = Head(w)
  <2>1. 1 \in 1 .. Len(w) + Len(p) /\ 1 <= Len(w)
    BY <1>2, <1>7
  <2>2. Len(w) + Len(p) = (Len(v) + Len(p)) + 1
    BY <1>2, <1>7
  <2> QED BY <1>3, <1>7, <1>8, <2>1, <2>2
<1>10. ASSUME NEW k \in 1 .. Len(v \o p) PROVE (v \o p)[k] = (w \o p)[k + 1]
  <2> DEFINE a == Len(w)
             b == Len(p)
  <2>1. a \in Nat \ {0} /\ b \in Nat /\ Len(v) = a - 1 /\ k \in 1 .. (a - 1) + b
    BY <1>2, <1>7, <1>8
  <2> HIDE DEF a, b
  <2>2. /\ k \in 1 .. Len(v) + b /\ k + 1 \in 1 .. a + b
        /\ k <= Len(v) <=> k + 1 <= a
        /\ k <= Len(v) => k \in 1 .. Len(v)
        /\ k - Len(v) = (k + 1) - a
    BY <2>1
  <2>3. (v \o p)[k] = IF k <= Len(v) THEN v[k] ELSE p[k - Len(v)]
    BY <1>8, <2>2 DEF b
  <2>4. (w \o p)[k + 1] = IF k + 1 <= a THEN w[k + 1] ELSE p[(k + 1) - a]
    BY <1>7, <2>2 DEF a, b
  <2>5. k <= Len(v) => v[k] = w[k + 1]
    BY <1>2, <2>2
  <2> QED BY <2>2, <2>3, <2>4, <2>5
<1>11. Underway = w \o p /\ Sending(Rest) = v \o p
  BY <1>5 DEF Underway, Sending, w, p
<1> QED BY <1>2, <1>5, <1>6, <1>8, <1>9, <1>10, <1>11 DEF w

\* The client takes a frame, and keeps its connection.
LEMMA TakeFeed ==
    ASSUME Feed, stream.wire # <<>>, stream' = Rest, faults' \in 0 .. MaxFault,
           UNCHANGED <<events, visible, started, fetch, timer>>,
           cursor' \in 0 .. last, store' \in [through : 0 .. MaxSeq, gap : Gap],
           store'.through = cursor',
           Underway[1] = Open => cursor' = cursor /\ store' = store,
           store'.gap.reason = "sequence" =>
             store'.gap.expected <= last /\ store'.gap.expected \notin Published,
           \A p \in Published : p <= cursor \/ Covers(Underway[1], p) =>
               \/ p <= cursor'
               \/ store'.gap # NoGap /\ \A k \in 1 .. Len(Underway) : Underway[k].kind # "reset",
           store.gap # NoGap /\ Underway[1].kind # "reset" => store'.gap # NoGap
    PROVE  Feed'
<1> DEFINE F == Underway
           G == Sending(Rest)
<1>1. /\ SentPart(stream, Published, last) /\ ReplayPart(stream, Published, last)
      /\ LivePart(stream, Published)
      /\ stream \in Stream /\ MaxSeq \in Nat /\ last \in 0 .. MaxSeq
      /\ Published \in SUBSET (1 .. last)
      /\ F \in Seq(Frame) /\ Sending(stream) = F /\ store.through = cursor /\ cursor \in 0 .. last
  BY FeedParts DEF StreamPart
<1>2. /\ StreamOK(Rest)
      /\ Rest.state = stream.state /\ Rest.cursor = stream.cursor /\ Rest.reset = stream.reset
      /\ Rest.replay = stream.replay /\ Rest.buffer = stream.buffer
      /\ G \in Seq(Frame) /\ Len(F) = Len(G) + 1
      /\ \A k \in 1 .. Len(G) : G[k] = F[k + 1]
  BY RestFacts
<1>3. Underway' = G /\ Published' = Published /\ last' = last
  BY DEF Underway, Sending, Published, events
<1> HIDE DEF F, G
<1>4. Len(F) \in Nat /\ Len(G) \in Nat /\ 1 \in 1 .. Len(F)
  BY <1>1, <1>2, LenProperties
<1>5. /\ \A k \in 1 .. Len(F), p \in Published : HasBefore(F, k + 1, p, store) => HasBefore(G, k, p, store')
      /\ InSequence(F, Published, store) => InSequence(G, Published, store')
      /\ \A from : ResetsFirst(F, from) => ResetsFirst(G, from)
      /\ \A n \in Nat : (\A k \in 1 .. Len(F) : F[k].seq <= n)
           => \A k \in 1 .. Len(G) : G[k].seq <= n
  <2>1. \A p \in Published : p <= store.through \/ Covers(F[1], p) =>
            \/ p <= store'.through
            \/ store'.gap # NoGap /\ \A k \in 1 .. Len(F) : F[k].kind # "reset"
    BY <1>1 DEF F
  <2>2. store.gap # NoGap /\ F[1].kind # "reset" => store'.gap # NoGap
    BY DEF F
  <2>3. Takes(F, G, Published, store, store')
    BY <1>1, <1>2, <2>1, <2>2 DEF Takes
  <2> QED BY <2>3, TakeFirst
<1>6. InSequence(G, Published, store')
  BY <1>1, <1>5 DEF SentPart
<1>7. \A k \in 1 .. Len(G) : G[k].seq <= last
  BY <1>1, <1>5 DEF SentPart, Numbers
<1>8. ResetsFirst(G, cursor')
  <2>1. ResetsFirst(F, cursor) /\ ResetsFirst(G, cursor)
    BY <1>1, <1>5 DEF SentPart
  <2>2. CASE F[1] = Open
    BY <2>1, <2>2 DEF F
  <2>3. CASE F[1] # Open
    <3>1. ASSUME NEW k \in 1 .. Len(G), G[k].kind = "reset" PROVE FALSE
      <4>1. k + 1 \in 1 .. Len(F) /\ 1 \in 1 .. (k + 1) - 1
        BY <1>2, <1>4
      <4>2. F[k + 1].kind = "reset"
        BY <1>2, <3>1
      <4> QED BY <2>1, <2>3, <4>1, <4>2 DEF ResetsFirst
    <3> QED BY <3>1 DEF ResetsFirst
  <2> QED BY <2>2, <2>3
<1>9. stream.state # "none" /\ visible /\ ~fetch["resync"].later
  <2>1. stream # NoStream
    BY DEF NoStream
  <2> QED BY <2>1 DEF Feed, FeedInv, Quiet
<1>10. Quiet'
  BY <1>2, <1>9 DEF Feed, FeedInv, Quiet
<1>11. TypeOK'
  <2>1. cursor' \in 0 .. MaxSeq
    BY <1>1
  <2> QED BY <1>2, <2>1 DEF Feed, TypeOK, StreamOK, events
<1>12. Numbered'
  <2>1. /\ stream'.cursor <= last /\ stream'.replay \cup stream'.buffer \subseteq 1 .. last
        /\ ~stream'.blocked => stream'.pending = <<>>
    BY <1>1, <1>2 DEF SentPart, StreamOK
  <2>2. cursor' <= last
    BY <1>1
  <2> QED BY <1>3, <1>7, <2>1, <2>2 DEF Feed, FeedInv, Numbered
<1>13. stream.state \in {"connecting", "replaying"} =>
         cursor' = cursor /\ store' = store /\ \A k \in 1 .. Len(G) : G[k] = Open
  <2> SUFFICES ASSUME stream.state \in {"connecting", "replaying"}
               PROVE  cursor' = cursor /\ store' = store /\ \A k \in 1 .. Len(G) : G[k] = Open
    OBVIOUS
  <2>1. \A k \in 1 .. Len(F) : F[k] = Open
    BY <1>1 DEF ReplayPart
  <2>2. \A k \in 1 .. Len(G) : k + 1 \in 1 .. Len(F)
    BY <1>2, <1>4
  <2> QED BY <1>2, <1>4, <2>1, <2>2 DEF F
<1>14. ReplayInv'
  BY <1>1, <1>2, <1>3, <1>13 DEF ReplayPart, ReplayInv
<1>15. LiveInv'
  <2> SUFFICES ASSUME stream.state = "live", NEW p \in Published
               PROVE  p <= stream.cursor /\ HasBefore(G, Len(G) + 1, p, store')
    BY <1>2, <1>3 DEF LiveInv
  <2>1. p <= stream.cursor /\ HasBefore(F, Len(F) + 1, p, store)
    BY <1>1 DEF LivePart, AllBefore
  <2>2. Len(F) \in 1 .. Len(F)
    BY <1>2, <1>4
  <2> QED BY <1>2, <1>5, <2>1, <2>2
<1> QED BY <1>3, <1>6, <1>8, <1>10, <1>11, <1>12, <1>14, <1>15 DEF Feed, FeedInv

LEMMA FrameArrived ==
    ASSUME Feed, NEW kind, Arrived(kind)
    PROVE  /\ stream.wire # <<>> /\ Underway[1].kind = kind
           /\ Underway[1] = Head(stream.wire) /\ Underway[1] \in Frame
           /\ Underway[1].seq \in 0 .. last
           /\ kind # "open" => Underway[1] # Open
           /\ kind \notin {"open", "reset"} => \A k \in 1 .. Len(Underway) : Underway[k].kind # "reset"
           /\ kind = "reset" => Underway[1].seq >= cursor
<1>1. /\ stream.wire # <<>> /\ Underway[1].kind = kind /\ Underway[1] = Head(stream.wire)
      /\ Underway[1] \in Frame /\ Len(Underway) = Len(Sending(Rest)) + 1
      /\ Sending(Rest) \in Seq(Frame)
  BY RestFacts DEF Arrived
<1>2. Len(Sending(Rest)) \in Nat
  BY <1>1, LenProperties
<1> DEFINE F == Underway
<1>3. 1 \in 1 .. Len(F) /\ \A k \in 1 .. Len(F) : k = 1 \/ 1 \in 1 .. k - 1
  BY <1>1, <1>2
<1>4. ResetsFirst(F, cursor) /\ (\A k \in 1 .. Len(F) : F[k].seq <= last) /\ last \in Nat
  <2>1. last \in 0 .. MaxSeq
    BY FeedParts
  <2> QED BY <2>1 DEF Feed, FeedInv, Numbered
<1> HIDE DEF F
<1>5. F[1].seq \in Nat
  BY <1>1, FeedParts DEF Frame, F
<1>6. F[1].seq \in 0 .. last
  <2>1. F[1].seq <= last
    BY <1>3, <1>4
  <2> QED BY <1>4, <1>5, <2>1
<1>7. kind # "open" => F[1] # Open
  BY <1>1, FrameFacts DEF F
<1>8. kind \notin {"open", "reset"} => \A k \in 1 .. Len(F) : F[k].kind # "reset"
  <2> SUFFICES ASSUME kind \notin {"open", "reset"}, NEW k \in 1 .. Len(F), F[k].kind = "reset"
               PROVE  FALSE
    OBVIOUS
  <2>1. F[1].kind = kind
    BY <1>1 DEF F
  <2>2. 1 \in 1 .. k - 1
    BY <1>3, <2>1
  <2> QED BY <1>4, <1>7, <2>2 DEF ResetsFirst
<1>9. kind = "reset" => F[1].seq >= cursor
  BY <1>1, <1>3, <1>4 DEF ResetsFirst, F
<1> QED BY <1>1, <1>6, <1>7, <1>8, <1>9 DEF F

LEMMA NoticeFeed ==
    ASSUME Feed, ReceiveNotice
    PROVE  Feed'
<1>1. /\ stream.wire # <<>> /\ stream' = Rest
      /\ UNCHANGED <<events, visible, started, fetch, timer, store, faults>>
      /\ Underway[1].kind \in {"open", "error"}
  <2>1. Arrived("open") \/ Arrived("error")
    BY DEF ReceiveNotice
  <2> QED BY <2>1, FrameArrived DEF ReceiveNotice
<1>2. cursor \in 0 .. last /\ store.through = cursor
  BY FeedParts
<1>3. cursor' = cursor
  <2>1. Max({cursor, cursor}) = cursor
    BY <1>2, OfTwo
  <2> QED BY <1>2, <2>1 DEF ReceiveNotice, Seen
<1>4. ~Covers(Underway[1], 0) /\ \A p : ~Covers(Underway[1], p)
  BY <1>1 DEF Covers
<1>5. /\ store \in [through : 0 .. MaxSeq, gap : Gap] /\ faults \in 0 .. MaxFault
      /\ store.gap.reason = "sequence" =>
           store.gap.expected <= last /\ store.gap.expected \notin Published
  BY ClientTyped
<1> QED BY <1>1, <1>2, <1>3, <1>4, <1>5, TakeFeed

LEMMA ResetFeed ==
    ASSUME Feed, ReceiveReset
    PROVE  Feed'
<1> DEFINE q == Underway[1].seq
<1>1. /\ stream.wire # <<>> /\ Underway[1] = Head(stream.wire) /\ Underway[1].kind = "reset"
      /\ q \in 0 .. last /\ q >= cursor /\ Underway[1] # Open
  BY FrameArrived DEF ReceiveReset
<1>2. /\ stream' = Rest /\ store' = [through |-> q, gap |-> NoGap]
      /\ cursor' = Max({cursor, q})
      /\ UNCHANGED <<events, visible, started, fetch, timer, faults>>
  BY <1>1 DEF ReceiveReset, Seen
<1> HIDE DEF q
<1>3. /\ cursor \in 0 .. last /\ last \in 0 .. MaxSeq /\ MaxSeq \in Nat
      /\ Published \in SUBSET (1 .. last)
  BY FeedParts
<1>4. cursor' = q
  BY <1>1, <1>2, <1>3, OfTwo
<1>5. NoGap \in Gap /\ NoGap.reason = "none"
  BY <1>3 DEF NoGap, Gap
<1>6. store' \in [through : 0 .. MaxSeq, gap : Gap] /\ store'.through = q /\ store'.gap = NoGap
  <2>1. q \in 0 .. MaxSeq
    BY <1>1, <1>3
  <2> QED BY <1>2, <1>5, <2>1
<1>7. ASSUME NEW p \in Published, p <= cursor \/ Covers(Underway[1], p) PROVE p <= cursor'
  <2>1. p \in Nat /\ cursor \in Nat /\ q \in Nat
    BY <1>1, <1>3
  <2> QED BY <1>1, <1>4, <1>7, <2>1 DEF Covers, q
<1>8. faults' \in 0 .. MaxFault /\ cursor' \in 0 .. last /\ store'.through = cursor'
  BY <1>1, <1>2, <1>4, <1>6, ClientTyped
<1>9. store'.gap.reason # "sequence"
  BY <1>5, <1>6
<1> QED BY <1>1, <1>2, <1>6, <1>7, <1>8, <1>9, TakeFeed

LEMMA ApplyFeed ==
    ASSUME Feed, ApplyEvent
    PROVE  Feed'
<1> DEFINE q == Underway[1].seq
<1>1. /\ stream.wire # <<>> /\ Underway[1] = Head(stream.wire) /\ Underway[1].kind = "event"
      /\ q \in 0 .. last /\ Underway[1] # Open
  BY FrameArrived DEF ApplyEvent
<1>2. /\ stream' = Rest /\ store' = [store EXCEPT !.through = Max({@, q})]
      /\ cursor' = Max({cursor, q})
      /\ UNCHANGED <<events, visible, started, fetch, timer, faults>>
  BY <1>1 DEF ApplyEvent, Seen
<1> HIDE DEF q
<1>3. /\ cursor \in 0 .. last /\ last \in 0 .. MaxSeq /\ MaxSeq \in Nat
      /\ Published \in SUBSET (1 .. last) /\ store.through = cursor
  BY FeedParts
<1>4. cursor' = IF cursor >= q THEN cursor ELSE q
  BY <1>1, <1>2, <1>3, OfTwo
<1>5. cursor' \in 0 .. last /\ cursor <= cursor' /\ q <= cursor'
  BY <1>1, <1>3, <1>4
<1>6. /\ store' \in [through : 0 .. MaxSeq, gap : Gap]
      /\ store'.through = cursor' /\ store'.gap = store.gap
  <2>1. cursor' \in 0 .. MaxSeq
    BY <1>3, <1>5
  <2>2. store \in [through : 0 .. MaxSeq, gap : Gap]
    BY ClientTyped
  <2>3. store' = [store EXCEPT !.through = cursor']
    BY <1>2, <1>3, <2>2
  <2> QED BY <2>1, <2>2, <2>3
<1>7. ASSUME NEW p \in Published, p <= cursor \/ Covers(Underway[1], p) PROVE p <= cursor'
  <2>1. p \in Nat /\ cursor \in Nat /\ q \in Nat /\ cursor' \in Nat
    BY <1>1, <1>3, <1>5
  <2> QED BY <1>1, <1>5, <1>7, <2>1 DEF Covers, q
<1>8. /\ faults' \in 0 .. MaxFault
      /\ store'.gap.reason = "sequence" =>
           store'.gap.expected <= last /\ store'.gap.expected \notin Published
  BY <1>2, <1>6, ClientTyped
<1> QED BY <1>1, <1>2, <1>5, <1>6, <1>7, <1>8, TakeFeed

\* The client has dropped its connection and asks for a snapshot.
LEMMA AskFeed ==
    ASSUME Feed, UNCHANGED <<events, visible, started, cursor>>,
           stream' = NoStream, Ask("resync"), timer' = "none", faults' \in 0 .. MaxFault,
           store' \in [through : 0 .. MaxSeq, gap : Gap], store'.through = cursor,
           store'.gap.reason = "sequence" =>
             store'.gap.expected <= last /\ store'.gap.expected \notin Published
    PROVE  Feed'
<1>1. /\ cursor \in 0 .. last /\ last \in 0 .. MaxSeq /\ MaxSeq \in Nat
      /\ visible \in BOOLEAN /\ started \in BOOLEAN
      /\ fetch \in [Fetcher -> Fetch] /\ Fetcher = {"start", "resync"}
      /\ \A w \in Fetcher : fetch[w] \in Fetch /\ fetch[w].through \in 0 .. last
  BY FeedParts, ClientTyped
<1>2. [at |-> "asked", through |-> 0, later |-> started] \in Fetch
  BY <1>1 DEF Fetch
<1>3. /\ fetch' \in [Fetcher -> Fetch]
      /\ fetch'["resync"] = [at |-> "asked", through |-> 0, later |-> started]
      /\ fetch'["start"] = fetch["start"]
  BY <1>1, <1>2 DEF Ask
<1>4. \A w \in Fetcher : fetch'[w].through <= last
  <2>1. 0 <= last /\ fetch["start"].through <= last
    BY <1>1
  <2> QED BY <1>1, <1>3, <2>1
<1>5. Quiet'
  <2>1. (started => fetch["start"].at = "none") /\ ~fetch["start"].later
    BY DEF Feed, FeedInv, Quiet
  <2> QED BY <1>3, <2>1 DEF Quiet, Resyncing
<1>6. UNCHANGED events /\ visible' \in BOOLEAN /\ started' \in BOOLEAN
      /\ cursor' = cursor /\ timer' \in {"none", "reopen", "resync"}
  BY <1>1
<1> QED BY <1>1, <1>3, <1>4, <1>5, <1>6, FreshFeed

\* What the client knows once it has stopped at the number that it expects.
LEMMA StoppedGap ==
    ASSUME Feed, NEW reason \in {"sequence", "missing_item"}, NEW received \in 0 .. last,
           store' = [store EXCEPT !.gap = [reason |-> reason, received |-> received,
                                           expected |-> store.through + 1]],
           received >= store.through + 1,
           reason = "sequence" => store.through + 1 \notin Published
    PROVE  /\ store' \in [through : 0 .. MaxSeq, gap : Gap] /\ store'.through = cursor
           /\ store'.gap # NoGap
           /\ store'.gap.reason = "sequence" =>
                store'.gap.expected <= last /\ store'.gap.expected \notin Published
<1>1. /\ cursor \in 0 .. last /\ last \in 0 .. MaxSeq /\ MaxSeq \in Nat /\ store.through = cursor
      /\ store \in [through : 0 .. MaxSeq, gap : Gap]
  BY FeedParts, ClientTyped
<1> DEFINE g == [reason |-> reason, received |-> received, expected |-> store.through + 1]
<1>2. /\ store.through + 1 \in 0 .. MaxSeq /\ store.through + 1 <= last
      /\ received \in 0 .. MaxSeq
  BY <1>1
<1>3. g \in Gap /\ g.reason = reason /\ g.expected = store.through + 1
  BY <1>2 DEF Gap
<1>4. g # NoGap
  BY <1>3 DEF NoGap
<1> HIDE DEF g
<1>5. store' = [store EXCEPT !.gap = g]
  BY DEF g
<1>6. store' \in [through : 0 .. MaxSeq, gap : Gap] /\ store'.through = cursor /\ store'.gap = g
  BY <1>1, <1>3, <1>5
<1> QED BY <1>2, <1>3, <1>4, <1>6

\* The client stops folding, unless it knew already that it misses some, and
\* asks for a snapshot, unless it has asked.
LEMMA RefuseFeed ==
    ASSUME Feed, RefuseEvent \/ MissItem
    PROVE  Feed'
<1> DEFINE q == Underway[1].seq
<1>1. /\ stream.wire # <<>> /\ Underway[1] = Head(stream.wire) /\ Underway[1].kind = "event"
      /\ q \in 0 .. last /\ Underway[1] # Open
      /\ \A k \in 1 .. Len(Underway) : Underway[k].kind # "reset"
  <2>1. Arrived("event")
    BY DEF RefuseEvent, MissItem
  <2> QED BY <2>1, FrameArrived
<1> HIDE DEF q
<1>2. /\ cursor \in 0 .. last /\ last \in 0 .. MaxSeq /\ MaxSeq \in Nat /\ MaxFault \in Nat
      /\ Published \in SUBSET (1 .. last) /\ store.through = cursor
  BY FeedParts
<1>3. /\ store \in [through : 0 .. MaxSeq, gap : Gap] /\ store.gap \in Gap
      /\ visible \in BOOLEAN /\ started \in BOOLEAN
      /\ fetch \in [Fetcher -> Fetch] /\ timer \in {"none", "reopen", "resync"}
      /\ Fetcher = {"start", "resync"}
      /\ \A w \in Fetcher : fetch[w] \in Fetch /\ fetch[w].through \in 0 .. last
      /\ faults \in 0 .. MaxFault
      /\ store.gap.reason = "sequence" =>
           store.gap.expected <= last /\ store.gap.expected \notin Published
  BY ClientTyped
<1>4. /\ RequestResync(Rest) /\ UNCHANGED <<events, visible, started, cursor>>
      /\ faults' \in 0 .. MaxFault
  <2>1. CASE RefuseEvent
    BY <1>3, <2>1 DEF RefuseEvent
  <2>2. CASE MissItem
    <3>1. RequestResync(Rest) /\ UNCHANGED <<events, visible, started, cursor>>
          /\ faults < MaxFault /\ faults' = faults + 1
      BY <2>2 DEF MissItem, Faulty
    <3> QED BY <1>2, <1>3, <3>1
  <2> QED BY <2>1, <2>2
\* The gap is explained: the event that is missing was not published, for else it
\* would be before this one.
<1>5. /\ store' \in [through : 0 .. MaxSeq, gap : Gap] /\ store'.through = cursor
      /\ store'.gap # NoGap
      /\ store'.gap.reason = "sequence" =>
           store'.gap.expected <= last /\ store'.gap.expected \notin Published
  <2>1. CASE store.gap # NoGap /\ store' = store
    BY <1>2, <1>3, <2>1
  <2>2. CASE RefuseEvent
    <3>1. /\ q > store.through /\ (store.gap # NoGap \/ ~(q = store.through + 1))
          /\ store' = IF store.gap # NoGap THEN store
                      ELSE [store EXCEPT !.gap = [reason |-> "sequence", received |-> q,
                                                  expected |-> store.through + 1]]
      BY <1>1, <2>2 DEF RefuseEvent, Follows, q
    <3>2. CASE store.gap # NoGap
      BY <2>1, <3>1, <3>2
    <3>3. CASE store.gap = NoGap
      <4>1. q >= store.through + 1 /\ store.through + 1 < q /\ ~(store.through + 1 <= store.through)
        BY <1>1, <1>2, <3>1, <3>3
      <4>2. ASSUME store.through + 1 \in Published PROVE FALSE
        <5>1. InSequence(Underway, Published, store)
          BY DEF Feed, FeedInv
        <5>2. 1 \in 1 .. Len(Underway)
          <6>1. Len(Underway) = Len(Sending(Rest)) + 1 /\ Len(Sending(Rest)) \in Nat
            BY <1>1, RestFacts, LenProperties
          <6> QED BY <6>1
        <5>3. HasBefore(Underway, 1, store.through + 1, store)
          BY <1>1, <4>1, <4>2, <5>1, <5>2 DEF InSequence, q
        <5>4. \A j \in 1 .. 1 - 1 : FALSE
          OBVIOUS
        <5> QED BY <3>3, <4>1, <5>3, <5>4 DEF HasBefore
      <4>3. /\ store' = [store EXCEPT !.gap = [reason |-> "sequence", received |-> q,
                                                expected |-> store.through + 1]]
            /\ store.through + 1 \notin Published
        BY <3>1, <3>3, <4>2
      <4> QED BY <1>1, <4>1, <4>3, StoppedGap
    <3> QED BY <3>2, <3>3
  <2>3. CASE MissItem
    <3>1. /\ q = store.through + 1 /\ store.gap = NoGap
          /\ store' = [store EXCEPT !.gap = [reason |-> "missing_item", received |-> store.through + 1,
                                             expected |-> store.through + 1]]
      BY <1>1, <2>3 DEF MissItem, Follows, q
    <3>2. store.through + 1 \in 0 .. last /\ store.through + 1 >= store.through + 1
      BY <1>1, <1>2, <3>1
    <3> QED BY <3>1, <3>2, StoppedGap
  <2> QED BY <2>2, <2>3
<1>6. CASE Resyncing
  <2>1. stream' = Rest /\ UNCHANGED <<fetch, timer>>
    BY <1>4, <1>6 DEF RequestResync
  <2>2. \A p \in Published : p <= cursor \/ Covers(Underway[1], p) =>
               \/ p <= cursor'
               \/ store'.gap # NoGap /\ \A k \in 1 .. Len(Underway) : Underway[k].kind # "reset"
    BY <1>1, <1>5
  <2>3. UNCHANGED <<events, visible, started, fetch, timer>> /\ cursor' = cursor
    BY <1>4, <2>1
  <2> QED BY <1>1, <1>2, <1>4, <1>5, <2>1, <2>2, <2>3, TakeFeed
<1>7. CASE ~Resyncing
  <2>1. stream' = NoStream /\ Ask("resync") /\ timer' = "none"
    BY <1>4, <1>7 DEF RequestResync
  <2> QED BY <1>4, <1>5, <2>1, AskFeed
<1> QED BY <1>6, <1>7

\* The client has a new connection from its cursor, or none, and waits for no
\* snapshot that would be newer than what it shows.
LEMMA ConnectFeed ==
    ASSUME Feed, UNCHANGED events, Connect(cursor'), visible' \in BOOLEAN, visible => visible',
           cursor' \in 0 .. last, store' \in [through : 0 .. MaxSeq, gap : Gap],
           store'.through = cursor',
           store'.gap.reason = "sequence" =>
             store'.gap.expected <= last /\ store'.gap.expected \notin Published,
           started' \in BOOLEAN, faults' \in 0 .. MaxFault,
           fetch' \in [Fetcher -> Fetch], \A w \in Fetcher : fetch'[w].through <= last,
           started' => fetch'["start"].at = "none",
           \A w \in Fetcher : ~fetch'[w].later
    PROVE  Feed'
<1>1. "start" \in Fetcher /\ "resync" \in Fetcher
  BY DEF Fetcher
<1>2. (stream' = Connecting(cursor') /\ visible' /\ timer' = "none")
        \/ (stream' = NoStream /\ timer' = "none")
  <2>1. CASE visible'
    BY <2>1 DEF Connect, Connecting
  <2>2. CASE ~visible'
    <3>1. stream = NoStream /\ timer = "none"
      BY <2>2 DEF Feed, FeedInv, Quiet
    <3> QED BY <2>2, <3>1 DEF Connect
  <2> QED BY <2>1, <2>2
<1>3. stream'.state = "none" => stream' = NoStream
  <2>1. Connecting(cursor').state = "connecting"
    BY DEF Connecting, NoStream
  <2> QED BY <1>2, <2>1
<1>4. Quiet'
  BY <1>1, <1>2, <1>3 DEF Quiet
<1>5. timer' \in {"none", "reopen", "resync"} /\ (stream' = NoStream \/ stream' = Connecting(cursor'))
  BY <1>2
<1> QED BY <1>4, <1>5, FreshFeed

\* A page that was connected, or has a reconnection scheduled, or waits for no
\* snapshot at all, waits for none that was asked for after the first one.
LEMMA NotLater ==
    ASSUME Feed,
           stream # NoStream \/ timer = "reopen" \/ ~Resyncing \/ fetch["start"].at # "none"
    PROVE  \A w \in Fetcher : ~fetch[w].later
BY DEF Feed, FeedInv, Quiet, Fetcher

LEMMA EndFeed ==
    ASSUME Feed, StreamEnds
    PROVE  Feed'
<1>1. /\ stream.state = "ended" /\ stream' = NoStream
      /\ UNCHANGED <<events, visible, started, fetch, cursor, store, faults>>
      /\ timer' = IF visible /\ timer = "none" THEN "reopen" ELSE timer
  BY DEF StreamEnds, Schedule
<1>2. stream # NoStream
  BY <1>1 DEF NoStream
<1>3. visible /\ (started => fetch["start"].at = "none") /\ \A w \in Fetcher : ~fetch[w].later
  BY <1>2, NotLater DEF Feed, FeedInv, Quiet
<1>4. Quiet'
  BY <1>1, <1>3 DEF Quiet, Fetcher
<1>5. cursor' \in 0 .. last /\ store'.through = cursor'
  BY <1>1, FeedParts
<1>6. /\ visible' \in BOOLEAN /\ started' \in BOOLEAN /\ timer' \in {"none", "reopen", "resync"}
      /\ fetch' \in [Fetcher -> Fetch] /\ faults' \in 0 .. MaxFault
      /\ store' \in [through : 0 .. MaxSeq, gap : Gap]
      /\ store'.gap.reason = "sequence" =>
           store'.gap.expected <= last /\ store'.gap.expected \notin Published
  BY <1>1, ClientTyped
<1>7. \A w \in Fetcher : fetch'[w].through <= last
  BY <1>1 DEF Feed, FeedInv, Numbered
<1> QED BY <1>1, <1>4, <1>5, <1>6, <1>7, FreshFeed

LEMMA StartFeed ==
    ASSUME Feed, Start
    PROVE  Feed'
<1>1. /\ ~started /\ Ask("start")
      /\ UNCHANGED <<events, stream, visible, started, timer, cursor, store, faults>>
  BY DEF Start
<1>2. /\ last \in 0 .. MaxSeq /\ MaxSeq \in Nat /\ fetch \in [Fetcher -> Fetch]
      /\ Fetcher = {"start", "resync"} /\ started \in BOOLEAN /\ visible \in BOOLEAN
      /\ timer \in {"none", "reopen", "resync"} /\ faults \in 0 .. MaxFault
      /\ fetch["resync"].through <= last
  BY FeedParts, ClientTyped
<1>3. [at |-> "asked", through |-> 0, later |-> FALSE] \in Fetch
  BY <1>2 DEF Fetch
<1>4. /\ fetch' \in [Fetcher -> Fetch] /\ fetch'["resync"] = fetch["resync"]
      /\ fetch'["start"] = [at |-> "asked", through |-> 0, later |-> FALSE]
  <2>1. fetch' = [fetch EXCEPT !["start"] = [at |-> "asked", through |-> 0, later |-> FALSE]]
    BY <1>1, <1>2 DEF Ask
  <2> QED BY <1>2, <1>3, <2>1
<1>5. \A w \in Fetcher : fetch'[w].through <= last
  <2>1. 0 <= last
    BY <1>2
  <2> QED BY <1>2, <1>4, <2>1
<1>6. Quiet'
  BY <1>1, <1>4 DEF Feed, FeedInv, Quiet, Resyncing
<1> QED BY <1>1, <1>2, <1>4, <1>5, <1>6, SameFeed

LEMMA ReadFeed ==
    ASSUME Feed, NEW w \in Fetcher, ReadSnapshot(w)
    PROVE  Feed'
<1>1. /\ fetch[w].at = "asked"
      /\ fetch' = [fetch EXCEPT ![w].at = "answered", ![w].through = last]
      /\ UNCHANGED <<events, stream, visible, started, timer, cursor, store, faults>>
  BY DEF ReadSnapshot
<1>2. /\ last \in 0 .. MaxSeq /\ MaxSeq \in Nat /\ cursor \in 0 .. last
      /\ fetch \in [Fetcher -> Fetch] /\ Fetcher = {"start", "resync"}
      /\ started \in BOOLEAN /\ visible \in BOOLEAN
      /\ timer \in {"none", "reopen", "resync"} /\ faults \in 0 .. MaxFault
      /\ \A v \in Fetcher : fetch[v] \in Fetch /\ fetch[v].through \in 0 .. last
  BY FeedParts, ClientTyped
<1>3. /\ fetch' \in [Fetcher -> Fetch] /\ fetch'[w].through = last /\ fetch'[w].at = "answered"
      /\ fetch'[w].later = fetch[w].later
      /\ \A v \in Fetcher \ {w} : fetch'[v] = fetch[v]
  <2> DEFINE f == [fetch[w] EXCEPT !.at = "answered", !.through = last]
  <2>1. f \in Fetch /\ f.through = last /\ f.at = "answered" /\ f.later = fetch[w].later
    BY <1>2 DEF Fetch
  <2>2. fetch' = [fetch EXCEPT ![w] = f]
    BY <1>1, <1>2
  <2> HIDE DEF f
  <2> QED BY <1>2, <2>1, <2>2
<1>4. \A v \in Fetcher : fetch'[v].through <= last
  BY <1>2, <1>3
<1>5. Quiet'
  <2>1. started => w # "start"
    BY <1>1 DEF Feed, FeedInv, Quiet
  <2>2. cursor <= last
    BY <1>2
  <2> QED BY <1>1, <1>2, <1>3, <2>1, <2>2 DEF Feed, FeedInv, Quiet, Resyncing
<1> QED BY <1>1, <1>2, <1>3, <1>4, <1>5, SameFeed

\* What a snapshot is forgotten for: the client has it, or its fetch has failed.
LEMMA ForgetFetch ==
    ASSUME Feed, NEW w \in Fetcher, fetch' = [fetch EXCEPT ![w] = NoFetch]
    PROVE  /\ fetch' \in [Fetcher -> Fetch] /\ fetch'[w] = NoFetch
           /\ \A v \in Fetcher \ {w} : fetch'[v] = fetch[v]
           /\ \A v \in Fetcher : fetch'[v].through <= last
<1>1. /\ last \in 0 .. MaxSeq /\ MaxSeq \in Nat /\ fetch \in [Fetcher -> Fetch]
      /\ \A v \in Fetcher : fetch[v].through <= last
  BY FeedParts, ClientTyped
<1>2. NoFetch \in Fetch /\ NoFetch.through = 0 /\ 0 <= last
  BY <1>1 DEF NoFetch, Fetch
<1> QED BY <1>1, <1>2

LEMMA ReplaceFeed ==
    ASSUME Feed, NEW w \in Fetcher, ReplaceFromSnapshot(w)
    PROVE  Feed'
<1>1. /\ fetch[w].at = "answered" /\ fetch' = [fetch EXCEPT ![w] = NoFetch]
      /\ started' = (started \/ w = "start")
      /\ store' = [through |-> fetch[w].through, gap |-> NoGap] /\ cursor' = fetch[w].through
      /\ Connect(cursor') /\ UNCHANGED <<events, visible, faults>>
  BY DEF ReplaceFromSnapshot
<1>2. /\ last \in 0 .. MaxSeq /\ MaxSeq \in Nat /\ fetch[w].through \in 0 .. last
      /\ visible \in BOOLEAN /\ faults \in 0 .. MaxFault /\ Fetcher = {"start", "resync"}
  BY FeedParts, ClientTyped
<1>3. NoGap \in Gap /\ NoGap.reason = "none"
  BY <1>2 DEF NoGap, Gap
<1>4. /\ store' \in [through : 0 .. MaxSeq, gap : Gap] /\ store'.through = cursor'
      /\ store'.gap.reason # "sequence" /\ cursor' \in 0 .. last
  BY <1>1, <1>2, <1>3
<1>5. /\ fetch' \in [Fetcher -> Fetch] /\ fetch'[w] = NoFetch
      /\ \A v \in Fetcher \ {w} : fetch'[v] = fetch[v]
      /\ \A v \in Fetcher : fetch'[v].through <= last
  BY <1>1, ForgetFetch
<1>6. /\ started' => fetch'["start"].at = "none"
      /\ \A v \in Fetcher : ~fetch'[v].later
  BY <1>1, <1>2, <1>5 DEF Feed, FeedInv, Quiet, NoFetch
<1>7. started' \in BOOLEAN
  BY <1>1, ClientTyped
<1> QED BY <1>1, <1>2, <1>4, <1>5, <1>6, <1>7, ConnectFeed

LEMMA FailFeed ==
    ASSUME Feed, NEW w \in Fetcher, FetchFails(w)
    PROVE  Feed'
<1>1. /\ fetch' = [fetch EXCEPT ![w] = NoFetch] /\ faults < MaxFault /\ faults' = faults + 1
      /\ timer' = IF w = "resync" /\ visible /\ timer = "none" THEN "resync" ELSE timer
      /\ UNCHANGED <<events, stream, visible, started, cursor, store>>
  BY DEF FetchFails, Faulty, Schedule
<1>2. /\ visible \in BOOLEAN /\ started \in BOOLEAN /\ Fetcher = {"start", "resync"}
      /\ timer \in {"none", "reopen", "resync"} /\ faults \in 0 .. MaxFault /\ MaxFault \in Nat
  BY FeedParts, ClientTyped
<1>3. faults' \in 0 .. MaxFault /\ timer' \in {"none", "reopen", "resync"}
  BY <1>1, <1>2
<1>4. /\ fetch' \in [Fetcher -> Fetch] /\ fetch'[w] = NoFetch
      /\ \A v \in Fetcher \ {w} : fetch'[v] = fetch[v]
      /\ \A v \in Fetcher : fetch'[v].through <= last
  BY <1>1, ForgetFetch
<1>5. Quiet'
  BY <1>1, <1>2, <1>4 DEF Feed, FeedInv, Quiet, NoFetch, Resyncing
<1> QED BY <1>1, <1>2, <1>3, <1>4, <1>5, SameFeed

\* The client connects again from its cursor, and holds what it held.
LEMMA AgainFeed ==
    ASSUME Feed, Connect(cursor), visible' \in BOOLEAN, visible => visible',
           UNCHANGED <<events, started, fetch, cursor, store>>, faults' \in 0 .. MaxFault,
           \A w \in Fetcher : ~fetch[w].later
    PROVE  Feed'
<1>1. /\ cursor' \in 0 .. last /\ store'.through = cursor' /\ Connect(cursor')
      /\ store' \in [through : 0 .. MaxSeq, gap : Gap]
      /\ store'.gap.reason = "sequence" =>
           store'.gap.expected <= last /\ store'.gap.expected \notin Published
      /\ started' \in BOOLEAN /\ fetch' \in [Fetcher -> Fetch]
  BY FeedParts, ClientTyped DEF Connect
<1>2. /\ \A w \in Fetcher : fetch'[w].through <= last
      /\ started' => fetch'["start"].at = "none"
  BY DEF Feed, FeedInv, Numbered, Quiet
<1> QED BY <1>1, <1>2, ConnectFeed

LEMMA ReconnectFeed ==
    ASSUME Feed, Reconnect
    PROVE  Feed'
<1>1. /\ timer = "reopen" /\ Connect(cursor)
      /\ UNCHANGED <<events, visible, started, fetch, cursor, store, faults>>
  BY DEF Reconnect
<1>2. visible' \in BOOLEAN /\ faults' \in 0 .. MaxFault /\ \A w \in Fetcher : ~fetch[w].later
  BY <1>1, ClientTyped, NotLater
<1> QED BY <1>1, <1>2, AgainFeed

LEMMA ResumeFeed ==
    ASSUME Feed, Resume
    PROVE  Feed'
<1>1. /\ ~Resyncing /\ Connect(cursor) /\ faults < MaxFault /\ faults' = faults + 1
      /\ UNCHANGED <<events, visible, started, fetch, cursor, store>>
  BY DEF Resume, Faulty
<1>2. visible' \in BOOLEAN /\ faults \in 0 .. MaxFault /\ \A w \in Fetcher : ~fetch[w].later
  BY <1>1, ClientTyped, NotLater
<1>3. faults' \in 0 .. MaxFault
  BY <1>1, <1>2, FeedParts
<1> QED BY <1>1, <1>2, <1>3, AgainFeed

LEMMA ResyncAgainFeed ==
    ASSUME Feed, ResyncAgain
    PROVE  Feed'
<1>1. /\ UNCHANGED <<events, visible, started, cursor, store, faults>>
      /\ IF Resyncing THEN timer' = "none" /\ UNCHANGED <<stream, fetch>>
         ELSE stream' = NoStream /\ Ask("resync") /\ timer' = "none"
  BY DEF ResyncAgain, RequestResync
<1>2. /\ visible \in BOOLEAN /\ started \in BOOLEAN /\ faults \in 0 .. MaxFault
      /\ fetch \in [Fetcher -> Fetch] /\ \A w \in Fetcher : fetch[w].through <= last
      /\ store \in [through : 0 .. MaxSeq, gap : Gap] /\ store.through = cursor
      /\ store.gap.reason = "sequence" =>
           store.gap.expected <= last /\ store.gap.expected \notin Published
  <2>1. \A w \in Fetcher : fetch[w].through <= last
    BY DEF Feed, FeedInv, Numbered
  <2> QED BY <2>1, FeedParts, ClientTyped
<1>3. CASE Resyncing
  <2>1. Quiet'
    BY <1>1, <1>3 DEF Feed, FeedInv, Quiet, Resyncing
  <2> QED BY <1>1, <1>2, <1>3, <2>1, SameFeed
<1>4. CASE ~Resyncing
  BY <1>1, <1>2, <1>4, AskFeed
<1> QED BY <1>3, <1>4

LEMMA HideFeed ==
    ASSUME Feed, Hide
    PROVE  Feed'
<1>1. /\ visible' = FALSE /\ stream' = NoStream /\ timer' = "none"
      /\ faults < MaxFault /\ faults' = faults + 1
      /\ UNCHANGED <<events, started, fetch, cursor, store>>
  BY DEF Hide, Faulty
<1>2. /\ started' \in BOOLEAN /\ fetch' \in [Fetcher -> Fetch]
      /\ store' \in [through : 0 .. MaxSeq, gap : Gap]
      /\ store'.gap.reason = "sequence" =>
           store'.gap.expected <= last /\ store'.gap.expected \notin Published
      /\ cursor' \in 0 .. last /\ store'.through = cursor'
  BY <1>1, FeedParts, ClientTyped
<1>3. faults' \in 0 .. MaxFault
  BY <1>1, FeedParts, ClientTyped
<1>4. Quiet' /\ \A w \in Fetcher : fetch'[w].through <= last
  BY <1>1 DEF Feed, FeedInv, Quiet, Numbered, Resyncing
<1> QED BY <1>1, <1>2, <1>3, <1>4, FreshFeed

LEMMA ShowFeed ==
    ASSUME Feed, Show
    PROVE  Feed'
<1>1. /\ ~visible /\ visible' = TRUE
      /\ IF Resyncing THEN UNCHANGED <<stream, timer>> ELSE Connect(cursor)
      /\ UNCHANGED <<events, started, fetch, cursor, store, faults>>
  BY DEF Show
<1>2. /\ started' \in BOOLEAN /\ fetch' \in [Fetcher -> Fetch] /\ faults' \in 0 .. MaxFault
      /\ timer \in {"none", "reopen", "resync"}
  BY <1>1, ClientTyped
<1>3. CASE Resyncing
  <2>1. Quiet' /\ \A w \in Fetcher : fetch'[w].through <= last
    BY <1>1, <1>3 DEF Feed, FeedInv, Quiet, Numbered, Resyncing
  <2> QED BY <1>1, <1>2, <1>3, <2>1, SameFeed
<1>4. CASE ~Resyncing
  <2>1. \A w \in Fetcher : ~fetch[w].later
    BY <1>4, NotLater
  <2> QED BY <1>1, <1>2, <1>4, <2>1, AgainFeed
<1> QED BY <1>3, <1>4

-----------------------------------------------------------------------------
(* What holds in every state and at every step.                            *)

LEMMA FirstFeed == Init => Feed
<1> SUFFICES ASSUME Init
             PROVE  Feed
  OBVIOUS
<1>1. /\ last = 0 /\ rows = {} /\ unpublished = {} /\ stream = NoStream
      /\ visible \in BOOLEAN /\ started = FALSE /\ fetch = [w \in Fetcher |-> NoFetch]
      /\ timer = "none" /\ cursor = 0 /\ store = [through |-> 0, gap |-> NoGap] /\ faults = 0
  BY DEF Init
<1>2. /\ MaxSeq \in Nat /\ MaxFault \in Nat /\ BufferLimit \in Nat /\ FrameLimit \in Nat
      /\ 0 \in 0 .. MaxSeq /\ 0 \in 0 .. MaxFault
  BY LimitAssumption, BoundAssumption
<1>3. <<>> \in Seq(Frame) /\ Len(<<>>) = 0 /\ <<>> \o <<>> = <<>> /\ Cardinality({}) = 0
  BY EmptySeq, ConcatEmptySeq, FS_EmptySet
<1>4. NoStream \in Stream /\ NoGap \in Gap /\ NoFetch \in Fetch
  BY <1>2, <1>3 DEF NoStream, Stream, NoGap, Gap, NoFetch, Fetch
<1>5. TypeOK
  <2>1. Cardinality(stream.buffer) <= BufferLimit /\ Len(stream.pending) <= FrameLimit
    BY <1>1, <1>2, <1>3 DEF NoStream
  <2>2. rows \subseteq 1 .. last /\ unpublished \subseteq 1 .. last
    BY <1>1
  <2>3. store \in [through : 0 .. MaxSeq, gap : Gap] /\ fetch \in [Fetcher -> Fetch]
    BY <1>1, <1>2, <1>4
  <2> QED BY <1>1, <1>2, <1>4, <2>1, <2>2, <2>3 DEF TypeOK
<1>6. Underway = <<>> /\ Published = {}
  BY <1>1, <1>3 DEF Underway, Published, NoStream
<1>7. Numbered
  BY <1>1, <1>3, <1>6 DEF Numbered, NoStream, NoGap, NoFetch
<1>8. Quiet /\ ReplayInv /\ LiveInv
  BY <1>1 DEF Quiet, ReplayInv, LiveInv, NoStream, NoFetch, Fetcher
<1>9. InSequence(Underway, Published, store) /\ ResetsFirst(Underway, cursor)
  BY <1>3, <1>6 DEF InSequence, ResetsFirst
<1>10. store.gap.reason # "sequence"
  BY <1>1 DEF NoGap
<1> QED BY <1>5, <1>7, <1>8, <1>9, <1>10 DEF Feed, FeedInv

LEMMA IdleFeed ==
    ASSUME Feed, UNCHANGED vars
    PROVE  Feed'
<1>1. UNCHANGED <<events, stream, cursor, store, visible, started, timer, fetch, faults>>
  BY DEF vars, client
<1>2. \A w \in Fetcher : fetch[w].through <= last
  BY DEF Feed, FeedInv, Numbered
<1>3. Quiet'
  BY <1>1 DEF Feed, FeedInv, Quiet, Resyncing
<1> QED BY <1>1, <1>2, <1>3, ClientTyped, SameFeed

LEMMA FeedStep ==
    ASSUME Feed, [Next]_vars
    PROVE  Feed'
<1>1. CASE PublishKnown \/ AppendEvent
  BY <1>1, PublishFeed DEF PublishKnown, AppendEvent
<1>2. CASE Compact \/ StreamNext \/ Break
  BY <1>2, CompactFeed, AcceptFeed, FinishFeed, DrainFeed, BreakFeed DEF StreamNext
<1>3. CASE ReceiveNext \/ MissItem
  BY <1>3, NoticeFeed, ResetFeed, ApplyFeed, RefuseFeed, EndFeed DEF ReceiveNext
<1>4. CASE Start \/ FetchNext \/ \E w \in Fetcher : FetchFails(w)
  BY <1>4, StartFeed, ReadFeed, ReplaceFeed, FailFeed DEF FetchNext
<1>5. CASE Reconnect \/ ResyncAgain \/ Hide \/ Show \/ Resume
  BY <1>5, ReconnectFeed, ResyncAgainFeed, HideFeed, ShowFeed, ResumeFeed
<1>6. CASE UNCHANGED vars
  BY <1>6, IdleFeed
<1> QED BY <1>1, <1>2, <1>3, <1>4, <1>5, <1>6 DEF Next

\* Nothing that was published and is stored gets lost between the store of the
\* events and the projection of the client, whatever the limits of the replay, the
\* buffers and the socket (finishReplay, BoundedSseWriter, openEventStream).
THEOREM FeedInvariance == Spec => []Feed
<1>1. Init => Feed
  BY FirstFeed
<1>2. Feed /\ [Next]_vars => Feed'
  BY FeedStep
<1> QED BY <1>1, <1>2, PTL DEF Spec

\* Every state of the feed has its type, and the buffer of a replay and the frames
\* that wait for the socket stay within their limits (receiveEvent, send).
THEOREM TypeCorrect == Spec => []TypeOK
<1>1. Feed => TypeOK
  BY DEF Feed
<1> QED BY <1>1, FeedInvariance, PTL

\* The number that the client finds missing was not published to connected clients,
\* or is no longer stored (SessionProjectionStore.apply).
THEOREM GapsAreExplained == Spec => []GapsExplained
<1>1. Feed => GapsExplained
  BY DEF Feed, FeedInv, GapsExplained, Published
<1> QED BY <1>1, FeedInvariance, PTL

\* A stream that has passed on everything that waits, to a client that has received
\* it all and has found nothing missing.
Settled == stream.state = "live" /\ Underway = <<>> /\ store.gap = NoGap

\* A client which is at rest with its stream shows every event that was published
\* and is stored: no replay, full buffer or reconnection has left it behind without
\* its knowing (finishReplay, handleDrain, SessionProjectionStore.apply).
THEOREM SettledMeansCaughtUp == Spec => [](Settled => \A p \in Published : p <= store.through)
<1>1. ASSUME Feed, Settled, NEW p \in Published PROVE p <= store.through
  <2>1. HasBefore(Underway, Len(Underway) + 1, p, store) /\ Len(Underway) = 0
    BY <1>1, EmptySeq DEF Feed, FeedInv, LiveInv, Settled
  <2>2. 1 .. (Len(Underway) + 1) - 1 = {}
    BY <2>1
  <2> QED BY <1>1, <2>1, <2>2 DEF HasBefore, Settled
<1>2. Feed => (Settled => \A p \in Published : p <= store.through)
  BY <1>1
<1> QED BY <1>2, FeedInvariance, PTL

-----------------------------------------------------------------------------
(* The projection.                                                         *)

\* The steps of the client that change the projection.
LEMMA Forward ==
    ASSUME Feed, [Next]_vars
    PROVE  \/ store'.through >= store.through
           \/ \E w \in Fetcher : fetch[w].at = "answered" /\ ~fetch[w].later
<1>1. /\ store.through = cursor /\ cursor \in 0 .. last /\ last \in 0 .. MaxSeq /\ MaxSeq \in Nat
      /\ store \in [through : 0 .. MaxSeq, gap : Gap] /\ cursor >= cursor
  BY FeedParts, ClientTyped
<1>2. CASE store' = store
  BY <1>1, <1>2
<1>3. CASE ReceiveReset
  <2>1. Underway[1].seq >= cursor /\ store'.through = Underway[1].seq
    BY <1>3, FrameArrived DEF ReceiveReset
  <2> QED BY <1>1, <2>1
<1>4. CASE ApplyEvent
  <2>1. Underway[1].seq \in 0 .. last /\ store' = [store EXCEPT !.through = Max({@, Underway[1].seq})]
    BY <1>4, FrameArrived DEF ApplyEvent
  <2> DEFINE q == Underway[1].seq
  <2> HIDE DEF q
  <2>2. q \in Int /\ cursor \in Int /\ store' = [store EXCEPT !.through = Max({cursor, q})]
    BY <1>1, <2>1 DEF q
  <2>3. Max({cursor, q}) >= cursor
    BY <2>2, OfTwo
  <2>4. store'.through = Max({cursor, q})
    BY <1>1, <2>2
  <2> QED BY <1>1, <2>3, <2>4
<1>5. CASE RefuseEvent \/ MissItem
  <2>1. store'.through = store.through
    BY <1>1, <1>5 DEF RefuseEvent, MissItem
  <2> QED BY <1>1, <2>1
<1>6. ASSUME NEW w \in Fetcher, ReplaceFromSnapshot(w), fetch[w].later
      PROVE  store'.through >= store.through
  <2>1. fetch[w].at = "answered" /\ store'.through = fetch[w].through
    BY <1>6 DEF ReplaceFromSnapshot
  <2>2. w = "resync" /\ fetch[w].through >= cursor
    BY <1>6, <2>1 DEF Feed, FeedInv, Quiet, Fetcher
  <2> QED BY <1>1, <2>1, <2>2
<1>7. CASE \E w \in Fetcher : ReplaceFromSnapshot(w)
  BY <1>6, <1>7 DEF ReplaceFromSnapshot
<1>8. \/ store' = store \/ ReceiveReset \/ ApplyEvent \/ RefuseEvent \/ MissItem
      \/ \E w \in Fetcher : ReplaceFromSnapshot(w)
  BY DEF Next, PublishKnown, AppendEvent, Publish, Compact, StreamNext, Accept, FinishReplay, Drain,
         Break, ReceiveNext, ReceiveNotice, StreamEnds, Start, FetchNext, ReadSnapshot, FetchFails,
         Reconnect, ResyncAgain, Hide, Show, Resume, vars, client
<1> QED BY <1>2, <1>3, <1>4, <1>5, <1>7, <1>8

\* What the client shows never goes back, save for a snapshot that was asked for
\* before the first one had arrived (requestSnapshotResync, emitSnapshotReset).
THEOREM ProjectionNeverBack == Spec => NeverBack
<1>1. Feed /\ [Next]_vars =>
        [\/ store'.through >= store.through
         \/ \E w \in Fetcher : fetch[w].at = "answered" /\ ~fetch[w].later]_vars
  BY Forward
<1> QED BY <1>1, FeedInvariance, PTL DEF Spec, NeverBack

-----------------------------------------------------------------------------
(* Each event once, and in order.                                          *)

Newer(F, from) == \A k \in 1 .. Len(F) : F[k].kind = "event" => F[k].seq > from

\* Ending a stream early changes no order.
LEMMA WithinOnce ==
    ASSUME NEW G \in Seq(Frame), NEW H \in Seq(Frame), Within(G, H)
    PROVE  /\ Ascending(H) => Ascending(G)
           /\ \A from : Newer(H, from) => Newer(G, from)
<1>1. ASSUME NEW k \in 1 .. Len(G), G[k].kind = "event"
      PROVE  k \in 1 .. Len(H) /\ \A j \in 1 .. k : G[j] = H[j]
  BY <1>1, FrameFacts, LenProperties DEF Within
<1>2. ASSUME Ascending(H), NEW j \in 1 .. Len(G), NEW k \in 1 .. Len(G), j < k, G[k].kind = "event"
      PROVE  G[j].seq < G[k].seq
  <2>1. k \in 1 .. Len(H) /\ \A i \in 1 .. k : G[i] = H[i]
    BY <1>1, <1>2
  <2>2. j \in 1 .. k /\ j \in 1 .. Len(H) /\ k \in 1 .. k
    BY <1>2, <2>1, LenProperties
  <2> QED BY <1>2, <2>1, <2>2 DEF Ascending
<1>3. ASSUME NEW from, Newer(H, from), NEW k \in 1 .. Len(G), G[k].kind = "event"
      PROVE  G[k].seq > from
  BY <1>1, <1>3 DEF Newer
<1> QED BY <1>2, <1>3 DEF Ascending, Newer

\* New frames E behind H, whose numbers go up to c.
LEMMA AppendOnce ==
    ASSUME MaxSeq \in Nat, NEW H \in Seq(Frame), NEW E \in Seq(Frame), NEW c \in Nat,
           Ascending(H), Ascending(E), Numbers(H, c), Newer(E, c)
    PROVE  /\ H \o E \in Seq(Frame) /\ Ascending(H \o E)
           /\ \A from \in Nat : from <= c /\ Newer(H, from) => Newer(H \o E, from)
           /\ \A top \in Nat : c <= top /\ Numbers(E, top) => Numbers(H \o E, top)
<1> DEFINE K == H \o E
           a == Len(H)
           b == Len(E)
<1>1. /\ K \in Seq(Frame) /\ Len(K) = a + b /\ a \in Nat /\ b \in Nat
      /\ \A k \in 1 .. a + b : K[k] = IF k <= a THEN H[k] ELSE E[k - a]
  BY ConcatProperties, LenProperties
<1>2. /\ \A k \in 1 .. a : H[k] \in Frame /\ H[k].seq \in Nat
      /\ \A k \in 1 .. b : E[k] \in Frame /\ E[k].seq \in Nat
  <2>1. (\A k \in 1 .. a : H[k] \in Frame) /\ (\A k \in 1 .. b : E[k] \in Frame)
    BY ElementOfSeq
  <2>2. \A f \in Frame : f.seq \in Nat
    BY DEF Frame
  <2> QED BY <2>1, <2>2
<1> HIDE DEF K, a, b
<1>3. ASSUME NEW k \in 1 .. Len(K)
      PROVE  \/ k \in 1 .. a /\ K[k] = H[k]
             \/ k > a /\ k - a \in 1 .. b /\ K[k] = E[k - a]
  BY <1>1
<1>4. /\ \A k \in 1 .. a : H[k].seq <= c
      /\ \A k \in 1 .. b : E[k].kind = "event" => E[k].seq > c
  BY DEF Numbers, Newer, a, b
<1>5. ASSUME NEW j \in 1 .. Len(K), NEW k \in 1 .. Len(K), j < k, K[k].kind = "event"
      PROVE  K[j].seq < K[k].seq
  <2>1. CASE k \in 1 .. a /\ K[k] = H[k]
    <3>1. j \in 1 .. a /\ K[j] = H[j]
      BY <1>1, <1>3, <1>5, <2>1
    <3> QED BY <1>5, <2>1, <3>1 DEF Ascending, a
  <2>2. CASE k > a /\ k - a \in 1 .. b /\ K[k] = E[k - a]
    <3>1. E[k - a].seq > c /\ E[k - a].seq \in Nat
      BY <1>2, <1>4, <1>5, <2>2
    <3>2. CASE j \in 1 .. a /\ K[j] = H[j]
      <4>1. H[j].seq <= c /\ H[j].seq \in Nat
        BY <1>2, <1>4, <3>2
      <4> QED BY <2>2, <3>1, <3>2, <4>1
    <3>3. CASE j > a /\ j - a \in 1 .. b /\ K[j] = E[j - a]
      <4>1. j - a < k - a
        BY <1>1, <1>5
      <4>2. E[j - a].seq < E[k - a].seq
        BY <1>5, <2>2, <3>3, <4>1 DEF Ascending, b
      <4> QED BY <2>2, <3>3, <4>2
    <3> QED BY <1>3, <3>2, <3>3
  <2> QED BY <1>3, <2>1, <2>2
<1>6. ASSUME NEW from \in Nat, from <= c, Newer(H, from), NEW k \in 1 .. Len(K), K[k].kind = "event"
      PROVE  K[k].seq > from
  <2>1. CASE k \in 1 .. a /\ K[k] = H[k]
    BY <1>6, <2>1 DEF Newer, a
  <2>2. CASE k > a /\ k - a \in 1 .. b /\ K[k] = E[k - a]
    <3>1. E[k - a].seq > c /\ E[k - a].seq \in Nat
      BY <1>2, <1>4, <1>6, <2>2
    <3> QED BY <1>6, <2>2, <3>1
  <2> QED BY <1>3, <2>1, <2>2
<1>7. ASSUME NEW top \in Nat, c <= top, Numbers(E, top), NEW k \in 1 .. Len(K)
      PROVE  K[k].seq <= top
  <2>1. CASE k \in 1 .. a /\ K[k] = H[k]
    <3>1. H[k].seq <= c /\ H[k].seq \in Nat
      BY <1>2, <1>4, <2>1
    <3> QED BY <1>7, <2>1, <3>1
  <2>2. CASE k > a /\ k - a \in 1 .. b /\ K[k] = E[k - a]
    BY <1>7, <2>2 DEF Numbers, b
  <2> QED BY <1>3, <2>1, <2>2
<1>8. K \in Seq(Frame) /\ Ascending(K)
  BY <1>1, <1>5 DEF Ascending
<1>9. /\ \A from \in Nat : from <= c /\ Newer(H, from) => Newer(K, from)
      /\ \A top \in Nat : c <= top /\ Numbers(E, top) => Numbers(K, top)
  BY <1>6, <1>7 DEF Newer, Numbers
<1> QED BY <1>8, <1>9 DEF K

\* Frames that are newer than everything under way, sent behind it.
LEMMA SendOnce ==
    ASSUME MaxSeq \in Nat, NEW s, StreamOK(s), NEW frames \in Seq(Frame),
           NEW from \in Nat, NEW c \in Nat, NEW top \in Nat, from <= c, c <= top,
           Ascending(Sending(s)), Newer(Sending(s), from), Numbers(Sending(s), c),
           Ascending(frames), Newer(frames, c), Numbers(frames, top)
    PROVE  LET t == Send(s, frames)
           IN  /\ StreamOK(t) /\ t.cursor = s.cursor /\ t.replay = s.replay
               /\ Ascending(Sending(t)) /\ Newer(Sending(t), from) /\ Numbers(Sending(t), top)
<1> DEFINE t == Send(s, frames)
           K == Sending(s) \o frames
<1>1. StreamOK(t) /\ Within(Sending(t), K) /\ t.cursor = s.cursor /\ t.replay = s.replay
  BY SendFacts
<1>2. Sending(s) \in Seq(Frame) /\ Sending(t) \in Seq(Frame)
  BY <1>1, SendingFacts DEF StreamOK
<1>3. K \in Seq(Frame) /\ Ascending(K) /\ Newer(K, from) /\ Numbers(K, top)
  BY <1>2, AppendOnce
<1> HIDE DEF t, K
<1>4. Ascending(Sending(t)) /\ Newer(Sending(t), from)
  BY <1>1, <1>2, <1>3, WithinOnce
<1>5. Numbers(Sending(t), top)
  BY <1>1, <1>2, <1>3, WithinFacts DEF Numbers
<1> QED BY <1>1, <1>4, <1>5 DEF t

\* The events of a set, as frames.
LEMMA EventsOnce ==
    ASSUME MaxSeq \in Nat, NEW S \in SUBSET Seqs
    PROVE  /\ EventFrames(S) \in Seq(Frame) /\ Ascending(EventFrames(S))
           /\ \A c : (\A q \in S : q > c) => Newer(EventFrames(S), c)
           /\ \A top : (\A q \in S : q <= top) => Numbers(EventFrames(S), top)
<1>1. /\ EventFrames(S) \in Seq(Frame) /\ Ascending(EventFrames(S))
      /\ \A k \in 1 .. Len(EventFrames(S)) : EventFrames(S)[k].seq \in S
  BY EventFramesFacts
<1> QED BY <1>1 DEF Newer, Numbers

LEMMA EmitOnce ==
    ASSUME MaxSeq \in Nat, NEW s, StreamOK(s), NEW S \in SUBSET Seqs, NEW from \in Nat,
           from <= s.cursor,
           Ascending(Sending(s)), Newer(Sending(s), from), Numbers(Sending(s), s.cursor)
    PROVE  LET t == Emit(s, S)
           IN  /\ StreamOK(t) /\ t.replay = s.replay /\ s.cursor <= t.cursor
               /\ Ascending(Sending(t)) /\ Newer(Sending(t), from) /\ Numbers(Sending(t), t.cursor)
<1> DEFINE U == Unsent(s, S)
           u == Send(s, EventFrames(U))
           t == Emit(s, S)
           m == Max(S)
<1>1. s \in Stream /\ s.cursor \in Nat /\ s.cursor <= s.cursor
  BY DEF StreamOK, Stream
<1>2. CASE U = {}
  <2>1. t = s
    BY <1>2 DEF Emit
  <2> QED BY <1>1, <2>1
<1>3. CASE U # {}
  <2>1. m \in S /\ \A q \in S : q <= m
    <3>1. S \in SUBSET (0 .. MaxSeq) /\ S # {}
      BY <1>3 DEF Unsent, Seqs
    <3> QED BY <3>1, MaxFacts
  <2> HIDE DEF m
  <2>2. m \in Nat /\ m \in 0 .. MaxSeq
    BY <2>1 DEF Seqs
  <2>3. U \in SUBSET Seqs /\ (\A q \in U : q > s.cursor) /\ \A q \in U : q <= m
    BY <2>1 DEF Unsent
  <2>4. s.cursor <= m
    <3>1. PICK q \in S : q > s.cursor
      BY <1>3 DEF Unsent
    <3>2. q \in Nat /\ q <= m
      BY <2>1 DEF Seqs
    <3> QED BY <1>1, <2>2, <3>1, <3>2
  <2> HIDE DEF U
  <2>5. /\ EventFrames(U) \in Seq(Frame) /\ Ascending(EventFrames(U))
        /\ Newer(EventFrames(U), s.cursor) /\ Numbers(EventFrames(U), m)
    BY <2>3, EventsOnce
  <2>6. /\ StreamOK(u) /\ u.replay = s.replay
        /\ Ascending(Sending(u)) /\ Newer(Sending(u), from) /\ Numbers(Sending(u), m)
    BY <1>1, <2>2, <2>4, <2>5, SendOnce
  <2>7. t = [u EXCEPT !.cursor = m]
    BY <1>3 DEF Emit, U, m
  <2> HIDE DEF u, t
  <2>8. /\ t \in Stream /\ t.wire = u.wire /\ t.pending = u.pending /\ t.blocked = u.blocked
        /\ t.buffer = u.buffer /\ t.replay = u.replay /\ t.cursor = m
    BY <2>2, <2>6, <2>7 DEF StreamOK, Stream
  <2>9. StreamOK(t) /\ Sending(t) = Sending(u)
    BY <2>6, <2>8 DEF StreamOK, Sending
  <2> QED BY <2>4, <2>6, <2>8, <2>9 DEF t
<1> QED BY <1>2, <1>3

\* A stream s that sends nothing which a client at the cursor has.
OncePart(s) ==
    /\ Ascending(Sending(s)) /\ Newer(Sending(s), cursor)
    /\ s.state = "live" => cursor <= s.cursor /\ Numbers(Sending(s), s.cursor)

LEMMA OpenOnce ==
    ASSUME MaxSeq \in Nat, NEW F \in Seq(Frame), \A k \in 1 .. Len(F) : F[k] = Open
    PROVE  /\ Ascending(F) /\ \A from : Newer(F, from)
           /\ \A c \in Nat : Numbers(F, c)
<1>1. Open.kind # "event" /\ Open.seq = 0 /\ \A c \in Nat : 0 <= c
  BY FrameFacts
<1> QED BY <1>1 DEF Ascending, Newer, Numbers

\* The end of a replay.
LEMMA FinishedOnce ==
    ASSUME MaxSeq \in Nat, NEW n \in 0 .. MaxSeq, NEW A, NEW s, StreamPart(s, A, n),
           s.state = "replaying", cursor \in 0 .. n
    PROVE  OncePart(Finished(s))
<1> DEFINE through == Max(s.replay)
           B == {q \in s.buffer : q > through}
           E == EventFrames(B)
           frames == <<Reset(through)>> \o E
           sent == IF s.reset THEN Send(s, frames) ELSE Emit(s, s.replay \cup s.buffer)
           all == {cursor} \cup s.replay \cup s.buffer
           top == Max(all)
           end == Max({sent.cursor} \cup s.replay \cup s.buffer)
           t == Finished(s)
<1>1. /\ s \in Stream /\ StreamOK(s) /\ s.cursor = cursor /\ s.reset \in BOOLEAN /\ n \in Nat
      /\ Sending(s) \in Seq(Frame) /\ s.replay \cup s.buffer \subseteq 1 .. n
      /\ \A k \in 1 .. Len(Sending(s)) : Sending(s)[k] = Open
      /\ s.reset => \E m \in cursor .. n : s.replay = {m}
      /\ cursor \in Nat /\ cursor <= cursor
  <2>1. cursor \in Nat /\ cursor <= cursor /\ n \in Nat
    OBVIOUS
  <2>2. s \in Stream /\ StreamOK(s) /\ s.cursor = cursor /\ s.replay \cup s.buffer \subseteq 1 .. n
    BY DEF StreamPart, SentPart, ReplayPart, StreamOK
  <2>3. s.reset \in BOOLEAN /\ Sending(s) \in Seq(Frame)
    BY <2>2, SendingFacts DEF Stream
  <2> QED BY <2>1, <2>2, <2>3 DEF StreamPart, ReplayPart
<1>2. /\ Ascending(Sending(s)) /\ Newer(Sending(s), cursor) /\ Numbers(Sending(s), cursor)
  BY <1>1, OpenOnce
<1>3. /\ s.replay \cup s.buffer \in SUBSET Seqs /\ s.replay \cup s.buffer \in SUBSET (0 .. n)
  <2>1. \A q \in 1 .. n : q \in Seqs /\ q \in 0 .. n
    BY DEF Seqs
  <2> QED BY <1>1, <2>1
<1>4. /\ top \in 0 .. n /\ \A q \in all : q <= top
  <2>1. all \in SUBSET (0 .. n) /\ all # {}
    BY <1>3
  <2> HIDE DEF all
  <2> QED BY <1>1, <2>1, MaxFacts
<1>5. /\ StreamOK(sent) /\ sent.replay = s.replay /\ cursor <= sent.cursor /\ sent.cursor \in Nat
      /\ Ascending(Sending(sent)) /\ Newer(Sending(sent), cursor)
      /\ \/ Numbers(Sending(sent), sent.cursor)
         \/ sent.cursor = cursor /\ Numbers(Sending(sent), top)
  <2>1. CASE s.reset
    <3>1. PICK m \in cursor .. n : s.replay = {m}
      BY <1>1, <2>1
    <3>2. m \in Nat /\ cursor <= m /\ m \in 0 .. MaxSeq /\ m <= top
      <4>1. m \in Nat /\ cursor <= m /\ m \in 0 .. MaxSeq
        BY <1>1, <3>1
      <4>2. m \in all
        BY <3>1
      <4> QED BY <1>4, <4>1, <4>2
    <3>3. through = m
      BY <3>1, <3>2, OfOne
    <3>4. /\ B \in SUBSET Seqs /\ (\A q \in B : q > m) /\ \A q \in B : q <= top
      BY <1>3, <1>4, <3>3
    <3> HIDE DEF B, through, top
    <3>5. E \in Seq(Frame) /\ Ascending(E) /\ Newer(E, m) /\ Numbers(E, top)
      BY <3>4, EventsOnce
    <3> HIDE DEF E
    <3> DEFINE R == <<Reset(m)>>
    <3>6. /\ R \in Seq(Frame) /\ Len(R) = 1 /\ R[1] = Reset(m)
          /\ Reset(m).kind = "reset" /\ Reset(m).seq = m
      BY <3>2, FrameFacts
    <3> HIDE DEF R
    <3>7. Ascending(R) /\ Newer(R, cursor) /\ Numbers(R, m)
      BY <3>2, <3>6 DEF Ascending, Newer, Numbers
    <3>8. Newer(R, m) /\ m <= m
      BY <3>2, <3>6 DEF Newer
    <3>9. R \o E \in Seq(Frame) /\ Ascending(R \o E) /\ Newer(R \o E, cursor) /\ Numbers(R \o E, top)
      <4>1. top \in Nat
        BY <1>1, <1>4
      <4> QED BY <1>1, <3>2, <3>5, <3>6, <3>7, <4>1, AppendOnce
    <3>10. sent = Send(s, R \o E)
      BY <2>1, <3>3 DEF R
    <3>11. top \in Nat /\ cursor <= top
      BY <1>1, <1>4, <3>2
    <3> DEFINE frames2 == R \o E
    <3> HIDE DEF frames2, sent
    <3>12. /\ frames2 \in Seq(Frame) /\ Ascending(frames2) /\ Newer(frames2, cursor)
           /\ Numbers(frames2, top) /\ sent = Send(s, frames2)
      BY <3>9, <3>10 DEF frames2
    <3> QED BY <1>1, <1>2, <3>11, <3>12, SendOnce
  <2>2. CASE ~s.reset
    <3> DEFINE S == s.replay \cup s.buffer
    <3>1. S \in SUBSET Seqs /\ sent = Emit(s, S)
      BY <1>3, <2>2
    <3> HIDE DEF S, sent
    <3>2. /\ StreamOK(sent) /\ sent.replay = s.replay /\ s.cursor <= sent.cursor
          /\ Ascending(Sending(sent)) /\ Newer(Sending(sent), cursor)
          /\ Numbers(Sending(sent), sent.cursor)
      BY <1>1, <1>2, <3>1, EmitOnce
    <3>3. sent.cursor \in Nat
      BY <3>2 DEF StreamOK, Stream
    <3> QED BY <1>1, <3>2, <3>3
  <2> QED BY <1>1, <2>1, <2>2
<1>6. t = IF sent.state = "ended" THEN sent
          ELSE [sent EXCEPT !.state = "live", !.buffer = {}, !.replay = {}, !.reset = FALSE, !.cursor = end]
  BY <1>5 DEF Finished
<1>7. sent \in Stream /\ sent.cursor \in 0 .. MaxSeq
  BY <1>5 DEF StreamOK, Stream
<1> HIDE DEF sent, t
<1>8. CASE sent.state = "ended"
  BY <1>5, <1>6, <1>8 DEF OncePart, t
<1>9. CASE sent.state # "ended"
  <2>1. end \in 0 .. MaxSeq /\ \A q \in {sent.cursor} \cup s.replay \cup s.buffer : q <= end
    <3> DEFINE S == {sent.cursor} \cup s.replay \cup s.buffer
    <3>1. \A q \in 0 .. n : q \in 0 .. MaxSeq
      OBVIOUS
    <3>2. S \in SUBSET (0 .. MaxSeq) /\ S # {}
      BY <1>3, <1>7, <3>1
    <3> HIDE DEF S
    <3>3. Max(S) \in S /\ \A q \in S : q <= Max(S)
      BY <3>2, MaxFacts
    <3> QED BY <3>2, <3>3 DEF S
  <2>2. cursor <= end /\ Numbers(Sending(sent), end)
    <3>1. sent.cursor <= end /\ end \in Nat /\ Sending(sent) \in Seq(Frame)
      <4>1. sent.cursor \in {sent.cursor} \cup s.replay \cup s.buffer
        OBVIOUS
      <4>2. sent.cursor <= end /\ end \in Nat
        <5> HIDE DEF end
        <5> QED BY <2>1, <4>1
      <4>3. Sending(sent) \in Seq(Frame)
        BY <1>7, SendingFacts
      <4> QED BY <4>2, <4>3
    <3>2. \A k \in 1 .. Len(Sending(sent)) : Sending(sent)[k].seq \in Nat
      <4>1. \A f \in Frame : f.seq \in Nat
        BY DEF Frame
      <4> QED BY <3>1, <4>1, ElementOfSeq
    <3>3. cursor <= end
      BY <1>1, <1>5, <3>1
    <3>4. sent.cursor = cursor => top <= end
      <4>1. all # {} /\ all \in SUBSET (0 .. n)
        BY <1>3
      <4>2. top \in all
        <5> HIDE DEF all
        <5> QED BY <1>1, <4>1, MaxFacts
      <4> QED BY <2>1, <4>2
    <3> HIDE DEF end, top
    <3>5. top \in Nat
      BY <1>1, <1>4
    <3> QED BY <1>5, <3>1, <3>2, <3>3, <3>4, <3>5 DEF Numbers
  <2> HIDE DEF end
  <2>3. /\ t.wire = sent.wire /\ t.pending = sent.pending /\ t.cursor = end
    BY <1>6, <1>7, <1>9 DEF Stream
  <2>4. Sending(t) = Sending(sent)
    BY <2>3 DEF Sending
  <2> QED BY <1>5, <2>2, <2>3, <2>4 DEF OncePart, t
<1> QED BY <1>8, <1>9

Once == Feed /\ OnceInv

\* While a stream has not gone live, nothing but its opening is on the way.
LEMMA EarlyOnce ==
    ASSUME Feed, stream.state \in {"none", "connecting", "replaying"}
    PROVE  OnceInv
<1>1. MaxSeq \in Nat /\ Underway \in Seq(Frame) /\ \A k \in 1 .. Len(Underway) : Underway[k] = Open
  <2>1. MaxSeq \in Nat /\ Underway \in Seq(Frame)
    BY FeedParts
  <2>2. CASE stream.state = "none"
    <3>1. Underway = <<>>
      BY <2>2, EmptySeq, ConcatEmptySeq DEF Feed, FeedInv, Quiet, Underway, NoStream
    <3> QED BY <2>1, <3>1, EmptySeq
  <2>3. CASE stream.state \in {"connecting", "replaying"}
    BY <2>1, <2>3 DEF Feed, FeedInv, ReplayInv
  <2> QED BY <2>2, <2>3
<1>2. Ascending(Underway) /\ Newer(Underway, cursor)
  BY <1>1, OpenOnce
<1> QED BY <1>2 DEF OnceInv, Newer

\* The invariant, of the stream as a record.
LEMMA OnceParts ==
    ASSUME Feed
    PROVE  /\ OnceInv <=> OncePart(stream)
           /\ StreamOK(stream) /\ Sending(stream) \in Seq(Frame) /\ Sending(stream) = Underway
           /\ cursor \in Nat /\ MaxSeq \in Nat
<1>1. /\ StreamOK(stream) /\ Sending(stream) \in Seq(Frame) /\ Sending(stream) = Underway
      /\ cursor \in Nat /\ MaxSeq \in Nat
  BY FeedParts DEF StreamPart, SentPart
<1> QED BY <1>1 DEF OnceInv, OncePart, Newer, Numbers

\* The server changes the stream, and the client stays where it is.
LEMMA ServerOnce ==
    ASSUME UNCHANGED client, OncePart(stream')
    PROVE  OnceInv'
<1>1. Sending(stream') = Underway' /\ cursor' = cursor
  BY DEF Sending, Underway, client
<1> QED BY <1>1 DEF OncePart, OnceInv, Newer, Numbers

\* What a stream still sends once it has ended is a part of what it was sending.
LEMMA EndedOnce ==
    ASSUME Once, UNCHANGED client, StreamOK(stream'), stream'.state = "ended",
           Within(Sending(stream'), Sending(stream))
    PROVE  OnceInv'
<1>1. /\ Ascending(Sending(stream)) /\ Newer(Sending(stream), cursor)
      /\ Sending(stream) \in Seq(Frame) /\ Sending(stream') \in Seq(Frame)
  BY OnceParts, SendingFacts DEF Once, OncePart, StreamOK
<1>2. Ascending(Sending(stream')) /\ Newer(Sending(stream'), cursor)
  BY <1>1, WithinOnce
<1> QED BY <1>2, ServerOnce DEF OncePart

LEMMA PublishOnce ==
    ASSUME Once, NEW new \in 1 .. 2, NEW S \in SUBSET Seqs, Publish(new, S), Feed'
    PROVE  OnceInv'
<1>1. /\ OncePart(stream) /\ StreamOK(stream) /\ cursor \in Nat /\ MaxSeq \in Nat
      /\ stream' = ReceivePublished(stream, S) /\ UNCHANGED client
  BY OnceParts DEF Once, Publish
<1>2. CASE stream.state = "live"
  <2>1. stream' = Emit(stream, S)
    BY <1>1, <1>2 DEF ReceivePublished
  <2>2. cursor <= stream.cursor /\ Numbers(Sending(stream), stream.cursor)
    BY <1>1, <1>2 DEF OncePart
  <2>3. /\ StreamOK(stream') /\ stream.cursor <= stream'.cursor
        /\ Ascending(Sending(stream')) /\ Newer(Sending(stream'), cursor)
        /\ Numbers(Sending(stream'), stream'.cursor)
    BY <1>1, <2>1, <2>2, EmitOnce DEF OncePart
  <2>4. cursor <= stream'.cursor
    <3>1. stream.cursor \in Nat /\ stream'.cursor \in Nat
      BY <1>1, <2>3 DEF StreamOK, Stream
    <3> QED BY <1>1, <2>2, <2>3, <3>1
  <2> QED BY <1>1, <2>3, <2>4, ServerOnce DEF OncePart
<1>3. CASE stream'.state \in {"none", "connecting", "replaying"}
  <2>1. (Feed /\ stream.state \in {"none", "connecting", "replaying"} => OnceInv)'
    BY EarlyOnce, PTL
  <2> QED BY <1>3, <2>1
<1>4. CASE stream.state = "ended"
  <2>1. stream' = stream
    BY <1>1, <1>4 DEF ReceivePublished
  <2> QED BY <1>1, <2>1, ServerOnce
<1>5. CASE stream.state = "replaying" /\ stream' = Terminate(stream)
  <2>1. StreamOK(stream') /\ Within(Sending(stream'), Sending(stream)) /\ stream'.state = "ended"
    <3>1. /\ StreamOK(stream') /\ Within(Sending(stream'), Sending(stream))
          /\ stream' = [stream EXCEPT !.state = "ended", !.pending = <<>>, !.buffer = {},
                                      !.blocked = FALSE, !.wire = stream'.wire]
      BY <1>1, <1>5, TerminateFacts DEF StreamOK
    <3> QED BY <1>1, <3>1 DEF StreamOK, Stream
  <2> QED BY <1>1, <2>1, EndedOnce
<1>6. stream.state \in {"none", "connecting", "replaying", "live", "ended"}
  BY <1>1 DEF StreamOK, Stream
<1>7. CASE stream.state \in {"none", "connecting", "replaying"}
  <2>1. \/ stream' = Terminate(stream) /\ stream.state = "replaying"
        \/ stream'.state = stream.state
    <3>1. CASE stream.state # "replaying"
      BY <1>1, <1>7, <3>1 DEF ReceivePublished
    <3>2. CASE stream.state = "replaying"
      <4>1. ReceivePublished(stream, S) \in {[stream EXCEPT !.buffer = @ \cup S], Terminate(stream), stream}
        BY <3>2 DEF ReceivePublished
      <4>2. [stream EXCEPT !.buffer = @ \cup S].state = stream.state
        BY <1>1 DEF StreamOK, Stream
      <4> QED BY <1>1, <3>2, <4>1, <4>2
    <3> QED BY <3>1, <3>2
  <2> QED BY <1>3, <1>5, <1>7, <2>1
<1> QED BY <1>2, <1>4, <1>6, <1>7

LEMMA StreamOnce ==
    ASSUME Once, StreamNext \/ Break, Feed'
    PROVE  OnceInv'
<1>1. /\ OncePart(stream) /\ StreamOK(stream) /\ MaxSeq \in Nat /\ UNCHANGED client
      /\ StreamPart(stream, Published, last) /\ last \in 0 .. MaxSeq /\ cursor \in 0 .. last
  BY OnceParts, FeedParts DEF Once, StreamNext, Accept, FinishReplay, Drain, Break
<1>2. CASE Accept
  <2>1. stream'.state = "replaying"
    BY <1>1, <1>2 DEF Accept, StreamOK, Stream
  <2>2. (Feed /\ stream.state \in {"none", "connecting", "replaying"} => OnceInv)'
    BY EarlyOnce, PTL
  <2> QED BY <2>1, <2>2
<1>3. CASE FinishReplay
  <2>1. stream.state = "replaying" /\ stream' = Finished(stream)
    BY <1>3 DEF FinishReplay
  <2> QED BY <1>1, <2>1, FinishedOnce, ServerOnce
<1>4. CASE Drain
  <2>1. /\ Sending(stream') = Sending(stream) /\ stream'.state = stream.state
        /\ stream'.cursor = stream.cursor
    BY <1>1, <1>4, DrainFacts DEF Drain
  <2>2. OncePart(stream')
    BY <1>1, <2>1 DEF OncePart
  <2> QED BY <1>1, <2>2, ServerOnce
<1>5. CASE Break
  <2>1. StreamOK(stream') /\ Within(Sending(stream'), Sending(stream)) /\ stream'.state = "ended"
    BY <1>5, BreakFacts DEF Once
  <2> QED BY <1>1, <2>1, EndedOnce
<1> QED BY <1>2, <1>3, <1>4, <1>5 DEF StreamNext

\* The client takes the first frame, and with it what it carries.
LEMMA TakeOnce ==
    ASSUME Once, stream.wire # <<>>, stream' = Rest,
           cursor' = cursor \/ (cursor' = Underway[1].seq /\ Underway[1].kind \in {"event", "reset"})
    PROVE  OnceInv'
<1> DEFINE F == Underway
           G == Sending(Rest)
<1>1. /\ Ascending(F) /\ Newer(F, cursor) /\ F \in Seq(Frame)
      /\ stream.state = "live" => cursor <= stream.cursor /\ Numbers(F, stream.cursor)
  BY OnceParts DEF Once, OncePart
<1>2. /\ Rest.state = stream.state /\ Rest.cursor = stream.cursor
      /\ G \in Seq(Frame) /\ Len(F) = Len(G) + 1
      /\ \A k \in 1 .. Len(G) : G[k] = F[k + 1]
  BY RestFacts DEF Once
<1>3. Underway' = G
  BY DEF Underway, Sending
<1> HIDE DEF F, G
<1>4. /\ Len(G) \in Nat /\ 1 \in 1 .. Len(F)
      /\ \A k \in 1 .. Len(G) : k + 1 \in 1 .. Len(F) /\ 1 < k + 1
      /\ \A j, k \in 1 .. Len(G) : j < k => j + 1 < k + 1
  <2>1. Len(G) \in Nat
    BY <1>2, LenProperties
  <2> QED BY <1>2, <2>1
<1>5. Ascending(G)
  BY <1>1, <1>2, <1>4 DEF Ascending
<1>6. Newer(G, cursor')
  <2>1. CASE cursor' = cursor
    BY <1>1, <1>2, <1>4, <2>1 DEF Newer
  <2>2. CASE cursor' = F[1].seq
    <3>1. ASSUME NEW k \in 1 .. Len(G), G[k].kind = "event" PROVE G[k].seq > cursor'
      <4>1. F[k + 1].kind = "event" /\ F[k + 1] \in Frame /\ F[1] \in Frame
        BY <1>1, <1>2, <1>4, <3>1, ElementOfSeq
      <4>2. F[1].seq < F[k + 1].seq
        BY <1>1, <1>4, <4>1 DEF Ascending
      <4>3. F[1].seq \in Nat /\ F[k + 1].seq \in Nat
        BY <4>1 DEF Frame
      <4> QED BY <1>2, <2>2, <4>2, <4>3
    <3> QED BY <3>1 DEF Newer
  <2> QED BY <2>1, <2>2 DEF F
<1>7. stream.state = "live" => cursor' <= stream.cursor /\ Numbers(G, stream.cursor)
  BY <1>1, <1>2, <1>4 DEF Numbers, F
<1> QED BY <1>2, <1>3, <1>5, <1>6, <1>7 DEF OnceInv, Newer, Numbers

LEMMA ReceiveOnce ==
    ASSUME Once, ReceiveNotice \/ ReceiveReset \/ ApplyEvent
    PROVE  OnceInv'
<1>1. /\ stream.wire # <<>> /\ stream' = Rest
      /\ Underway[1] = Head(stream.wire) /\ Underway[1].seq \in 0 .. last
  BY FrameArrived DEF Once, ReceiveNotice, ReceiveReset, ApplyEvent
<1>2. cursor \in 0 .. last /\ store.through = cursor /\ last \in Nat
  BY FeedParts DEF Once
<1>3. cursor' = cursor \/ (cursor' = Underway[1].seq /\ Underway[1].kind \in {"event", "reset"})
  <2> DEFINE q == Underway[1].seq
  <2>1. Max({cursor, q}) \in {cursor, q} /\ Max({cursor, cursor}) = cursor
    <3> HIDE DEF q
    <3>1. q \in Int /\ cursor \in Int
      BY <1>1, <1>2 DEF q
    <3> QED BY <3>1, OfTwo
  <2>2. CASE ReceiveNotice
    BY <1>2, <2>1, <2>2 DEF ReceiveNotice, Seen
  <2>3. CASE ReceiveReset
    BY <1>1, <2>1, <2>3 DEF ReceiveReset, Seen, Arrived
  <2>4. CASE ApplyEvent
    BY <1>1, <2>1, <2>4 DEF ApplyEvent, Seen, Arrived
  <2> QED BY <2>2, <2>3, <2>4
<1> QED BY <1>1, <1>3, TakeOnce

\* A step leaves stream and cursor alone, or takes a frame, or begins anew.
LEMMA ClientOnce ==
    ASSUME Once, Feed',
           \/ RefuseEvent \/ MissItem \/ StreamEnds \/ Start \/ FetchNext
           \/ \E w \in Fetcher : FetchFails(w)
           \/ Reconnect \/ ResyncAgain \/ Hide \/ Show \/ Resume \/ Compact \/ UNCHANGED vars
    PROVE  OnceInv'
<1>1. \/ stream'.state \in {"none", "connecting"}
      \/ UNCHANGED <<stream, cursor>>
      \/ (RefuseEvent \/ MissItem) /\ stream' = Rest /\ cursor' = cursor
  <2>1. NoStream.state = "none" /\ \A from : Connecting(from).state = "connecting"
    BY DEF NoStream, Connecting
  <2>2. ASSUME NEW from, Connect(from)
        PROVE  stream'.state = "connecting" \/ (stream' = stream /\ ~visible')
    BY <2>1, <2>2 DEF Connect, Connecting
  <2>3. CASE RefuseEvent \/ MissItem
    BY <2>1, <2>3 DEF RefuseEvent, MissItem, RequestResync
  <2>4. CASE StreamEnds \/ Start \/ Hide \/ Compact \/ UNCHANGED vars
    BY <2>1, <2>4 DEF StreamEnds, Start, Hide, Compact, vars, client
  <2>5. CASE Reconnect \/ Show \/ Resume
    BY <2>2, <2>5 DEF Reconnect, Show, Resume
  <2>6. CASE ResyncAgain
    BY <2>1, <2>6 DEF ResyncAgain, RequestResync
  <2>7. ASSUME NEW w \in Fetcher, ReadSnapshot(w) \/ FetchFails(w)
        PROVE  UNCHANGED <<stream, cursor>>
    BY <2>7 DEF ReadSnapshot, FetchFails
  <2>8. ASSUME NEW w \in Fetcher, ReplaceFromSnapshot(w)
        PROVE  stream'.state \in {"none", "connecting"}
    <3>1. Connect(cursor') /\ visible' = visible
      BY <2>8 DEF ReplaceFromSnapshot
    <3>2. ~visible => stream = NoStream
      BY DEF Once, Feed, FeedInv, Quiet
    <3> QED BY <2>1, <2>2, <3>1, <3>2
  <2> QED BY <2>3, <2>4, <2>5, <2>6, <2>7, <2>8 DEF FetchNext
<1>2. CASE stream'.state \in {"none", "connecting"}
  <2>1. (Feed /\ stream.state \in {"none", "connecting", "replaying"} => OnceInv)'
    BY EarlyOnce, PTL
  <2> QED BY <1>2, <2>1
<1>3. CASE UNCHANGED <<stream, cursor>>
  BY <1>3 DEF Once, OnceInv, Ascending, Underway
<1>4. CASE (RefuseEvent \/ MissItem) /\ stream' = Rest /\ cursor' = cursor
  <2>1. stream.wire # <<>>
    BY <1>4 DEF RefuseEvent, MissItem, Arrived
  <2> QED BY <1>4, <2>1, TakeOnce
<1> QED BY <1>1, <1>2, <1>3, <1>4

\* The two invariants of the feed, the second resting on the first.
THEOREM OnceInvariance == Spec => []Once
<1>1. Init => Once
  <2>1. Init => Feed /\ stream.state = "none"
    BY FirstFeed DEF Init, NoStream
  <2> QED BY <2>1, EarlyOnce DEF Once
<1>2. Once /\ [Next]_vars => Once'
  <2> SUFFICES ASSUME Once, [Next]_vars
               PROVE  Once'
    OBVIOUS
  <2>1. Feed'
    BY FeedStep DEF Once
  <2>2. CASE PublishKnown \/ AppendEvent
    <3>1. PICK new \in 1 .. 2 : Publish(new, last + 1 .. last + new) \/ Publish(new, {last + 1})
      BY <2>2 DEF PublishKnown, AppendEvent
    <3>2. /\ last + 1 .. last + new \in SUBSET Seqs /\ {last + 1} \in SUBSET Seqs
      <4>1. last \in 0 .. MaxSeq /\ MaxSeq \in Nat /\ last + new <= MaxSeq
        BY <3>1, FeedParts DEF Once, Publish
      <4> QED BY <4>1 DEF Seqs
    <3>3. OnceInv'
      BY <2>1, <3>1, <3>2, PublishOnce
    <3> QED BY <2>1, <3>3 DEF Once
  <2>3. CASE StreamNext \/ Break
    BY <2>1, <2>3, StreamOnce DEF Once
  <2>4. CASE ReceiveNotice \/ ReceiveReset \/ ApplyEvent
    BY <2>1, <2>4, ReceiveOnce DEF Once
  <2> QED BY <2>1, <2>2, <2>3, <2>4, ClientOnce DEF Next, ReceiveNext, Once
<1> QED BY <1>1, <1>2, PTL DEF Spec

\* On one connection every event is sent at most once, in the order of its number,
\* and none that the client has: neither the end of a replay, nor the buffer behind
\* it, nor what is published next repeats one (emitAfterCursor, finishReplay).
THEOREM EventsComeOnce == Spec => []OnceInv
<1>1. Once => OnceInv
  BY DEF Once
<1> QED BY <1>1, OnceInvariance, PTL

LEMMA ApplyOnce ==
    ASSUME Once, ApplyEvent
    PROVE  store'.through = store.through + 1
<1> DEFINE q == Underway[1].seq
<1>1. /\ Underway[1] = Head(stream.wire) /\ Underway[1].kind = "event" /\ q \in 0 .. last
      /\ stream.wire # <<>>
  BY FrameArrived DEF Once, ApplyEvent
<1>2. /\ cursor \in 0 .. last /\ store.through = cursor /\ last \in Nat
      /\ store \in [through : 0 .. MaxSeq, gap : Gap]
  BY FeedParts, ClientTyped DEF Once
<1>3. 1 \in 1 .. Len(Underway)
  <2>1. Len(Underway) = Len(Sending(Rest)) + 1 /\ Len(Sending(Rest)) \in Nat
    BY <1>1, RestFacts, LenProperties DEF Once
  <2> QED BY <2>1
<1>4. q > cursor
  BY <1>1, <1>3 DEF Once, OnceInv
<1>5. /\ q <= store.through \/ q = store.through + 1
      /\ store' = [store EXCEPT !.through = Max({cursor, q})]
  BY <1>1, <1>2 DEF ApplyEvent, Follows
<1> HIDE DEF q
<1>6. q \in Int /\ cursor \in Int
  BY <1>1, <1>2
<1>7. q = cursor + 1 /\ Max({cursor, q}) = q
  <2>1. q = cursor + 1
    BY <1>2, <1>4, <1>5, <1>6
  <2> QED BY <1>4, <1>6, <2>1, OfTwo
<1> QED BY <1>2, <1>5, <1>7

\* Each event that the projection takes moves it by one: the provision for events
\* that it has already (the duplicate case of SessionProjectionStore.apply) is never
\* needed.
THEOREM EventsAreAppliedOnce ==
    Spec => [][ApplyEvent => store'.through = store.through + 1]_vars
<1>1. Once /\ [Next]_vars => [ApplyEvent => store'.through = store.through + 1]_vars
  BY ApplyOnce
<1> QED BY <1>1, OnceInvariance, PTL DEF Spec
=============================================================================
