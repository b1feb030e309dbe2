---------------------------- MODULE EventStream ----------------------------
(***************************************************************************)
(* The event feed of one chat session, from the rows of the Node server to *)
(* the projection in one browser tab: events are stored and published, the *)
(* server's stream replays what was stored and passes on what is published *)
(* meanwhile, within bounded buffers, and the client folds the events in   *)
(* the order of their numbers, reconnects, and fetches a snapshot when it  *)
(* misses one.                                                             *)
(*                                                                         *)
(* An action is one stretch of code without an await. An event is its      *)
(* number. A connection and the server's stream behind it are one record;  *)
(* what the server still does with a connection that the client has closed *)
(* reaches nobody.                                                         *)
(***************************************************************************)
EXTENDS Integers, FiniteSetsExt, SequencesExt

CONSTANTS
    Retention,    \* events that are replayed at most (eventRetentionLimit)
    BufferLimit,  \* events that wait for the end of a replay at most
    FrameLimit,   \* frames that wait for the socket at most
    SocketLimit,  \* frames that the socket and the network hold
    MaxSeq,       \* bound: events stored
    MaxFault      \* bound: lost connections, failed fetches, hidden pages, ...

ASSUME LimitAssumption == {Retention, BufferLimit, FrameLimit, SocketLimit} \subseteq Nat \ {0}
ASSUME BoundAssumption == MaxSeq \in Nat /\ MaxFault \in Nat

Seqs == 1 .. MaxSeq

VARIABLES
    last,         \* server: the number of the last event (last_event_seq)
    rows,         \* server: the events that are stored
    unpublished,  \* the events that were stored and not published
    stream,       \* the connection and the server's stream
    visible,      \* client: is the page shown?
    started,      \* client: did the first snapshot arrive?
    fetch,        \* client: the snapshots that it waits for
    timer,        \* client: the scheduled reconnection
    cursor,       \* client: where the next connection begins
    store,        \* client: what the projection holds, and its gap
    faults        \* the number of faults

events == <<last, rows, unpublished>>
client == <<visible, started, fetch, timer, cursor, store>>
vars == <<events, stream, client, faults>>

Frame == [kind : {"open", "event", "reset", "error"}, seq : 0 .. MaxSeq]
Open == [kind |-> "open", seq |-> 0]
Event(q) == [kind |-> "event", seq |-> q]
Reset(q) == [kind |-> "reset", seq |-> q]
Error == [kind |-> "error", seq |-> 0]

Stream == [state : {"none", "connecting", "replaying", "live", "ended"}, cursor : 0 .. MaxSeq,
           reset : BOOLEAN, replay : SUBSET Seqs, buffer : SUBSET Seqs,
           pending : Seq(Frame), blocked : BOOLEAN, wire : Seq(Frame)]
NoStream == [state |-> "none", cursor |-> 0, reset |-> FALSE, replay |-> {}, buffer |-> {},
             pending |-> <<>>, blocked |-> FALSE, wire |-> <<>>]

NoGap == [reason |-> "none", expected |-> 0, received |-> 0]
Gap == [reason : {"none", "sequence", "missing_item"}, expected : 0 .. MaxSeq, received : 0 .. MaxSeq]

\* Snapshots are fetched by start() and by a resynchronisation.
Fetcher == {"start", "resync"}
NoFetch == [at |-> "none", through |-> 0, later |-> FALSE]
Fetch == [at : {"none", "asked", "answered"}, through : 0 .. MaxSeq, later : BOOLEAN]

TypeOK ==
    /\ last \in 0 .. MaxSeq /\ rows \subseteq 1 .. last /\ unpublished \subseteq 1 .. last
    /\ stream \in Stream
    /\ Cardinality(stream.buffer) <= BufferLimit /\ Len(stream.pending) <= FrameLimit
    /\ visible \in BOOLEAN /\ started \in BOOLEAN
    /\ fetch \in [Fetcher -> Fetch]
    /\ timer \in {"none", "reopen", "resync"}
    /\ cursor \in 0 .. MaxSeq
    /\ store \in [through : 0 .. MaxSeq, gap : Gap]
    /\ faults \in 0 .. MaxFault

Init ==
    /\ last = 0 /\ rows = {} /\ unpublished = {}
    /\ stream = NoStream
    /\ visible \in BOOLEAN /\ started = FALSE
    /\ fetch = [w \in Fetcher |-> NoFetch]
    /\ timer = "none" /\ cursor = 0
    /\ store = [through |-> 0, gap |-> NoGap]
    /\ faults = 0

Faulty == faults < MaxFault /\ faults' = faults + 1

(***************************************************************************)
(* The server's stream: operators on its record.                           *)
(***************************************************************************)
\* terminateStream: what waits is dropped, and the error is the last frame.
Terminate(s) ==
    [s EXCEPT !.state = "ended", !.pending = <<>>, !.buffer = {}, !.blocked = FALSE,
              !.wire = Append(@, Error)]

\* BoundedSseWriter.send, frame by frame: the frame that fills the socket is still
\* written, the others wait, and one too many ends the stream.
Send(s, frames) ==
    LET room == IF s.blocked THEN 0 ELSE Max({1, SocketLimit - Len(s.wire)})
        written == SubSeq(frames, 1, Min({room, Len(frames)}))
        sent == [s EXCEPT !.wire = @ \o written,
                          !.pending = @ \o SubSeq(frames, room + 1, Len(frames)),
                          !.blocked = @ \/ Len(s.wire) + Len(written) >= SocketLimit]
    IN  IF Len(sent.pending) <= FrameLimit THEN sent ELSE Terminate(sent)

\* emitAfterCursor: the events S, each of them once.
Unsent(s, S) == {q \in S : q > s.cursor}

\* In the order of their numbers: the k-th is the one that k - 1 others precede.
Earlier(S, q) == {r \in S : r < q}

EventFrames(S) ==
    [k \in 1 .. Cardinality(S) |->
        Event(CHOOSE q \in S : Cardinality(Earlier(S, q)) = k - 1)]

Emit(s, S) ==
    IF Unsent(s, S) = {} THEN s
    ELSE [Send(s, EventFrames(Unsent(s, S))) EXCEPT !.cursor = Max(S)]

\* receiveEvent: what is published during a replay waits for its end.
ReceivePublished(s, S) ==
    CASE s.state = "live" -> Emit(s, S)
      [] s.state = "replaying" /\ Cardinality(s.buffer \cup S) <= BufferLimit -> [s EXCEPT !.buffer = @ \cup S]
      [] s.state = "replaying" /\ Cardinality(s.buffer \cup S) > BufferLimit -> Terminate(s)
      [] OTHER -> s

\* Mutant: what was published during the replay is forgotten at its end.
ReplayAlone(s) ==
    LET sent == IF s.reset THEN Send(s, <<Reset(Max(s.replay))>>) ELSE Emit(s, s.replay)
    IN  IF sent.state = "ended" THEN sent
        ELSE [sent EXCEPT !.state = "live", !.buffer = {}, !.replay = {}, !.reset = FALSE,
                          !.cursor = Max({@} \cup s.replay)]

\* The replay, or a snapshot in its place, and then what was buffered.
Finished(s) ==
    LET through == Max(s.replay)
        sent == IF s.reset THEN Send(s, <<Reset(through)>> \o EventFrames({q \in s.buffer : q > through}))
                ELSE Emit(s, s.replay \cup s.buffer)
    IN  IF sent.state = "ended" THEN sent
        ELSE [sent EXCEPT !.state = "live", !.buffer = {}, !.replay = {}, !.reset = FALSE,
                          !.cursor = Max({@} \cup s.replay \cup s.buffer)]

(***************************************************************************)
(* The server.                                                             *)
(***************************************************************************)
Publish(new, S) ==
    /\ last + new <= MaxSeq
    /\ last' = last + new
    /\ rows' = rows \cup (last + 1 .. last + new)
    /\ unpublished' = unpublished \cup ((last + 1 .. last + new) \ S)
    /\ stream' = ReceivePublished(stream, S)
    /\ UNCHANGED <<client, faults>>

\* publishKnown: an operation of the store, and all events that it appended.
PublishKnown == \E new \in 1 .. 2 : Publish(new, last + 1 .. last + new)

\* appendEvent: an event of the provider. The transaction may append another one
\* that is derived from it, which is not published.
AppendEvent == \E new \in 1 .. 2 : Publish(new, {last + 1})

\* Compaction removes rows that repeat an earlier one.
Compact ==
    /\ Faulty
    /\ \E r \in rows \ {1} : rows' = rows \ {r}
    /\ UNCHANGED <<last, unpublished, stream, client>>

Retained == Max({last - Retention + 1, IF rows = {} THEN 1 ELSE Min(rows)})

Contiguous(after, S) == S = after + 1 .. after + Cardinality(S)

\* readEvents: the events after the cursor, or that they have a gap.
After(after) == {r \in rows : r > after}

Accept ==
    /\ stream.state = "connecting"
    /\ LET stored == After(stream.cursor)
           gap == (last > 0 /\ stream.cursor < Retained - 1) \/ ~Contiguous(stream.cursor, stored)
       IN  stream' = [stream EXCEPT !.state = "replaying", !.reset = gap,
                                    !.replay = IF gap THEN {last} ELSE stored,
                                    !.wire = <<Open>>]
    /\ UNCHANGED <<events, client, faults>>

FinishReplay ==
    /\ stream.state = "replaying"
    /\ stream' = Finished(stream)
    /\ UNCHANGED <<events, client, faults>>

\* Mutant: a drained socket takes new frames, and those that wait keep waiting.
DrainNone ==
    /\ stream.blocked /\ Len(stream.wire) < SocketLimit
    /\ stream' = [stream EXCEPT !.blocked = FALSE]
    /\ UNCHANGED <<events, client, faults>>

\* handleDrain: the socket has room again.
Drain ==
    /\ stream.blocked /\ Len(stream.wire) < SocketLimit
    /\ LET some == Min({Len(stream.pending), SocketLimit - Len(stream.wire)})
       IN  stream' = [stream EXCEPT !.wire = @ \o SubSeq(stream.pending, 1, some),
                                    !.pending = SubSeq(@, some + 1, Len(@)),
                                    !.blocked = Len(stream.wire) + some >= SocketLimit]
    /\ UNCHANGED <<events, client, faults>>

\* The connection is lost, with what was on its way.
Break ==
    /\ Faulty
    /\ stream.state \in {"connecting", "replaying", "live"}
    /\ \E k \in 0 .. Len(stream.wire) :
         stream' = [NoStream EXCEPT !.state = "ended", !.wire = SubSeq(stream.wire, 1, k)]
    /\ UNCHANGED <<events, client>>

(***************************************************************************)
(* The client.                                                             *)
(***************************************************************************)

\* openEventStream: from the cursor, in place of the former connection.
Connect(from) ==
    IF visible' THEN /\ stream' = [NoStream EXCEPT !.state = "connecting", !.cursor = from]
                     /\ timer' = "none"
    ELSE UNCHANGED <<stream, timer>>

\* queueReconnect: only one reconnection is scheduled.
Schedule(what) == timer' = IF visible /\ timer = "none" THEN what ELSE timer

Resyncing == fetch["resync"].at # "none"

Ask(w) == fetch' = [fetch EXCEPT ![w] = [at |-> "asked", through |-> 0, later |-> started]]

\* Mutant: the connection stays open while the snapshot is fetched.
ResyncInPlace(s) ==
    /\ stream' = s
    /\ IF Resyncing THEN UNCHANGED <<fetch, timer>> ELSE Ask("resync") /\ timer' = "none"

\* requestSnapshotResync, after the frame was taken from the connection s.
RequestResync(s) ==
    IF Resyncing THEN /\ stream' = s
                      /\ UNCHANGED <<fetch, timer>>
    ELSE /\ stream' = NoStream
         /\ Ask("resync")
         /\ timer' = "none"

Start ==
    /\ ~started /\ fetch["start"].at = "none"
    /\ Ask("start")
    /\ UNCHANGED <<events, stream, visible, started, timer, cursor, store, faults>>

\* The server reads the snapshot; the answer is on its way.
ReadSnapshot(w) ==
    /\ fetch[w].at = "asked"
    /\ fetch' = [fetch EXCEPT ![w].at = "answered", ![w].through = last]
    /\ UNCHANGED <<events, stream, visible, started, timer, cursor, store, faults>>

ReplaceFromSnapshot(w) ==
    /\ fetch[w].at = "answered"
    /\ fetch' = [fetch EXCEPT ![w] = NoFetch]
    /\ started' = (started \/ w = "start")
    /\ store' = [through |-> fetch[w].through, gap |-> NoGap]
    /\ cursor' = fetch[w].through
    /\ UNCHANGED visible /\ Connect(cursor')
    /\ UNCHANGED <<events, faults>>

FetchFails(w) ==
    /\ Faulty
    /\ fetch[w].at # "none"
    /\ fetch' = [fetch EXCEPT ![w] = NoFetch]
    /\ IF w = "resync" THEN Schedule("resync") ELSE UNCHANGED timer
    /\ UNCHANGED <<events, stream, visible, started, cursor, store>>

Arrived(kind) == stream.wire # <<>> /\ Head(stream.wire).kind = kind
Rest == [stream EXCEPT !.wire = Tail(@)]
Seen(q) == cursor' = Max({cursor, q})

\* handleStreamOpen, and stream.error, which the server ends the stream with.
ReceiveNotice ==
    /\ Arrived("open") \/ Arrived("error")
    /\ stream' = Rest
    /\ IF Arrived("error") THEN Seen(store.through) ELSE UNCHANGED cursor
    /\ UNCHANGED <<events, visible, started, fetch, timer, store, faults>>

ReceiveReset ==
    /\ Arrived("reset")
    /\ stream' = Rest
    /\ store' = [through |-> Head(stream.wire).seq, gap |-> NoGap]
    /\ Seen(Head(stream.wire).seq)
    /\ UNCHANGED <<events, visible, started, fetch, timer, faults>>

Follows(q) == q = store.through + 1

ApplyEvent ==
    /\ Arrived("event")
    /\ LET q == Head(stream.wire).seq
       IN  /\ q <= store.through \/ (store.gap = NoGap /\ Follows(q))
           /\ store' = [store EXCEPT !.through = Max({@, q})]
           /\ Seen(q)
    /\ stream' = Rest
    /\ UNCHANGED <<events, visible, started, fetch, timer, faults>>

\* An event that is not the next one, or comes after such a one, is refused.
RefuseEvent ==
    /\ Arrived("event")
    /\ LET q == Head(stream.wire).seq
       IN  /\ q > store.through /\ (store.gap # NoGap \/ ~Follows(q))
           /\ store' = IF store.gap # NoGap THEN store
                       ELSE [store EXCEPT !.gap = [reason |-> "sequence", received |-> q,
                                                   expected |-> store.through + 1]]
    /\ RequestResync(Rest)
    /\ UNCHANGED <<events, visible, started, cursor, faults>>

\* A delta of an item that is on no page the client has loaded.
MissItem ==
    /\ Faulty
    /\ Arrived("event") /\ Follows(Head(stream.wire).seq) /\ store.gap = NoGap
    /\ store' = [store EXCEPT !.gap = [reason |-> "missing_item", received |-> store.through + 1,
                                       expected |-> store.through + 1]]
    /\ RequestResync(Rest)
    /\ UNCHANGED <<events, visible, started, cursor>>

\* handleStreamError.
StreamEnds ==
    /\ stream.state = "ended" /\ stream.wire = <<>>
    /\ stream' = NoStream
    /\ Schedule("reopen")
    /\ UNCHANGED <<events, visible, started, fetch, cursor, store, faults>>

Reconnect ==
    /\ timer = "reopen"
    /\ UNCHANGED visible /\ Connect(cursor)
    /\ UNCHANGED <<events, started, fetch, cursor, store, faults>>

ResyncAgain ==
    /\ timer = "resync"
    /\ IF Resyncing THEN timer' = "none" /\ UNCHANGED <<stream, fetch>>
       ELSE RequestResync(stream)
    /\ UNCHANGED <<events, visible, started, cursor, store, faults>>

\* setVisible: a hidden page does not observe; a page that is shown goes on.
Hide ==
    /\ Faulty
    /\ visible /\ visible' = FALSE
    /\ stream' = NoStream /\ timer' = "none"
    /\ UNCHANGED <<events, started, fetch, cursor, store>>

\* Mutant: a page that is shown again waits for something to happen.
ShowOnly ==
    /\ ~visible /\ visible' = TRUE
    /\ UNCHANGED <<events, stream, started, fetch, timer, cursor, store, faults>>

Show ==
    /\ ~visible /\ visible' = TRUE
    /\ IF Resyncing THEN UNCHANGED <<stream, timer>> ELSE Connect(cursor)
    /\ UNCHANGED <<events, started, fetch, cursor, store, faults>>

\* resumeEventStream: the network is back, or the page.
Resume ==
    /\ Faulty
    /\ visible /\ ~Resyncing
    /\ UNCHANGED visible /\ Connect(cursor)
    /\ UNCHANGED <<events, started, fetch, cursor, store>>

(***************************************************************************)
(* The specification.                                                      *)
(***************************************************************************)
StreamNext == Accept \/ FinishReplay \/ Drain

ReceiveNext == ReceiveNotice \/ ReceiveReset \/ ApplyEvent \/ RefuseEvent \/ StreamEnds

FetchNext == \E w \in Fetcher : ReadSnapshot(w) \/ ReplaceFromSnapshot(w)

Next ==
    \/ PublishKnown \/ AppendEvent \/ Compact
    \/ StreamNext \/ Break
    \/ ReceiveNext \/ MissItem
    \/ Start \/ FetchNext \/ \E w \in Fetcher : FetchFails(w)
    \/ Reconnect \/ ResyncAgain
    \/ Hide \/ Show \/ Resume

Spec == Init /\ [][Next]_vars

Fairness ==
    /\ WF_vars(StreamNext) /\ WF_vars(ReceiveNext) /\ WF_vars(FetchNext)
    /\ WF_vars(Reconnect \/ ResyncAgain)

FairSpec == Spec /\ Fairness

(***************************************************************************)
(* The invariant of the feed. Nothing that was published and is stored is  *)
(* missing between what the client holds and what the server has still to  *)
(* send: it is in the projection, or on its way before any later event, or *)
(* is replayed or buffered.                                                *)
(***************************************************************************)
Published == rows \ unpublished

\* The frames on their way to the client.
Underway == stream.wire \o stream.pending

Covers(f, p) == (f.kind = "event" /\ f.seq = p) \/ (f.kind = "reset" /\ f.seq >= p)

\* Before the k-th frame of F, the client with the projection st has event p, or
\* knows that it misses some, and no frame replaces its projection.
HasBefore(F, k, p, st) ==
    \/ p <= st.through
    \/ \E j \in 1 .. k - 1 : Covers(F[j], p)
    \/ st.gap # NoGap /\ \A j \in 1 .. k - 1 : F[j].kind # "reset"

InSequence(F, A, st) ==
    \A k \in 1 .. Len(F) : F[k].kind = "event" =>
        \A p \in A : p < F[k].seq => HasBefore(F, k, p, st)

\* A snapshot in the stream is its first frame, and newer than the cursor.
ResetsFirst(F, from) ==
    \A k \in 1 .. Len(F) : F[k].kind = "reset" =>
        F[k].seq >= from /\ \A j \in 1 .. k - 1 : F[j] = Open

\* A stream replays from the cursor of the client, and has sent no event before.
ReplayInv ==
    /\ stream.state \in {"connecting", "replaying"} =>
         /\ stream.cursor = cursor
         /\ \A k \in 1 .. Len(Underway) : Underway[k] = Open
    /\ stream.state = "connecting" => stream.buffer = {}
    /\ stream.state = "replaying" =>
         /\ stream.reset => \E m \in cursor .. last : stream.replay = {m}
         /\ \A p \in Published :
              \/ p <= cursor
              \/ p \in stream.buffer
              \/ p \in stream.replay
              \/ stream.reset /\ \A m \in stream.replay : p <= m

\* A live stream has passed on everything.
LiveInv ==
    stream.state = "live" =>
        \A p \in Published : p <= stream.cursor /\ HasBefore(Underway, Len(Underway) + 1, p, store)

\* Nothing is numbered that is not stored, and what waits for a socket that has
\* room was sent.
Numbered ==
    /\ store.through = cursor /\ cursor <= last
    /\ stream.cursor <= last /\ stream.replay \cup stream.buffer \subseteq 1 .. last
    /\ \A k \in 1 .. Len(Underway) : Underway[k].seq <= last
    /\ \A w \in Fetcher : fetch[w].through <= last
    /\ store.gap.reason = "sequence" => store.gap.expected <= last
    /\ ~stream.blocked => stream.pending = <<>>

\* Nothing is received while a snapshot is fetched that was asked for after the
\* first one, nor by a hidden page.
Quiet ==
    /\ started => fetch["start"].at = "none"
    /\ ~fetch["start"].later
    /\ fetch["resync"].later =>
         /\ started /\ Resyncing
         /\ stream = NoStream /\ timer # "reopen"
         /\ fetch["resync"].at = "answered" => fetch["resync"].through >= cursor
    /\ ~visible => stream = NoStream /\ timer = "none"
    /\ stream.state = "none" => stream = NoStream

FeedInv ==
    /\ Numbered /\ Quiet /\ ReplayInv /\ LiveInv
    /\ InSequence(Underway, Published, store)
    /\ ResetsFirst(Underway, cursor)
    /\ store.gap.reason = "sequence" => store.gap.expected \notin Published

\* Events are on their way in the order of their numbers, behind what comes in
\* place of earlier ones.
Ascending(F) ==
    \A j, k \in 1 .. Len(F) : j < k /\ F[k].kind = "event" => F[j].seq < F[k].seq

\* A stream sends no event that the client has, nor one of them twice.
OnceInv ==
    /\ Ascending(Underway)
    /\ \A k \in 1 .. Len(Underway) : Underway[k].kind = "event" => Underway[k].seq > cursor
    /\ stream.state = "live" =>
         /\ cursor <= stream.cursor
         /\ \A k \in 1 .. Len(Underway) : Underway[k].seq <= stream.cursor

(***************************************************************************)
(* Properties.                                                             *)
(***************************************************************************)
\* The client finds a number missing only if that event was never published to
\* connected clients or is no longer stored: replay, buffer, socket and
\* reconnection lose nothing in between (finishReplay, BoundedSseWriter,
\* SessionProjectionStore.apply).
GapsExplained ==
    store.gap.reason = "sequence" =>
        store.gap.expected \in unpublished \/ store.gap.expected \notin rows

\* What the client shows never goes back, save for a snapshot that was asked for
\* before the first one had arrived: every later snapshot is fetched while no
\* stream is open, and one in the stream is newer than its cursor
\* (requestSnapshotResync closes the stream, emitSnapshotReset).
NeverBack ==
    [][\/ store'.through >= store.through
       \/ \E w \in Fetcher : fetch[w].at = "answered" /\ ~fetch[w].later]_vars

\* A page that is shown is connected, or fetches a snapshot, or has a
\* reconnection scheduled, whatever was closed, failed or hidden before
\* (queueReconnect, cancelScheduledReconnect, closeEventStream).
NeverDeaf ==
    started /\ visible => stream.state # "none" \/ Resyncing \/ timer # "none"

\* What was published reaches a page that stays shown, through full buffers, lost
\* connections, gaps and failed fetches.
CatchesUp ==
    \A p \in Seqs :
        (p \in rows \ unpublished /\ started /\ visible)
            ~> (store.through >= p \/ ~visible \/ p \notin rows)
=============================================================================
