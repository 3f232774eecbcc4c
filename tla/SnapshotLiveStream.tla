-------------------------- MODULE SnapshotLiveStream --------------------------
(***************************************************************************)
(* A client's view of one subject (a thread, or the shell): the stream     *)
(* that makeCursorSafeSnapshotLiveStream builds for one subscription and   *)
(* the view its client keeps between subscriptions.  The engine's event    *)
(* stream is the reader ui of LogReader, which DomainEventStream           *)
(* implements.                                                             *)
(*                                                                         *)
(* The stream attaches to live events first, then either resumes from the  *)
(* client's cursor or loads a snapshot, replays the log up to a high water *)
(* read after the attachment, and continues with the live events above it. *)
(* Live events wait in a sliding buffer; a stream that lost one fails, and *)
(* its client subscribes again.                                            *)
(***************************************************************************)
EXTENDS LogReader, Sequences

CONSTANTS ui,            \* the reader of this subscription
          Subject,       \* the sequence numbers of the events about the subject
          Limit,         \* ORCHESTRATION_SNAPSHOT_REPLAY_LIMIT
          Capacity,      \* DEFAULT_LIVE_UI_STREAM_BUFFER_CAPACITY
          MaxSequence,   \* bound: events committed
          MaxPurges,     \* bound: purges
          MaxBreaks,     \* bound: lost connections, restarts and evictions
          None

ASSUME UiAssumption == ui \in Readers
ASSUME NoneAssumption == None \notin Int
ASSUME SizeAssumption == Limit \in Nat /\ Capacity \in Nat \ {0} /\ MaxSequence \in Nat

VARIABLES
  fence,        \* the snapshot sequence the projections support
  exists,       \* the subject has not been purged
  deleted,      \* its row has a deletedAt, never that of the shell
  phase,        \* how far the stream is
  resume,       \* resumeFromSequence
  snap, loaded, \* snapshotSequence, and the last event the snapshot contains, or None
  hw,           \* highWaterSequence
  at,           \* the last event replayed
  buffer,       \* the sliding buffer, oldest first
  lag,          \* ingressCount - egressCount
  lost,         \* the buffer has reported a drop and its source has failed
  chunk,        \* taken from the buffer, not counted as egress yet
  queue,        \* liveQueue and the event whose offer waits
  cursor, has,  \* the client: its resume cursor, the events its view contains
  again,        \* history: an event arrived at or below the cursor
  purges, breaks

logVars    == <<rows, last, published>>
startVars  == <<resume, snap, loaded, hw, at>>
liveVars   == <<buffer, lag, lost, chunk, queue>>
clientVars == <<cursor, has, again>>
boundVars  == <<purges, breaks>>
storeVars  == <<fence, exists, deleted>>
vars == <<readerVars, storeVars, phase, startVars, liveVars, clientVars, boundVars>>

Phases == {"off", "head", "check", "load", "loaded", "fenced", "replay", "live"}

Cursors == (0 .. MaxSequence) \cup {None}

TypeOK ==
  /\ last \in 0 .. MaxSequence /\ rows \subseteq 1 .. last
  /\ published \in 0 .. last
  /\ position \in [Readers -> Int] /\ position[ui] \in -1 .. published
  /\ fence \in 0 .. last /\ exists \in BOOLEAN /\ deleted \in BOOLEAN
  /\ phase \in Phases
  /\ resume \in Cursors /\ loaded \in Cursors
  /\ snap \in 0 .. MaxSequence /\ hw \in 0 .. MaxSequence /\ at \in 0 .. MaxSequence
  /\ buffer \in Seq(Subject) /\ chunk \in Seq(Subject) /\ queue \in Seq(Subject)
  /\ lag \in Nat /\ lost \in BOOLEAN
  /\ cursor \in Cursors /\ has \subseteq Subject /\ again \in BOOLEAN

Quiet == /\ buffer = <<>> /\ lag = 0 /\ lost = FALSE /\ chunk = <<>> /\ queue = <<>>

Unset == resume = None /\ snap = 0 /\ loaded = None /\ hw = 0 /\ at = 0

Init ==
  /\ ReaderInit
  /\ fence = 0 /\ exists = TRUE /\ deleted = FALSE
  /\ phase = "off" /\ Unset /\ Quiet
  /\ cursor = None /\ has = {} /\ again = FALSE
  /\ purges = 0 /\ breaks = 0

-----------------------------------------------------------------------------
(* The server *)

\* A command commits events and their hot projection in one transaction; one of them may
\* delete the subject, and a purged subject has no more events.
Commit ==
  /\ last' \in (last + 1) .. MaxSequence
  /\ exists \/ ((last + 1) .. last') \cap Subject = {}
  /\ \/ deleted' = deleted
     \/ deleted' = TRUE /\ ((last + 1) .. last') \cap Subject # {}
  /\ AppendRows
  /\ UNCHANGED <<fence, exists, phase, startVars, liveVars, clientVars, boundVars>>

Publish ==
  /\ published < last
  /\ Announce /\ published' > published
  /\ UNCHANGED <<storeVars, phase, startVars, liveVars, clientVars, boundVars>>

\* The projectors' cursors advance; the snapshot sequence is their minimum.
Project ==
  /\ fence' \in (fence + 1) .. last
  /\ UNCHANGED <<readerVars, exists, deleted, phase, startVars, liveVars, clientVars, boundVars>>

\* A deleted thread is purged, the subject or another one.
PurgeThread ==
  /\ purges < MaxPurges
  /\ purges' = purges + 1
  /\ Purge /\ rows' # rows
  /\ \/ deleted /\ rows' = rows \ Subject /\ exists' = FALSE
     \/ rows \ rows' \subseteq (1 .. last) \ Subject /\ exists' = exists
  /\ UNCHANGED <<fence, deleted, phase, startVars, liveVars, clientVars, breaks>>

HighWater(h) ==
  /\ \A r \in rows : r <= h
  /\ IF rows = {} THEN h = 0 ELSE h \in rows

-----------------------------------------------------------------------------
(* Live events *)

\* PubSub.sliding and Stream.buffer with the sliding strategy: the oldest entry goes.
Slide(s, e) == IF Len(s) < Capacity THEN Append(s, e) ELSE Append(Tail(s), e)

\* bufferLiveUiStream: the event is counted before it enters the buffer; when more are under
\* way than the buffer holds, onDroppedEvents fails the source.
LiveArrives ==
  /\ phase # "off" /\ ~lost
  /\ Receive(ui)
  /\ LET e == position'[ui]
     IN  IF e \notin Subject THEN UNCHANGED <<buffer, lag, lost>>
         ELSE /\ lag' = lag + 1
              /\ lost' = (lag + 1 > Capacity)
              /\ buffer' = IF lost' THEN buffer ELSE Slide(buffer, e)
  /\ UNCHANGED <<storeVars, phase, startVars, chunk, queue, clientVars, boundVars>>

\* The stream behind the buffer takes some of what it holds ...
PullChunk ==
  /\ chunk = <<>> /\ buffer # <<>>
  /\ \E n \in 1 .. Len(buffer) :
       /\ chunk' = SubSeq(buffer, 1, n)
       /\ buffer' = SubSeq(buffer, n + 1, Len(buffer))
  /\ UNCHANGED <<readerVars, storeVars, phase, startVars, lag, lost, queue, clientVars,
                 boundVars>>

\* ... and offers it, one event after the other, to the queue of one.
HandOver ==
  /\ chunk # <<>> /\ Len(queue) < 2
  /\ queue' = Append(queue, Head(chunk))
  /\ chunk' = Tail(chunk)
  /\ lag' = lag - 1
  /\ UNCHANGED <<readerVars, storeVars, phase, startVars, buffer, lost, clientVars,
                 boundVars>>

-----------------------------------------------------------------------------
(* The stream *)

\* The client subscribes: the live subscription is attached before anything is read.  The
\* shell never resumes; a thread stream resumes when the client has a cursor.
Subscribe ==
  /\ phase = "off"
  /\ Join(ui)
  /\ resume' \in {None, cursor}
  /\ phase' = IF resume' = None THEN "load" ELSE "head"
  /\ UNCHANGED <<storeVars, snap, loaded, hw, at, liveVars, clientVars, boundVars>>

ReadResumeHead ==
  /\ phase = "head"
  /\ phase' = "check"
  /\ \E h \in 0 .. last : HighWater(h) /\ hw' = h
  /\ UNCHANGED <<readerVars, storeVars, resume, snap, loaded, at, liveVars, clientVars,
                 boundVars>>

\* The subject must not be deleted, nor the cursor too old or ahead of the log.
CanResume == ~deleted /\ hw - resume \in 0 .. Limit

Resume ==
  /\ phase = "check"
  /\ CanResume
  /\ phase' = "replay"
  /\ at' = resume
  /\ UNCHANGED <<readerVars, storeVars, resume, snap, loaded, hw, liveVars, clientVars, boundVars>>

RefuseResume ==
  /\ phase = "check"
  /\ ~CanResume
  /\ phase' = "load"
  /\ hw' = 0
  /\ UNCHANGED <<readerVars, storeVars, resume, snap, loaded, at, liveVars, clientVars,
                 boundVars>>

\* One transaction reads the subject's rows, which every commit updates, and the projectors'
\* cursors, whose minimum is the snapshot sequence and may be behind the rows.  A deleted
\* thread is not found.
Load ==
  /\ phase = "load"
  /\ phase' = "loaded"
  /\ snap' = fence
  /\ loaded' = IF deleted THEN None ELSE last
  /\ UNCHANGED <<readerVars, storeVars, resume, hw, at, liveVars, clientVars, boundVars>>

ReadHead ==
  /\ phase = "loaded"
  /\ phase' = "fenced"
  /\ \E h \in 0 .. last : HighWater(h) /\ hw' = h
  /\ UNCHANGED <<readerVars, storeVars, resume, snap, loaded, at, liveVars, clientVars,
                 boundVars>>

\* The scope of the stream closes.
Close ==
  /\ Leave(ui)
  /\ phase' = "off"
  /\ resume' = None /\ snap' = 0 /\ loaded' = None /\ hw' = 0 /\ at' = 0
  /\ buffer' = <<>> /\ lag' = 0 /\ lost' = FALSE /\ chunk' = <<>> /\ queue' = <<>>

Behind == hw - snap > Limit

\* ORCHESTRATION_RESNAPSHOT_REQUIRED, or ORCHESTRATION_SNAPSHOT_STALLED when the fence did
\* not advance since the last demand: the client subscribes again, soon or slowly.
DemandResnapshot ==
  /\ phase = "fenced" /\ Behind
  /\ Close
  /\ UNCHANGED <<storeVars, clientVars, boundVars>>

\* THREAD_SNAPSHOT_NOT_FOUND
NotFound ==
  /\ phase = "fenced" /\ ~Behind /\ loaded = None
  /\ Close
  /\ UNCHANGED <<storeVars, clientVars, boundVars>>

StartAt(from) ==
  /\ phase = "fenced" /\ ~Behind /\ loaded # None
  /\ phase' = "replay"
  /\ cursor' = snap
  /\ has' = Subject \cap (1 .. loaded)
  /\ at' = from
  /\ UNCHANGED <<readerVars, storeVars, resume, snap, loaded, hw, liveVars, again, boundVars>>

StartAtHead == StartAt(hw)                                       \* (mutant)

\* The snapshot reaches the client and replaces its view.
Start == StartAt(snap)

\* The client applies an event above its cursor and drops any other.
Deliver(e) ==
  IF e > cursor THEN cursor' = e /\ has' = has \cup {e} /\ again' = again
                ELSE again' = TRUE /\ UNCHANGED <<cursor, has>>

Replayable(r) == r \in rows \cap Subject /\ at < r /\ r <= hw

ReplayNext ==
  /\ phase = "replay"
  /\ \E r \in rows :
       /\ Replayable(r) /\ \A q \in rows : Replayable(q) => r <= q
       /\ at' = r
       /\ Deliver(r)
  /\ UNCHANGED <<readerVars, storeVars, phase, resume, snap, loaded, hw, liveVars, boundVars>>

ReplayDone ==
  /\ phase = "replay"
  /\ \A r \in rows : ~Replayable(r)
  /\ phase' = "live"
  /\ UNCHANGED <<readerVars, storeVars, startVars, liveVars, clientVars, boundVars>>

LiveNext ==
  /\ phase = "live" /\ queue # <<>>
  /\ queue' = Tail(queue)
  /\ IF Head(queue) > hw THEN Deliver(Head(queue)) ELSE UNCHANGED clientVars
  /\ UNCHANGED <<readerVars, storeVars, phase, startVars, buffer, lag, lost, chunk, boundVars>>

DroppedForever == FALSE                                           \* (mutant)

\* The failure of the source follows what the buffer still held.
Dropped ==
  /\ phase = "live" /\ lost
  /\ buffer = <<>> /\ chunk = <<>> /\ queue = <<>>
  /\ Close
  /\ UNCHANGED <<storeVars, clientVars, boundVars>>

-----------------------------------------------------------------------------
(* Connections and the client's cache *)

Disconnect ==
  /\ breaks < MaxBreaks /\ breaks' = breaks + 1
  /\ phase # "off"
  /\ Close
  /\ UNCHANGED <<storeVars, clientVars, purges>>

\* The client drops the cached detail of an unsubscribed thread and its cursor with it.
Evict ==
  /\ breaks < MaxBreaks /\ breaks' = breaks + 1
  /\ phase = "off" /\ cursor # None
  /\ cursor' = None /\ has' = {}
  /\ UNCHANGED <<readerVars, storeVars, phase, startVars, liveVars, again, purges>>

\* A new server instance: the client drops its cursors.
Restart ==
  /\ breaks < MaxBreaks /\ breaks' = breaks + 1
  /\ Reset /\ HighWater(published')
  /\ phase' = "off"
  /\ resume' = None /\ snap' = 0 /\ loaded' = None /\ hw' = 0 /\ at' = 0
  /\ buffer' = <<>> /\ lag' = 0 /\ lost' = FALSE /\ chunk' = <<>> /\ queue' = <<>>
  /\ cursor' = None
  /\ UNCHANGED <<storeVars, has, again, purges>>

Flow == Subscribe \/ ReadResumeHead \/ Resume \/ RefuseResume \/ Load \/ ReadHead
        \/ DemandResnapshot \/ NotFound \/ Start \/ ReplayNext \/ ReplayDone \/ LiveNext
        \/ Dropped

Next == Commit \/ Publish \/ Project \/ PurgeThread
        \/ LiveArrives \/ PullChunk \/ HandOver
        \/ Flow
        \/ Disconnect \/ Evict \/ Restart

Spec == Init /\ [][Next]_vars

\* The fibers of the server run, the projectors catch up, the engine's stream is fair
\* (LogReader), and the client subscribes again whenever its stream ends.
FairSpec == Spec /\ WF_vars(Publish) /\ WF_vars(Project) /\ WF_vars(PullChunk)
            /\ WF_vars(HandOver) /\ WF_vars(Flow)
            /\ WF_vars(Due(ui) /\ LiveArrives)

-----------------------------------------------------------------------------
(* Properties *)

\* A cursor vouches for the view: every event about the subject up to the cursor that is
\* still in the log is in the view.  And replay and live events do not overlap: no event
\* arrives at or below the cursor the client has then, unless the subject was purged.
CursorVouches ==
  /\ cursor # None => \A r \in rows \cap Subject : r <= cursor => r \in has
  /\ exists => ~again

\* Every published event about the subject reaches the view, or is purged, or the subject
\* is deleted: a client whose stream broke before the deletion reached it finds no thread.
ViewCatchesUp ==
  \A r \in Subject : (r \in rows /\ r <= published) ~> (r \in has \/ r \notin rows \/ deleted)

=============================================================================
