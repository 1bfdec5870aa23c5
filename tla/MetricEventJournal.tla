------------------------ MODULE MetricEventJournal ------------------------
(***************************************************************************)
(* The bounded journal of metric facts and its one consumer:               *)
(* src/task/metrics/episode_metrics.{h,cpp}.  Facts are numbered 1, 2, ... *)
(* and evicted from the old end; the consumer fetches one batch at a time  *)
(* with Get and releases it with Ack.  Every RPC runs in a thread of its   *)
(* own; Get may wait with the mutex released, and the server goes on       *)
(* waiting when the consumer has given its call up and tries again.        *)
(*                                                                         *)
(* events_ is the interval oldest .. nextEvent - 1.  Sizes in bytes are    *)
(* left out: an eviction or a byte limit may cut anywhere.  Time is left   *)
(* out: the flush interval may have passed whenever it is looked at.       *)
(* Answers that change nothing (REJECTED, FINAL, an immediate WAIT) are    *)
(* stuttering steps.                                                       *)
(***************************************************************************)
EXTENDS Naturals

CONSTANTS
  Calls,          \* threads that can serve a Get at the same time
  MaxEvents,      \* bound: facts appended
  Capacity,       \* capacity_
  BatchMax,       \* max_events of a request
  MaxHeartbeats,  \* bound: heartbeats before the source is final
  MaxLost         \* bound: answers lost and calls given up

ASSUME ConstantsAssumption ==
  /\ MaxEvents \in Nat /\ MaxHeartbeats \in Nat /\ MaxLost \in Nat
  /\ Capacity \in Nat \ {0} /\ BatchMax \in Nat \ {0}

VARIABLES
  \* the journal
  nextEvent, oldest, nextBatch,
  committed,      \* committed_cursor_
  pending,        \* pending_batch_
  pinned,         \* consumer_ is set
  sourceFinal, finalEvent, finalAcked,
  waiting,        \* the calls inside Get's wait loop
  shutdown,       \* control state of the thread that shuts the source down
  \* the consumer
  cursor,         \* the cursor it sends
  held,           \* the batch it has received and not yet released
  live,           \* the call it is waiting for
  \* history and bounds
  delivered,      \* events of batches whose ACK was applied
  declaredLost,   \* events of gaps whose ACK was applied
  heartbeats, lost

journalVars == <<nextEvent, oldest, nextBatch, committed, pending, pinned,
                 sourceFinal, finalEvent, finalAcked>>
historyVars == <<delivered, declaredLost>>
vars == <<journalVars, waiting, shutdown, cursor, held, live, historyVars,
          heartbeats, lost>>

Cursors == [batch : Nat, event : Nat]
Kinds == {"events", "gap", "heartbeat"}
NoBatch == [seq |-> 0, kind |-> "none", first |-> 0, last |-> 0,
            final |-> FALSE]
Batches == [seq : Nat, kind : Kinds, first : Nat, last : Nat, final : BOOLEAN]
NoCall == "none"
ASSUME CallsAssumption == NoCall \notin Calls
ShutdownStates == {"running", "waiting", "settled", "timeout"}

-----------------------------------------------------------------------------
\* The mutants below stand for plausible errors in the definition after them.
NextRequestedInclusive == committed.event

\* The first event the consumer has not acknowledged.
NextRequested == committed.event + 1

HasGapIgnored == FALSE

\* That event has been evicted.
HasGap == NextRequested < oldest

\* Conditions of ReadyToSeal that hold whatever the time is.
MustSeal == sourceFinal \/ HasGap

BatchOfFinalAlways(kind, first, last) ==
  [seq |-> nextBatch, kind |-> kind, first |-> first, last |-> last,
   final |-> sourceFinal]

\* The next batch; final if it reaches the last event of a final source.
BatchOf(kind, first, last) ==
  [seq |-> nextBatch, kind |-> kind, first |-> first, last |-> last,
   final |-> /\ sourceFinal
             /\ finalEvent = (IF kind = "heartbeat" THEN committed.event
                              ELSE last)]

GapSkipsOldest == IF HasGap THEN {BatchOf("gap", NextRequested, oldest)} ELSE {}

\* The gap the next batch reports.
GapBatches == IF HasGap THEN {BatchOf("gap", NextRequested, oldest - 1)} ELSE {}

FirstAvailable == IF oldest < NextRequested THEN NextRequested ELSE oldest

\* The event batches the limits of a request allow.
EventBatches ==
  IF HasGap THEN {}
  ELSE {BatchOf("events", FirstAvailable, last) :
          last \in {e \in FirstAvailable .. (nextEvent - 1) :
                      e < FirstAvailable + BatchMax}}

\* A heartbeat says that there is nothing new.
HeartbeatBatches ==
  IF HasGap \/ FirstAvailable < nextEvent THEN {}
  ELSE {BatchOf("heartbeat", 0, 0)}

\* BuildPendingBatch replaces whatever batch is pending.
BuildPendingBatch ==
  /\ pending' \in GapBatches \cup EventBatches \cup HeartbeatBatches
  /\ nextBatch' = nextBatch + 1
  /\ IF pending'.kind = "heartbeat" /\ ~sourceFinal
     THEN heartbeats < MaxHeartbeats /\ heartbeats' = heartbeats + 1
     ELSE UNCHANGED heartbeats

-----------------------------------------------------------------------------
Init ==
  /\ nextEvent = 1 /\ oldest = 1 /\ nextBatch = 1
  /\ committed = [batch |-> 0, event |-> 0]
  /\ pending = NoBatch
  /\ pinned = FALSE
  /\ sourceFinal = FALSE /\ finalEvent = 0 /\ finalAcked = FALSE
  /\ waiting = {}
  /\ shutdown = "running"
  /\ cursor = [batch |-> 0, event |-> 0]
  /\ held = NoBatch
  /\ live = NoCall
  /\ delivered = {} /\ declaredLost = {}
  /\ heartbeats = 0 /\ lost = 0

(* AppendFact: events leave at the old end until the event capacity and    *)
(* the byte capacity hold again.                                           *)
AppendFact ==
  /\ ~sourceFinal
  /\ nextEvent <= MaxEvents
  /\ nextEvent' = nextEvent + 1
  /\ oldest' \in {o \in oldest .. (nextEvent + 1) : nextEvent + 1 - o <= Capacity}
  /\ UNCHANGED <<nextBatch, committed, pending, pinned, sourceFinal,
                 finalEvent, finalAcked, waiting, shutdown, cursor, held, live,
                 historyVars, heartbeats, lost>>

\* Finalize; the shutdown thread then waits for the final acknowledgement.
Finalize ==
  /\ ~sourceFinal
  /\ sourceFinal' = TRUE
  /\ finalEvent' = nextEvent - 1
  /\ shutdown' = "waiting"
  /\ UNCHANGED <<nextEvent, oldest, nextBatch, committed, pending, pinned,
                 finalAcked, waiting, cursor, held, live, historyVars,
                 heartbeats, lost>>

WaitForFinalAcknowledgement ==
  /\ shutdown = "waiting"
  /\ shutdown' = IF ~pinned \/ finalAcked THEN "settled" ELSE "timeout"
  /\ UNCHANGED <<journalVars, waiting, cursor, held, live, historyVars,
                 heartbeats, lost>>

(* The consumer starts a Get with its cursor, which the journal accepts.   *)
(* The first critical section answers at once, or goes to wait.            *)
GetStarts(c) ==
  /\ live = NoCall /\ held = NoBatch
  /\ c \notin waiting
  /\ cursor = committed
  /\ ~(sourceFinal /\ finalAcked /\ pending = NoBatch)
  /\ pinned' = TRUE

\* The answer reaches the consumer, or is lost.
Answered(batch) ==
  \/ held' = batch /\ UNCHANGED lost
  \/ lost < MaxLost /\ lost' = lost + 1 /\ UNCHANGED held

GetPending(c) ==
  /\ GetStarts(c)
  /\ pending # NoBatch
  /\ Answered(pending)
  /\ UNCHANGED <<nextEvent, oldest, nextBatch, committed, pending, sourceFinal,
                 finalEvent, finalAcked, waiting, shutdown, cursor, live,
                 historyVars, heartbeats>>

GetBuilds(c) ==
  /\ GetStarts(c)
  /\ pending = NoBatch
  /\ BuildPendingBatch
  /\ Answered(pending')
  /\ UNCHANGED <<nextEvent, oldest, committed, sourceFinal, finalEvent,
                 finalAcked, waiting, shutdown, cursor, live, historyVars>>

GetWaits(c) ==
  /\ GetStarts(c)
  /\ pending = NoBatch
  /\ ~MustSeal
  /\ waiting' = waiting \cup {c}
  /\ live' = c
  /\ UNCHANGED <<nextEvent, oldest, nextBatch, committed, pending, sourceFinal,
                 finalEvent, finalAcked, shutdown, cursor, held, historyVars,
                 heartbeats, lost>>

\* The consumer's deadline passes; the call goes on waiting in the server.
GetGivenUp ==
  /\ live # NoCall
  /\ lost < MaxLost
  /\ lost' = lost + 1
  /\ live' = NoCall
  /\ UNCHANGED <<journalVars, waiting, shutdown, cursor, held, historyVars,
                 heartbeats>>

\* Get after its wait: the pending batch and the cursor are not looked at.
GetWakes(c) ==
  /\ c \in waiting
  /\ waiting' = waiting \ {c}
  /\ live' = IF live = c THEN NoCall ELSE live
  /\ \/ /\ BuildPendingBatch
        /\ IF live = c THEN Answered(pending') ELSE UNCHANGED <<held, lost>>
     \/ /\ ~MustSeal
        /\ UNCHANGED <<pending, nextBatch, heartbeats, held, lost>>
  /\ UNCHANGED <<nextEvent, oldest, committed, pinned, sourceFinal, finalEvent,
                 finalAcked, shutdown, cursor, historyVars>>

\* The cursor with which the consumer acknowledges the batch it holds.
AckCursor ==
  [batch |-> held.seq,
   event |-> IF held.kind = "heartbeat" THEN cursor.event ELSE held.last]

\* The cursor identifies the pending batch and its last event.
AckMatches ==
  /\ pending # NoBatch
  /\ AckCursor.batch = pending.seq
  /\ AckCursor.event = (IF pending.kind = "heartbeat" THEN committed.event
                        ELSE pending.last)

\* The first event still in the journal after an ACK.
OldestAfterAck ==
  IF oldest <= AckCursor.event THEN AckCursor.event + 1 ELSE oldest

AckAppliedKeepsPending ==
  /\ held # NoBatch
  /\ AckCursor # committed
  /\ AckMatches
  /\ committed' = AckCursor
  /\ oldest' = OldestAfterAck
  /\ finalAcked' = (finalAcked \/ pending.final)
  /\ delivered' = delivered \cup
       (IF pending.kind = "events" THEN pending.first .. pending.last ELSE {})
  /\ declaredLost' = declaredLost \cup
       (IF pending.kind = "gap" THEN pending.first .. pending.last ELSE {})
  /\ \/ held' = NoBatch /\ cursor' = AckCursor /\ UNCHANGED lost
     \/ lost < MaxLost /\ lost' = lost + 1 /\ UNCHANGED <<held, cursor>>
  /\ UNCHANGED <<nextEvent, nextBatch, pending, pinned, sourceFinal, finalEvent,
                 waiting, shutdown, live, heartbeats>>

AckAppliedHeartbeatIgnored ==
  /\ held # NoBatch
  /\ AckCursor # committed
  /\ AckMatches
  /\ committed' = IF pending.kind = "heartbeat" THEN committed ELSE AckCursor
  /\ oldest' = OldestAfterAck
  /\ pending' = NoBatch
  /\ finalAcked' = (finalAcked \/ pending.final)
  /\ delivered' = delivered \cup
       (IF pending.kind = "events" THEN pending.first .. pending.last ELSE {})
  /\ declaredLost' = declaredLost \cup
       (IF pending.kind = "gap" THEN pending.first .. pending.last ELSE {})
  /\ \/ held' = NoBatch /\ cursor' = AckCursor /\ UNCHANGED lost
     \/ lost < MaxLost /\ lost' = lost + 1 /\ UNCHANGED <<held, cursor>>
  /\ UNCHANGED <<nextEvent, nextBatch, pinned, sourceFinal, finalEvent,
                 waiting, shutdown, live, heartbeats>>

\* APPLIED
AckApplied ==
  /\ held # NoBatch
  /\ AckCursor # committed
  /\ AckMatches
  /\ committed' = AckCursor
  /\ oldest' = OldestAfterAck
  /\ pending' = NoBatch
  /\ finalAcked' = (finalAcked \/ pending.final)
  /\ delivered' = delivered \cup
       (IF pending.kind = "events" THEN pending.first .. pending.last ELSE {})
  /\ declaredLost' = declaredLost \cup
       (IF pending.kind = "gap" THEN pending.first .. pending.last ELSE {})
  /\ \/ held' = NoBatch /\ cursor' = AckCursor /\ UNCHANGED lost
     \/ lost < MaxLost /\ lost' = lost + 1 /\ UNCHANGED <<held, cursor>>
  /\ UNCHANGED <<nextEvent, nextBatch, pinned, sourceFinal, finalEvent,
                 waiting, shutdown, live, heartbeats>>

\* ALREADY_APPLIED, after the answer to the first ACK was lost.
AckAlreadyApplied ==
  /\ held # NoBatch
  /\ AckCursor = committed
  /\ cursor' = AckCursor
  /\ held' = NoBatch
  /\ UNCHANGED <<journalVars, waiting, shutdown, live, historyVars, heartbeats,
                 lost>>

\* REJECTED_CURSOR; the consumer fetches again.
AckRejected ==
  /\ held # NoBatch
  /\ AckCursor # committed
  /\ ~AckMatches
  /\ held' = NoBatch
  /\ UNCHANGED <<journalVars, waiting, shutdown, cursor, live, historyVars,
                 heartbeats, lost>>

-----------------------------------------------------------------------------
Get(c) == GetPending(c) \/ GetBuilds(c) \/ GetWaits(c)

Ack == AckApplied \/ AckAlreadyApplied \/ AckRejected

Next ==
  \/ AppendFact \/ Finalize \/ WaitForFinalAcknowledgement
  \/ \E c \in Calls : Get(c) \/ GetWakes(c)
  \/ GetGivenUp
  \/ Ack

Spec == Init /\ [][Next]_vars

(* A call that waits is woken by Finalize and by its own deadline, and     *)
(* the consumer is one that keeps fetching and acknowledging.              *)
Fairness ==
  /\ WF_vars(\E c \in Calls : Get(c))
  /\ \A c \in Calls : WF_vars(GetWakes(c))
  /\ WF_vars(Ack)

FairSpec == Spec /\ Fairness

-----------------------------------------------------------------------------
\* Types of the journal, the calls under way, the consumer and the histories.
TypeOK ==
  /\ nextEvent \in Nat \ {0} /\ oldest \in 1 .. nextEvent
  /\ nextBatch \in Nat \ {0}
  /\ committed \in Cursors /\ cursor \in Cursors
  /\ pending \in Batches \cup {NoBatch} /\ held \in Batches \cup {NoBatch}
  /\ pinned \in BOOLEAN /\ sourceFinal \in BOOLEAN /\ finalAcked \in BOOLEAN
  /\ finalEvent \in Nat
  /\ waiting \subseteq Calls /\ live \in Calls \cup {NoCall}
  /\ shutdown \in ShutdownStates
  /\ delivered \subseteq Nat /\ declaredLost \subseteq Nat
  /\ heartbeats \in Nat /\ lost \in Nat

(* What the consumer has acknowledged is exactly the events up to the      *)
(* cursor, each one either delivered or declared lost and never both, in   *)
(* spite of lost answers, retries and calls that wait in parallel.         *)
AcknowledgedOnce ==
  /\ delivered \cup declaredLost = 1 .. committed.event
  /\ delivered \cap declaredLost = {}

(* An ACK never applies to events an earlier ACK has applied to.           *)
NoEventTwice ==
  [][committed' # committed =>
       /\ committed'.batch > committed.batch
       /\ (delivered' \ delivered) \cup (declaredLost' \ declaredLost)
            = (committed.event + 1) .. committed'.event]_vars

(* A gap reports only events that are gone, so that nothing the journal    *)
(* still has is skipped.                                                   *)
GapIsHonest ==
  /\ pending.kind = "gap" => pending.last < oldest
  /\ \A e \in declaredLost : e < oldest

(* The final batch is acknowledged only when everything the source ever    *)
(* appended is: BeginShutdown then reports the metrics as settled.         *)
FinalMeansComplete ==
  finalAcked => sourceFinal /\ committed.event = nextEvent - 1

(* After a lost answer the consumer's retried ACK is recognised: its own   *)
(* cursor is the journal's, or one ACK behind it that it still holds.      *)
ConsumerFollows ==
  cursor # committed => held # NoBatch /\ AckCursor = committed

(* The pending batch (pending_batch_) starts right after what is           *)
(* acknowledged, is numbered after it, and is final only if it is last.    *)
PendingShape ==
  \/ pending = NoBatch
  \/ /\ pending \in Batches
     /\ committed.batch < pending.seq /\ pending.seq < nextBatch
     /\ pending.kind # "heartbeat" =>
          /\ pending.first = committed.event + 1
          /\ pending.first <= pending.last /\ pending.last < nextEvent
     /\ pending.kind = "gap" => pending.last < oldest
     /\ pending.final =>
          /\ sourceFinal
          /\ nextEvent - 1 = (IF pending.kind = "heartbeat"
                             THEN committed.event ELSE pending.last)

(* The inductive invariant the proofs rest on: the journal's window, the   *)
(* committed cursor and the pending batch that Get built stay consistent   *)
(* through every append, eviction, fetch and acknowledgement.              *)
IInv ==
  /\ committed.batch < nextBatch
  /\ committed.event < oldest /\ oldest <= nextEvent
  /\ sourceFinal => finalEvent = nextEvent - 1
  /\ \A e \in declaredLost : e < oldest
  /\ PendingShape
  /\ AcknowledgedOnce
  /\ FinalMeansComplete

(* A consumer that keeps fetching and acknowledging gets the final batch   *)
(* acknowledged.                                                           *)
FinalDelivered == (sourceFinal /\ pinned) ~> finalAcked

(* "A retry with the same cursor returns the same batch identity until it  *)
(* is acknowledged or an explicit gap proves the requested event           *)
(* unavailable": a pending batch gives way to an ACK or to a gap only.     *)
SameBatchUntilAcknowledged ==
  [][pending # NoBatch /\ pending' # pending =>
       pending' = NoBatch \/ pending'.kind = "gap"]_vars
=============================================================================
