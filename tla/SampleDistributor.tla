------------------------- MODULE SampleDistributor -------------------------
(***************************************************************************)
(* The producer-side transport of processed-transition envelopes:          *)
(* src/task/sample/sample_sender.{h,cpp}.  Three threads share its mutex:  *)
(* the producer (an RPC handler, the model watcher or the shutdown thread, *)
(* one at a time because each holds the runtime's own mutex or runs after  *)
(* it), the sender thread, and the thread that calls StopAndDrain.  One    *)
(* action is one critical section or one RPC.                              *)
(*                                                                         *)
(* Envelopes are the numbers 1, 2, 3, ... in the order in which the        *)
(* producer commits them.  The counters of GetSnapshot are kept here as    *)
(* the sets of envelopes they count.  Byte budget, latencies, attempt      *)
(* counters, back-off times and messages are left out.                     *)
(***************************************************************************)
EXTENDS Naturals, Sequences

CONSTANTS
  MaxEnvelopes,   \* bound: envelopes the producer ever commits
  MaxSet,         \* bound: envelopes in one transaction's set
  MaxQueue,       \* outbound_max_envelopes
  MaxAttempts,    \* max_attempts of one SendFront call
  MaxFaults       \* bound: unavailable answers the environment gives

ASSUME ConstantsAssumption ==
  /\ MaxEnvelopes \in Nat
  /\ MaxSet \in Nat
  /\ MaxQueue \in Nat \ {0}
  /\ MaxAttempts \in Nat \ {0}
  /\ MaxFaults \in Nat

VARIABLES
  \* guarded by mutex_
  accepting, ready, degraded, stopRequested, forceStop, recoveryActive,
  deliveryState, generation,
  queue,          \* queue_, as a sequence of envelopes
  unknown,        \* envelopes of queue_ with push_outcome_unknown set
  reserved,       \* reserved_items_
  reservedGeneration, sealed,
  accepted,       \* accepted_unique_envelopes_
  duplicate,      \* envelopes settled by a DUPLICATE answer
  dropped,        \* final_drop_unique_envelopes_
  unresolved,     \* unresolved_push_outcome_unknown_envelopes_
  \* threads
  holding,        \* the producer is between Reserve and Commit
  verdict,        \* what the producer's last call returned
  sender,         \* control state of the sender thread
  attempt,        \* attempts made by the current SendFront call
  wasDuplicate,   \* SendFront's "duplicate" result
  stopper,        \* control state of StopAndDrain
  \* the SamplePool and the network
  pool,           \* envelopes the pinned SamplePool instance took in
  late,           \* requests given up by the sender that may still arrive
  faults,         \* unavailable answers so far
  \* history
  committed,      \* number of envelopes ever committed
  unanswered,     \* envelopes with an attempt that was never answered
  outage          \* delivery left Healthy since the reservation was taken

lockVars == <<accepting, ready, degraded, stopRequested, forceStop,
              recoveryActive, deliveryState, generation>>
reserveVars == <<reserved, reservedGeneration, sealed, holding>>
countVars == <<accepted, duplicate, dropped, unresolved>>
senderVars == <<sender, attempt, wasDuplicate>>
poolVars == <<pool, late, faults, unanswered>>
vars == <<lockVars, queue, unknown, reserveVars, countVars, senderVars,
          stopper, poolVars, committed, verdict, outage>>

DeliveryStates == {"Starting", "Healthy", "TransientRetry", "TerminalFault",
                   "Draining", "Stopped"}
SenderStates == {"off", "wait", "poll", "send", "push", "healthy", "pop",
                 "transient", "rejected", "exit", "done"}
StopperStates == {"idle", "drain", "join", "stopped"}
Verdicts == {"none", "Reserved", "Sealed", "Committed",
             "RetryableUnavailable", "TerminalFault"}

-----------------------------------------------------------------------------
(* Helpers of the class.                                                   *)

\* SetDeliveryStateLocked: the generation changes with the state only.
SetDeliveryState(state) ==
  /\ deliveryState' = state
  /\ generation' = IF deliveryState = state THEN generation ELSE generation + 1
  /\ outage' = (outage \/ (holding /\ state # "Healthy"))

ClosedUnlessDraining ==
  degraded \/ deliveryState \in {"TerminalFault", "Stopped"}

\* MarkHealthy and MarkTransient do nothing in these states.
Closed == degraded \/ deliveryState \in {"TerminalFault", "Draining", "Stopped"}

MarkDegraded ==
  /\ degraded' = TRUE
  /\ ready' = FALSE
  /\ recoveryActive' = FALSE
  /\ SetDeliveryState("TerminalFault")
  /\ UNCHANGED <<accepting, stopRequested, forceStop>>

MarkHealthy ==
  \/ /\ Closed
     /\ UNCHANGED <<lockVars, outage>>
  \/ /\ ~Closed
     /\ ready' = TRUE
     /\ recoveryActive' = FALSE
     /\ SetDeliveryState("Healthy")
     /\ UNCHANGED <<accepting, degraded, stopRequested, forceStop>>

(* MarkTransient returns FALSE, and ends the sender thread, when delivery  *)
(* is closed or the recovery deadline has passed.  The deadline cannot     *)
(* have passed in the call that starts the recovery.                       *)
MarkTransient ==
  \/ /\ Closed
     /\ sender' = "exit"
     /\ UNCHANGED <<lockVars, outage>>
  \/ /\ ~Closed
     /\ ready' = FALSE
     /\ recoveryActive' = TRUE
     /\ SetDeliveryState("TransientRetry")
     /\ sender' = "wait"
     /\ UNCHANGED <<accepting, degraded, stopRequested, forceStop>>
  \/ /\ ~Closed
     /\ recoveryActive
     /\ ready' = FALSE
     /\ degraded' = TRUE
     /\ recoveryActive' = FALSE
     /\ SetDeliveryState("TerminalFault")
     /\ sender' = "exit"
     /\ UNCHANGED <<accepting, stopRequested, forceStop>>

ReleaseReservation ==
  /\ reserved' = <<>>
  /\ reservedGeneration' = 0
  /\ sealed' = FALSE
  /\ holding' = FALSE

\* The condition under which Reserve and Seal report a terminal fault.
NotAccepting ==
  \/ ~accepting \/ forceStop \/ degraded \/ ~ready
  \/ deliveryState \in {"TerminalFault", "Draining", "Stopped", "Starting"}

\* The mutants below stand for plausible errors in the definition after them.
HasCapacityOffByOne(n) == reserved = <<>> /\ Len(queue) + n <= MaxQueue + 1

HasCapacity(n) == reserved = <<>> /\ Len(queue) + n <= MaxQueue

DeliveryUnbrokenByState == deliveryState = "Healthy"

\* Delivery has been healthy ever since the reservation was taken.
DeliveryUnbroken ==
  deliveryState = "Healthy" /\ reservedGeneration = generation

\* queue_.front()
Front == Head(queue)

\* The envelopes of queue_.
Queued == {queue[i] : i \in 1 .. Len(queue)}

NothingUnresolved == {}

\* Envelopes left behind whose last attempt was not answered.
LeftUnresolved == Queued \cap unknown

-----------------------------------------------------------------------------
Init ==
  /\ accepting = FALSE /\ ready = FALSE /\ degraded = FALSE
  /\ stopRequested = FALSE /\ forceStop = FALSE /\ recoveryActive = FALSE
  /\ deliveryState = "Stopped"
  /\ generation = 0
  /\ queue = <<>>
  /\ unknown = {}
  /\ reserved = <<>> /\ reservedGeneration = 0 /\ sealed = FALSE
  /\ accepted = {} /\ duplicate = {} /\ dropped = {} /\ unresolved = {}
  /\ holding = FALSE
  /\ verdict = "none"
  /\ sender = "off" /\ attempt = 0 /\ wasDuplicate = FALSE
  /\ stopper = "idle"
  /\ pool = {} /\ late = {} /\ faults = 0
  /\ committed = 0
  /\ unanswered = {}
  /\ outage = FALSE

(* Start: the connection and the status probe succeed, the pool's identity *)
(* is pinned and the sender thread runs; or delivery is degraded for good. *)
Start ==
  /\ sender = "off" /\ stopper = "idle" /\ deliveryState = "Stopped"
  /\ ~degraded
  /\ \/ /\ accepting' = TRUE
        /\ ready' = TRUE
        /\ deliveryState' = "Healthy"
        /\ sender' = "wait"
        /\ UNCHANGED degraded
     \/ /\ degraded' = TRUE
        /\ deliveryState' = "TerminalFault"
        /\ UNCHANGED <<accepting, ready, sender>>
  /\ generation' = generation + 2
  /\ UNCHANGED <<stopRequested, forceStop, recoveryActive, queue, unknown,
                 reserveVars, countVars, attempt, wasDuplicate, stopper,
                 poolVars, committed, verdict, outage>>

-----------------------------------------------------------------------------
(* The producer: one transaction calls Reserve, then Seal, then Commit.    *)

\* The wait for space ended with room for the set and delivery healthy.
ReserveGranted(n) ==
  /\ ~NotAccepting
  /\ deliveryState = "Healthy"
  /\ HasCapacity(n)
  /\ reserved' = [i \in 1 .. n |-> committed + i]
  /\ reservedGeneration' = generation
  /\ sealed' = FALSE
  /\ holding' = TRUE
  /\ outage' = FALSE
  /\ verdict' = "Reserved"

\* The wait ended because delivery stopped accepting.
ReserveTerminal ==
  /\ NotAccepting
  /\ verdict' = "TerminalFault"
  /\ UNCHANGED <<reserveVars, outage>>

\* No room within enqueue_timeout_ms, or delivery is recovering.
ReserveUnavailable(n) ==
  /\ ~NotAccepting
  /\ deliveryState = "Healthy" => ~HasCapacity(n)
  /\ verdict' = "RetryableUnavailable"
  /\ UNCHANGED <<reserveVars, outage>>

ReserveEnqueueEnvelopeSet(n) ==
  /\ ~holding
  /\ stopper = "idle"
  /\ sender # "off"
  /\ committed + n <= MaxEnvelopes
  /\ ReserveGranted(n) \/ ReserveTerminal \/ ReserveUnavailable(n)
  /\ UNCHANGED <<lockVars, queue, unknown, countVars, senderVars, stopper,
                 poolVars, committed>>

\* Seal keeps the reservation only if delivery has been healthy throughout.
SealEnqueueEnvelopeSet ==
  /\ holding /\ ~sealed
  /\ \/ /\ NotAccepting
        /\ verdict' = "TerminalFault"
        /\ ReleaseReservation
     \/ /\ ~NotAccepting
        /\ ~DeliveryUnbroken
        /\ verdict' = "RetryableUnavailable"
        /\ ReleaseReservation
     \/ /\ ~NotAccepting
        /\ DeliveryUnbroken
        /\ verdict' = "Sealed"
        /\ sealed' = TRUE
        /\ UNCHANGED <<reserved, reservedGeneration, holding>>
  /\ UNCHANGED <<lockVars, queue, unknown, countVars, senderVars, stopper,
                 poolVars, committed, outage>>

\* A sealed set joins the queue whatever has happened to delivery since.
CommitEnqueueEnvelopeSet ==
  /\ holding /\ sealed
  /\ queue' = queue \o reserved
  /\ committed' = committed + Len(reserved)
  /\ ReleaseReservation
  /\ verdict' = "Committed"
  /\ UNCHANGED <<lockVars, unknown, countVars, senderVars, stopper, poolVars,
                 outage>>

-----------------------------------------------------------------------------
(* The sender thread.                                                      *)

SenderUnchanged == UNCHANGED <<reserveVars, committed, stopper, verdict>>

\* Top of SenderLoop: leave, poll the idle pool, or send the front.
SenderWake ==
  /\ sender = "wait"
  /\ LET leave == forceStop \/ (stopRequested /\ queue = <<>>) IN
     sender' = IF leave THEN "exit"
               ELSE IF queue = <<>> THEN "poll" ELSE "send"
  /\ attempt' = 0
  /\ SenderUnchanged
  /\ UNCHANGED <<lockVars, queue, unknown, countVars, wasDuplicate, poolVars,
                 outage>>

\* RefreshSamplePoolStatus: the pinned pool answers that it takes envelopes.
StatusHealthy ==
  /\ sender = "poll"
  /\ MarkHealthy
  /\ sender' = "wait"
  /\ SenderUnchanged
  /\ UNCHANGED <<queue, unknown, countVars, attempt, wasDuplicate, poolVars>>

\* RefreshSamplePoolStatus: the transport fails in a retryable way.
StatusUnavailable ==
  /\ sender = "poll"
  /\ faults < MaxFaults
  /\ faults' = faults + 1
  /\ MarkTransient
  /\ SenderUnchanged
  /\ UNCHANGED <<queue, unknown, countVars, attempt, wasDuplicate, pool, late,
                 unanswered>>

\* RefreshSamplePoolStatus: another status, or another pool identity.
StatusFault ==
  /\ sender = "poll"
  /\ MarkDegraded
  /\ sender' = "exit"
  /\ SenderUnchanged
  /\ UNCHANGED <<queue, unknown, countVars, attempt, wasDuplicate, poolVars>>

\* SendFront before an attempt; the outcome is unknown until it is answered.
SendAttempt ==
  /\ sender = "send"
  /\ \/ /\ forceStop
        /\ sender' = "rejected"
        /\ UNCHANGED <<unknown, attempt>>
     \/ /\ ~forceStop
        /\ sender' = "push"
        /\ attempt' = attempt + 1
        /\ unknown' = unknown \cup {Front}
  /\ SenderUnchanged
  /\ UNCHANGED <<lockVars, queue, countVars, wasDuplicate, poolVars, outage>>

PushUnchanged ==
  /\ SenderUnchanged
  /\ UNCHANGED <<lockVars, queue, countVars, attempt, outage>>

\* PUSH_RESULT_ACCEPTED, or DUPLICATE when the pool has the envelope already.
PushTaken ==
  /\ sender = "push"
  /\ wasDuplicate' = (Front \in pool)
  /\ pool' = pool \cup {Front}
  /\ unknown' = unknown \ {Front}
  /\ sender' = "healthy"
  /\ PushUnchanged
  /\ UNCHANGED <<late, faults, unanswered>>

PushRejectedCapacityCounts ==
  /\ sender = "push"
  /\ Front \notin pool
  /\ faults < MaxFaults
  /\ faults' = faults + 1
  /\ unknown' = unknown \ {Front}
  /\ sender' = "healthy"
  /\ PushUnchanged
  /\ UNCHANGED <<wasDuplicate, pool, late, unanswered>>

\* PUSH_RESULT_REJECTED_CAPACITY.
PushRejectedCapacity ==
  /\ sender = "push"
  /\ Front \notin pool
  /\ faults < MaxFaults
  /\ faults' = faults + 1
  /\ unknown' = unknown \ {Front}
  /\ sender' = "transient"
  /\ PushUnchanged
  /\ UNCHANGED <<wasDuplicate, pool, late, unanswered>>

(* A terminal rejection, an answer from another pool or for another        *)
(* envelope, or a status that is not retryable.                            *)
PushRejected ==
  /\ sender = "push"
  /\ unknown' = unknown \ {Front}
  /\ sender' = "rejected"
  /\ PushUnchanged
  /\ UNCHANGED <<wasDuplicate, poolVars>>

AttemptsExhausted == attempt >= MaxAttempts

(* A retryable status, the cancellation by StopAndDrain included: the      *)
(* request was lost, was taken in, or may still arrive.                    *)
PushUnanswered ==
  /\ sender = "push"
  /\ faults < MaxFaults \/ forceStop
  /\ faults' = IF faults < MaxFaults THEN faults + 1 ELSE faults
  /\ unanswered' = unanswered \cup {Front}
  /\ \/ UNCHANGED <<pool, late>>
     \/ pool' = pool \cup {Front} /\ UNCHANGED late
     \/ late' = late \cup {Front} /\ UNCHANGED pool
  /\ sender' = IF AttemptsExhausted THEN "transient" ELSE "send"
  /\ PushUnchanged
  /\ UNCHANGED <<unknown, wasDuplicate>>

\* A request the sender gave up reaches the pool.
LateArrival ==
  /\ \E e \in late : pool' = pool \cup {e} /\ late' = late \ {e}
  /\ SenderUnchanged
  /\ UNCHANGED <<lockVars, queue, unknown, countVars, senderVars, faults,
                 unanswered, outage>>

\* SendFront marks delivery healthy before it returns kCommitted.
SendCommitted ==
  /\ sender = "healthy"
  /\ MarkHealthy
  /\ sender' = "pop"
  /\ SenderUnchanged
  /\ UNCHANGED <<queue, unknown, countVars, attempt, wasDuplicate, poolVars>>

\* SenderLoop takes the settled envelope off the queue and counts it.
PopFront ==
  /\ sender = "pop"
  /\ queue' = Tail(queue)
  /\ accepted' = IF wasDuplicate THEN accepted ELSE accepted \cup {Front}
  /\ duplicate' = IF wasDuplicate THEN duplicate \cup {Front} ELSE duplicate
  /\ sender' = "wait"
  /\ SenderUnchanged
  /\ UNCHANGED <<lockVars, unknown, dropped, unresolved, attempt,
                 wasDuplicate, poolVars, outage>>

SendTransientGivesUp ==
  /\ sender = "transient"
  /\ sender' = "exit"
  /\ SenderUnchanged
  /\ UNCHANGED <<lockVars, outage, queue, unknown, countVars, attempt,
                 wasDuplicate, poolVars>>

SendTransient ==
  /\ sender = "transient"
  /\ \/ /\ forceStop
        /\ sender' = "exit"
        /\ UNCHANGED <<lockVars, outage>>
     \/ /\ ~forceStop
        /\ MarkTransient
  /\ SenderUnchanged
  /\ UNCHANGED <<queue, unknown, countVars, attempt, wasDuplicate, poolVars>>

SendRejected ==
  /\ sender = "rejected"
  /\ MarkDegraded
  /\ sender' = "exit"
  /\ SenderUnchanged
  /\ UNCHANGED <<queue, unknown, countVars, attempt, wasDuplicate, poolVars>>

\* End of SenderLoop.
SenderExit ==
  /\ sender = "exit"
  /\ sender' = "done"
  /\ ready' = FALSE
  /\ SetDeliveryState(IF deliveryState = "TerminalFault" THEN "TerminalFault"
                      ELSE "Stopped")
  /\ SenderUnchanged
  /\ UNCHANGED <<accepting, degraded, stopRequested, forceStop,
                 recoveryActive, queue, unknown, countVars, attempt,
                 wasDuplicate, poolVars>>

-----------------------------------------------------------------------------
(* StopAndDrain, called by BeginShutdown after its own transaction, when   *)
(* no handler can start another one.                                       *)

StopperUnchanged ==
  UNCHANGED <<senderVars, poolVars, committed, verdict>>

StopAndDrain ==
  /\ stopper = "idle" /\ ~holding
  /\ ReleaseReservation
  /\ accepting' = FALSE
  /\ \/ /\ sender = "off"
        /\ ready' = FALSE
        /\ SetDeliveryState(IF deliveryState = "TerminalFault"
                            THEN "TerminalFault" ELSE "Stopped")
        /\ stopper' = "stopped"
        /\ UNCHANGED stopRequested
     \/ /\ sender # "off"
        /\ stopRequested' = TRUE
        /\ SetDeliveryState(IF deliveryState = "TerminalFault"
                            THEN "TerminalFault" ELSE "Draining")
        /\ stopper' = "drain"
        /\ UNCHANGED ready
  /\ StopperUnchanged
  /\ UNCHANGED <<degraded, forceStop, recoveryActive, queue, unknown,
                 countVars>>

\* Wakes and waits again until the queue is empty, without a deadline.
DrainWaitsForever ==
  \/ /\ stopper = "drain" /\ queue = <<>>
     /\ stopper' = "join"
     /\ StopperUnchanged
     /\ UNCHANGED <<lockVars, queue, unknown, reserveVars, countVars, outage>>
  \/ stopper = "drain" /\ queue # <<>> /\ UNCHANGED vars

\* The queue is empty, or drain_timeout_ms passed and the RPC is cancelled.
DrainWaitEnds ==
  /\ stopper = "drain"
  /\ stopper' = "join"
  /\ forceStop' = (queue # <<>>)
  /\ StopperUnchanged
  /\ UNCHANGED <<accepting, ready, degraded, stopRequested, recoveryActive,
                 deliveryState, generation, queue, unknown, reserveVars,
                 countVars, outage>>

StopAfterJoinForgets ==
  /\ stopper = "join" /\ sender = "done"
  /\ stopper' = "stopped"
  /\ queue' = <<>>
  /\ unresolved' = unresolved \cup LeftUnresolved
  /\ dropped' = dropped \cup (Queued \ unknown)
  /\ unknown' = {}
  /\ StopperUnchanged
  /\ UNCHANGED <<lockVars, outage, accepted, duplicate, reserveVars>>

(* After the join: what is left in the queue is unresolved if its last     *)
(* attempt was not answered, and a final drop otherwise.                   *)
StopAfterJoin ==
  /\ stopper = "join" /\ sender = "done"
  /\ stopper' = "stopped"
  /\ queue' = <<>>
  /\ \/ /\ queue = <<>>
        /\ UNCHANGED <<lockVars, outage, countVars>>
     \/ /\ queue # <<>>
        /\ unresolved' = unresolved \cup LeftUnresolved
        /\ dropped' = dropped \cup (Queued \ unknown)
        /\ degraded' = TRUE
        /\ SetDeliveryState("TerminalFault")
        /\ UNCHANGED <<accepting, ready, stopRequested, forceStop,
                       recoveryActive, accepted, duplicate>>
  /\ unknown' = {}
  /\ StopperUnchanged
  /\ UNCHANGED reserveVars

-----------------------------------------------------------------------------
Producer ==
  \/ \E n \in 1 .. MaxSet : ReserveEnqueueEnvelopeSet(n)
  \/ SealEnqueueEnvelopeSet
  \/ CommitEnqueueEnvelopeSet

Rpc ==
  \/ StatusHealthy \/ StatusUnavailable \/ StatusFault
  \/ PushTaken \/ PushRejectedCapacity \/ PushRejected \/ PushUnanswered

Sender ==
  \/ SenderWake \/ SendAttempt \/ SendCommitted \/ PopFront
  \/ SendTransient \/ SendRejected \/ SenderExit

Stopper == StopAndDrain \/ DrainWaitEnds \/ StopAfterJoin

\* The process has stopped.
Finished == stopper = "stopped" /\ UNCHANGED vars

Next == Start \/ Producer \/ Rpc \/ Sender \/ LateArrival \/ Stopper \/ Finished

Spec == Init /\ [][Next]_vars

(* RPCs carry a deadline, the sender thread is scheduled, a handler that   *)
(* holds a reservation goes on, and StopAndDrain waits for a bounded time. *)
Fairness ==
  /\ WF_vars(Sender)
  /\ WF_vars(Rpc)
  /\ WF_vars(SealEnqueueEnvelopeSet \/ CommitEnqueueEnvelopeSet)
  /\ WF_vars(DrainWaitEnds)
  /\ WF_vars(StopAfterJoin)

FairSpec == Spec /\ Fairness

-----------------------------------------------------------------------------
Settled == accepted \cup duplicate

FlagsOK ==
  /\ accepting \in BOOLEAN /\ ready \in BOOLEAN /\ degraded \in BOOLEAN
  /\ stopRequested \in BOOLEAN /\ forceStop \in BOOLEAN
  /\ recoveryActive \in BOOLEAN
  /\ sealed \in BOOLEAN /\ holding \in BOOLEAN
  /\ wasDuplicate \in BOOLEAN /\ outage \in BOOLEAN

DataOK ==
  /\ deliveryState \in DeliveryStates
  /\ generation \in Nat /\ reservedGeneration \in Nat
  /\ queue \in Seq(Nat) /\ reserved \in Seq(Nat) /\ unknown \subseteq Nat
  /\ accepted \subseteq Nat /\ duplicate \subseteq Nat
  /\ dropped \subseteq Nat /\ unresolved \subseteq Nat
  /\ verdict \in Verdicts
  /\ sender \in SenderStates
  /\ attempt \in 0 .. MaxAttempts
  /\ stopper \in StopperStates
  /\ pool \subseteq Nat /\ late \subseteq Nat /\ unanswered \subseteq Nat
  /\ faults \in 0 .. MaxFaults
  /\ committed \in Nat

(* Every variable keeps its type; in particular one SendFront call makes   *)
(* at most max_attempts attempts (the loop in SendFront).                  *)
TypeOK == FlagsOK /\ DataOK

(* The outbound queue together with the reservation never exceeds          *)
(* outbound_max_envelopes, although the room is checked at Reserve and     *)
(* used at Commit, with the sender running in between.                     *)
QueueBound == Len(queue) + Len(reserved) <= MaxQueue

(* No envelope is lost silently or counted twice: a committed envelope is  *)
(* in the queue or in exactly one of the four counts of GetSnapshot, and   *)
(* what counts as accepted or duplicate is in the SamplePool.              *)
Accounting ==
  /\ 1 .. committed = Queued \cup Settled \cup dropped \cup unresolved
  /\ Queued \cap (Settled \cup dropped \cup unresolved) = {}
  /\ Settled \cap (dropped \cup unresolved) = {}
  /\ accepted \cap duplicate = {} /\ dropped \cap unresolved = {}
  /\ Settled \subseteq pool

(* The SamplePool holds a prefix of the committed envelopes at all times:  *)
(* retries, lost answers and late requests neither reorder nor skip one.   *)
PrefixDelivery ==
  \A e \in pool : e \in 1 .. committed /\ \A d \in 1 .. e : d \in pool

(* An envelope the pool holds is settled, still at the front of the queue, *)
(* reported unresolved, or was dropped after an attempt that was never     *)
(* answered; a drop after answered attempts only is a true loss.           *)
PoolAccounted ==
  \A e \in pool :
     \/ e \in Settled \cup unresolved
     \/ queue # <<>> /\ e = Front
     \/ e \in dropped \cap unanswered

(* BeginShutdown takes "not degraded" after StopAndDrain as proof that     *)
(* every committed envelope reached the SamplePool.                        *)
CleanStop ==
  stopper = "stopped" /\ ~degraded => 1 .. committed \subseteq Settled \cap pool

(* A seal is a promise, given only if delivery stayed healthy since the    *)
(* reservation, an outage that has already ended included, and then kept   *)
(* whatever the sender thread finds out in the meantime: the sealed set is *)
(* queued whole, because callers commit the session it was built from.     *)
SealIsSound ==
  [][/\ sealed' /\ ~sealed => ~outage
     /\ sealed /\ ~sealed' => queue' = queue \o reserved]_vars

(* A terminal fault is final, draining only ends, and a stopped sender is  *)
(* never healthy again: late answers cannot revive delivery.               *)
DeliveryNeverRevives ==
  [][/\ deliveryState = "TerminalFault" => deliveryState' = "TerminalFault"
     /\ deliveryState = "Draining" =>
          deliveryState' \in {"Draining", "Stopped", "TerminalFault"}
     /\ sender = "done" => deliveryState' # "Healthy"]_vars

(* A retryable outage is no terminal fault to the producer: while the      *)
(* distributor is still within its recovery budget, Reserve and Seal       *)
(* answer RetryableUnavailable (and the client is told to WAIT).           *)
TransientIsRetryable ==
  [][verdict' = "TerminalFault" /\ verdict # "TerminalFault"
       => deliveryState # "TransientRetry"]_vars

(* StopAndDrain returns, whatever the SamplePool does.                     *)
StopReturns == (stopper = "drain") ~> (stopper = "stopped")

(* A committed envelope is eventually settled, or the fault is reported.   *)
EnvelopeSettles ==
  \A e \in 1 .. MaxEnvelopes : (e \in Queued) ~> (e \in Settled \/ degraded)

-----------------------------------------------------------------------------
(* The inductive invariant behind Accounting, PrefixDelivery, QueueBound   *)
(* and the refinement.                                                     *)

\* The queue is the interval of the most recently committed envelopes.
QueueShape ==
  /\ Len(queue) <= committed
  /\ \A i \in 1 .. Len(queue) : queue[i] = committed - Len(queue) + i

\* A reservation holds the envelopes that would be committed next.
ReservationShape ==
  /\ holding => reserved # <<>> /\ stopper = "idle" /\ sender # "off"
  /\ ~holding => reserved = <<>> /\ ~sealed
  /\ \A i \in 1 .. Len(reserved) : reserved[i] = committed + i

\* The first k envelopes are settled; only the next one may be in the pool
\* or under way to it.
DeliveryShape ==
  \E k \in 0 .. committed :
    /\ Settled = 1 .. k
    /\ 1 .. k \subseteq pool
    /\ pool \cup late \subseteq 1 .. (k + 1)
    /\ pool \cup late \subseteq 1 .. committed
    /\ IF stopper = "stopped"
       THEN /\ queue = <<>>
            /\ dropped \cup unresolved = (k + 1) .. committed
            /\ ~degraded => k = committed
       ELSE k = committed - Len(queue) /\ dropped = {} /\ unresolved = {}

\* While SendFront runs there is a front; once answered, the pool has it.
SenderShape ==
  /\ sender = "off" => committed = 0 /\ stopper \in {"idle", "stopped"}
  /\ sender \in {"send", "push", "healthy", "pop", "transient", "rejected"}
       => queue # <<>>
  /\ sender \in {"healthy", "pop"} => Front \in pool
  /\ sender = "send" => attempt < MaxAttempts
  /\ stopper = "stopped" => sender \in {"off", "done"}

Disjointness == accepted \cap duplicate = {} /\ dropped \cap unresolved = {}

(* The control state of the sender, the numbering of queue and reservation *)
(* and the place of every envelope agree, after any interleaving of        *)
(* producer, sender, SamplePool and StopAndDrain.                          *)
IInv ==
  /\ QueueShape /\ ReservationShape /\ DeliveryShape /\ SenderShape
  /\ Disjointness /\ QueueBound

-----------------------------------------------------------------------------
\* What the class promises: see OrderedDelivery.
Delivery == INSTANCE OrderedDelivery WITH
  submitted <- committed, delivered <- pool, settled <- Settled,
  closed <- (stopper = "stopped"), lost <- dropped \cup unresolved

(* The detailed protocol implements in-order, exactly-once delivery with   *)
(* an honest account of what was lost.                                     *)
ImplementsOrderedDelivery == Delivery!Spec
=============================================================================
