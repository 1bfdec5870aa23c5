---------------------- MODULE SampleDistributorProofs ----------------------
(***************************************************************************)
(* Machine-checked proofs about SampleDistributor, for every value of its  *)
(* constants that satisfies ConstantsAssumption.                           *)
(***************************************************************************)
EXTENDS SampleDistributor, TLAPS

LEMMA InitTypeOK == Init => TypeOK
<1> SUFFICES ASSUME Init PROVE TypeOK
  OBVIOUS
<1>1. FlagsOK
  BY Zenon DEF Init, FlagsOK
<1>2. DataOK
  BY ConstantsAssumption
  DEF Init, DataOK, DeliveryStates, SenderStates, StopperStates, Verdicts
<1> QED
  BY <1>1, <1>2 DEF TypeOK

LEMMA InitIInv == Init => IInv
<1> SUFFICES ASSUME Init PROVE IInv
  OBVIOUS
<1>1. QueueShape /\ QueueBound
  BY ConstantsAssumption DEF Init, QueueShape, QueueBound
<1>2. ReservationShape
  BY DEF Init, ReservationShape
<1>3. DeliveryShape
  <2>1. /\ Settled = 1 .. 0 /\ pool \cup late = {} /\ committed = 0
        /\ stopper # "stopped" /\ Len(queue) = 0
        /\ dropped = {} /\ unresolved = {}
    BY DEF Init, Settled
  <2> QED
    BY <2>1 DEF DeliveryShape
<1>4. SenderShape /\ Disjointness
  BY DEF Init, SenderShape, Disjointness
<1> QED
  BY <1>1, <1>2, <1>3, <1>4 DEF IInv

(* The helpers of the class keep the flags they assign Boolean.            *)
LEMMA MarkFlags ==
  ASSUME FlagsOK, MarkHealthy \/ MarkTransient \/ MarkDegraded
  PROVE  /\ accepting' \in BOOLEAN /\ ready' \in BOOLEAN
         /\ degraded' \in BOOLEAN /\ stopRequested' \in BOOLEAN
         /\ forceStop' \in BOOLEAN /\ recoveryActive' \in BOOLEAN
         /\ outage' \in BOOLEAN
<1>1. CASE MarkHealthy
  BY <1>1, Zenon DEF FlagsOK, MarkHealthy, SetDeliveryState, lockVars
<1>2. CASE MarkTransient
  BY <1>2, Zenon DEF FlagsOK, MarkTransient, SetDeliveryState, lockVars
<1>3. CASE MarkDegraded
  BY <1>3, Zenon DEF FlagsOK, MarkDegraded, SetDeliveryState, lockVars
<1> QED
  BY <1>1, <1>2, <1>3

(* The flags stay Boolean.                                                 *)
LEMMA StepFlags == FlagsOK /\ [Next]_vars => FlagsOK'
<1> SUFFICES ASSUME FlagsOK, [Next]_vars PROVE FlagsOK'
  OBVIOUS
<1> USE DEF FlagsOK, lockVars, reserveVars, countVars, senderVars, poolVars,
            SenderUnchanged, PushUnchanged, StopperUnchanged
<1>1. CASE Start
  BY <1>1, Zenon DEF Start
<1>2. ASSUME NEW n \in 1 .. MaxSet, ReserveEnqueueEnvelopeSet(n) PROVE FlagsOK'
  BY <1>2, Zenon DEF ReserveEnqueueEnvelopeSet, ReserveGranted,
                     ReserveTerminal, ReserveUnavailable
<1>3. CASE SealEnqueueEnvelopeSet
  BY <1>3, Zenon DEF SealEnqueueEnvelopeSet, ReleaseReservation
<1>4. CASE CommitEnqueueEnvelopeSet
  BY <1>4, Zenon DEF CommitEnqueueEnvelopeSet, ReleaseReservation
<1>5. CASE StatusHealthy \/ StatusUnavailable \/ StatusFault
  BY <1>5, MarkFlags, Zenon DEF StatusHealthy, StatusUnavailable, StatusFault
<1>6. CASE PushTaken \/ PushRejectedCapacity \/ PushRejected \/ PushUnanswered
  <2>1. CASE PushTaken
    <3>1. wasDuplicate' \in BOOLEAN
      BY <2>1 DEF PushTaken
    <3> QED
      BY <2>1, <3>1, Zenon DEF PushTaken
  <2>2. CASE PushRejectedCapacity
    BY <2>2, Zenon DEF PushRejectedCapacity
  <2>3. CASE PushRejected
    BY <2>3, Zenon DEF PushRejected
  <2>4. CASE PushUnanswered
    BY <2>4, Zenon DEF PushUnanswered
  <2> QED
    BY <1>6, <2>1, <2>2, <2>3, <2>4, Zenon
<1>10. CASE SenderWake \/ SendAttempt \/ PopFront
  <2>1. CASE SenderWake
    BY <2>1, Zenon DEF SenderWake
  <2>2. CASE SendAttempt
    BY <2>2, Zenon DEF SendAttempt
  <2>3. CASE PopFront
    BY <2>3, Zenon DEF PopFront
  <2> QED
    BY <1>10, <2>1, <2>2, <2>3, Zenon
<1>11. CASE SendCommitted \/ SendRejected
  BY <1>11, MarkFlags, Zenon DEF SendCommitted, SendRejected
<1>12. CASE SendTransient
  BY <1>12, MarkFlags, Zenon DEF SendTransient
<1>13. CASE SenderExit
  BY <1>13, Zenon DEF SenderExit, SetDeliveryState
<1>7. CASE LateArrival
  BY <1>7, Zenon DEF LateArrival
<1>8. CASE Stopper
  <2>1. CASE StopAndDrain
    BY <2>1, Zenon DEF StopAndDrain, ReleaseReservation, SetDeliveryState
  <2>2. CASE DrainWaitEnds
    BY <2>2, Zenon DEF DrainWaitEnds, SetDeliveryState
  <2>3. CASE StopAfterJoin
    BY <2>3, Zenon DEF StopAfterJoin, SetDeliveryState
  <2> QED
    BY <1>8, <2>1, <2>2, <2>3, Zenon DEF Stopper
<1>9. CASE Finished \/ UNCHANGED vars
  BY <1>9, Zenon DEF Finished, vars
<1> QED
  BY <1>1, <1>2, <1>3, <1>4, <1>5, <1>6, <1>7, <1>8, <1>9, <1>10, <1>11,
     <1>12, <1>13, Zenon
  DEF Next, Producer, Rpc, Sender

(* While SendFront runs, the front of the queue is the envelope after the  *)
(* ones already taken off.                                                 *)
LEMMA FrontOfQueue ==
  ASSUME DataOK, IInv,
         sender \in {"send", "push", "healthy", "pop", "transient", "rejected"}
  PROVE  /\ queue # <<>> /\ Len(queue) \in Nat \ {0}
         /\ Front = committed - Len(queue) + 1
         /\ Front \in 1 .. committed
         /\ Tail(queue) \in Seq(Nat) /\ Len(Tail(queue)) = Len(queue) - 1
         /\ \A i \in 1 .. (Len(queue) - 1) :
               Tail(queue)[i] = committed - Len(queue) + 1 + i
<1>1. queue # <<>> /\ queue \in Seq(Nat) /\ Len(queue) \in Nat \ {0}
  BY DEF DataOK, IInv, SenderShape
<1>2. \A i \in 1 .. Len(queue) : queue[i] = committed - Len(queue) + i
  BY DEF IInv, QueueShape
<1>3. Len(queue) <= committed /\ committed \in Nat
  BY DEF IInv, QueueShape, DataOK
<1>4. Front = queue[1]
  BY <1>1 DEF Front
<1>5. Front = committed - Len(queue) + 1 /\ Front \in 1 .. committed
  BY <1>1, <1>2, <1>3, <1>4
<1>6. /\ Tail(queue) \in Seq(Nat) /\ Len(Tail(queue)) = Len(queue) - 1
      /\ \A i \in 1 .. (Len(queue) - 1) : Tail(queue)[i] = queue[i + 1]
  BY <1>1
<1> QED
  BY <1>1, <1>2, <1>3, <1>5, <1>6

(* The variables that are not flags keep their types.                      *)
LEMMA StepData == TypeOK /\ IInv /\ [Next]_vars => DataOK'
<1> SUFFICES ASSUME DataOK, IInv, [Next]_vars PROVE DataOK'
  BY DEF TypeOK
<1> USE ConstantsAssumption
    DEF DataOK, lockVars, reserveVars, countVars, senderVars, poolVars,
        SenderUnchanged, PushUnchanged, StopperUnchanged
<1>0. sender \in {"send", "push", "healthy", "pop", "transient", "rejected"}
         => Front \in Nat /\ Tail(queue) \in Seq(Nat)
  BY FrontOfQueue
<1>1. CASE Start
  BY <1>1 DEF Start, DeliveryStates, SenderStates
<1>2. ASSUME NEW n \in 1 .. MaxSet, ReserveEnqueueEnvelopeSet(n) PROVE DataOK'
  <2>1. CASE ReserveGranted(n)
    <3>1. reserved' \in Seq(Nat)
      BY <2>1 DEF ReserveGranted
    <3> QED
      BY <1>2, <2>1, <3>1
      DEF ReserveEnqueueEnvelopeSet, ReserveGranted, Verdicts
  <2>2. CASE ReserveTerminal \/ ReserveUnavailable(n)
    BY <1>2, <2>2 DEF ReserveEnqueueEnvelopeSet, ReserveTerminal,
                      ReserveUnavailable, Verdicts
  <2> QED
    BY <1>2, <2>1, <2>2 DEF ReserveEnqueueEnvelopeSet
<1>3. CASE SealEnqueueEnvelopeSet
  <2>1. CASE sealed' = TRUE
    BY <1>3, <2>1 DEF SealEnqueueEnvelopeSet, ReleaseReservation, Verdicts
  <2>2. CASE ReleaseReservation
    <3>1. verdict' \in Verdicts
      BY <1>3 DEF SealEnqueueEnvelopeSet, Verdicts
    <3>2. reserved' \in Seq(Nat) /\ reservedGeneration' \in Nat
      BY <2>2 DEF ReleaseReservation
    <3> QED
      BY <1>3, <3>1, <3>2 DEF SealEnqueueEnvelopeSet
  <2> QED
    BY <1>3, <2>1, <2>2, Zenon DEF SealEnqueueEnvelopeSet
<1>4. CASE CommitEnqueueEnvelopeSet
  BY <1>4 DEF CommitEnqueueEnvelopeSet, ReleaseReservation, Verdicts
<1>5. CASE StatusHealthy \/ StatusUnavailable \/ StatusFault
  <2>1. CASE StatusHealthy
    BY <2>1 DEF StatusHealthy, MarkHealthy, SetDeliveryState, DeliveryStates,
                SenderStates
  <2>2. CASE StatusUnavailable
    BY <2>2 DEF StatusUnavailable, MarkTransient, SetDeliveryState,
                DeliveryStates, SenderStates
  <2>3. CASE StatusFault
    BY <2>3 DEF StatusFault, MarkDegraded, SetDeliveryState, DeliveryStates,
                SenderStates
  <2> QED
    BY <1>5, <2>1, <2>2, <2>3
<1>6. CASE PushTaken \/ PushRejectedCapacity \/ PushRejected
  <2>1. CASE PushTaken
    <3>1. Front \in Nat
      BY <1>0, <2>1 DEF PushTaken
    <3> QED
      BY <2>1, <3>1 DEF PushTaken, SenderStates
  <2>2. CASE PushRejectedCapacity
    <3>1. Front \in Nat
      BY <1>0, <2>2 DEF PushRejectedCapacity
    <3> QED
      BY <2>2, <3>1 DEF PushRejectedCapacity, SenderStates
  <2>3. CASE PushRejected
    <3>1. Front \in Nat
      BY <1>0, <2>3 DEF PushRejected
    <3> QED
      BY <2>3, <3>1 DEF PushRejected, SenderStates
  <2> QED
    BY <1>6, <2>1, <2>2, <2>3
<1>7. CASE PushUnanswered
  <2>1. Front \in Nat
    BY <1>0, <1>7 DEF PushUnanswered
  <2>2. /\ faults' \in 0 .. MaxFaults /\ unanswered' \subseteq Nat
        /\ pool' \subseteq Nat /\ late' \subseteq Nat
        /\ sender' \in SenderStates
    <3>1. faults' \in 0 .. MaxFaults /\ unanswered' \subseteq Nat
      BY <1>7, <2>1 DEF PushUnanswered
    <3>2. pool' \subseteq Nat /\ late' \subseteq Nat
      BY <1>7, <2>1 DEF PushUnanswered
    <3>3. sender' \in SenderStates
      BY <1>7 DEF PushUnanswered, SenderStates
    <3> QED
      BY <3>1, <3>2, <3>3
  <2> QED
    BY <1>7, <2>2 DEF PushUnanswered
<1>8. CASE SenderWake \/ SendAttempt \/ PopFront
  <2>1. CASE SenderWake
    <3>1. sender' \in SenderStates
      BY <2>1 DEF SenderWake, SenderStates
    <3> QED
      BY <2>1, <3>1 DEF SenderWake
  <2>2. CASE SendAttempt
    <3>1. Front \in Nat /\ attempt < MaxAttempts
      BY <1>0, <2>2 DEF SendAttempt, IInv, SenderShape
    <3>2. unknown' \subseteq Nat
      BY <2>2, <3>1 DEF SendAttempt
    <3>3. attempt' \in 0 .. MaxAttempts
      BY <2>2, <3>1 DEF SendAttempt
    <3>4. sender' \in SenderStates
      BY <2>2 DEF SendAttempt, SenderStates
    <3> QED
      BY <2>2, <3>2, <3>3, <3>4 DEF SendAttempt
  <2>3. CASE PopFront
    BY <1>0, <2>3 DEF PopFront, SenderStates
  <2> QED
    BY <1>8, <2>1, <2>2, <2>3
<1>9. CASE SendCommitted \/ SendTransient \/ SendRejected \/ SenderExit
  <2>1. CASE SendCommitted
    BY <2>1 DEF SendCommitted, MarkHealthy, SetDeliveryState, DeliveryStates,
                SenderStates
  <2>2. CASE SendTransient
    BY <2>2 DEF SendTransient, MarkTransient, SetDeliveryState,
                DeliveryStates, SenderStates
  <2>3. CASE SendRejected
    BY <2>3 DEF SendRejected, MarkDegraded, SetDeliveryState, DeliveryStates,
                SenderStates
  <2>4. CASE SenderExit
    BY <2>4 DEF SenderExit, SetDeliveryState, DeliveryStates, SenderStates
  <2> QED
    BY <1>9, <2>1, <2>2, <2>3, <2>4
<1>10. CASE LateArrival
  BY <1>10 DEF LateArrival
<1>11. CASE StopAndDrain \/ DrainWaitEnds
  <2>1. CASE StopAndDrain
    <3>1. /\ deliveryState' \in DeliveryStates /\ generation' \in Nat
          /\ stopper' \in StopperStates
      BY <2>1 DEF StopAndDrain, SetDeliveryState, DeliveryStates, StopperStates
    <3> QED
      BY <2>1, <3>1 DEF StopAndDrain, ReleaseReservation
  <2>2. CASE DrainWaitEnds
    BY <2>2 DEF DrainWaitEnds, StopperStates
  <2> QED
    BY <1>11, <2>1, <2>2
<1>12. CASE StopAfterJoin
  <2>1. Queued \subseteq Nat
    BY DEF Queued
  <2> QED
    <3>1. /\ deliveryState' \in DeliveryStates /\ generation' \in Nat
          /\ stopper' \in StopperStates
      BY <1>12 DEF StopAfterJoin, SetDeliveryState, DeliveryStates, StopperStates
    <3>2. /\ dropped' \subseteq Nat /\ unresolved' \subseteq Nat
          /\ accepted' \subseteq Nat /\ duplicate' \subseteq Nat
      BY <1>12, <2>1 DEF StopAfterJoin, LeftUnresolved
    <3> QED
      BY <1>12, <3>1, <3>2 DEF StopAfterJoin
<1>13. CASE Finished \/ UNCHANGED vars
  BY <1>13 DEF Finished, vars
<1> QED
  BY <1>1, <1>2, <1>3, <1>4, <1>5, <1>6, <1>7, <1>8, <1>9, <1>10, <1>11,
     <1>12, <1>13
  DEF Next, Producer, Rpc, Sender, Stopper

-----------------------------------------------------------------------------
(* The envelopes in the queue are the ones after the settled ones.         *)
LEMMA QueuedInterval ==
  ASSUME DataOK, IInv
  PROVE  Queued = (committed - Len(queue) + 1) .. committed
<1>1. /\ Len(queue) \in Nat /\ committed \in Nat /\ Len(queue) <= committed
      /\ \A i \in 1 .. Len(queue) : queue[i] = committed - Len(queue) + i
  BY DEF DataOK, IInv, QueueShape
<1>2. ASSUME NEW e \in (committed - Len(queue) + 1) .. committed
      PROVE  e \in Queued
  <2>1. /\ e - (committed - Len(queue)) \in 1 .. Len(queue)
        /\ e = (committed - Len(queue)) + (e - (committed - Len(queue)))
    BY <1>1
  <2> QED
    BY <1>1, <2>1 DEF Queued
<1>3. ASSUME NEW e \in Queued
      PROVE  e \in (committed - Len(queue) + 1) .. committed
  <2>1. PICK i \in 1 .. Len(queue) : e = queue[i]
    BY DEF Queued
  <2> QED
    BY <1>1, <2>1
<1> QED
  BY <1>2, <1>3

(* A step of the sender thread or of an RPC that moves no envelope leaves  *)
(* every part of the invariant but SenderShape alone.                      *)
LEMMA NoEnvelopeMoved ==
  ASSUME DataOK, IInv, sender \notin {"off", "done"}, sender' # "off",
         UNCHANGED <<queue, committed, reserveVars, countVars, pool, late>>,
         stopper' = stopper
  PROVE  /\ QueueShape' /\ ReservationShape' /\ DeliveryShape'
         /\ Disjointness' /\ QueueBound'
<1> USE DEF reserveVars, countVars
<1>0. stopper # "stopped"
  BY DEF IInv, SenderShape
<1>1. QueueShape' /\ QueueBound' /\ Disjointness'
  BY DEF IInv, QueueShape, QueueBound, Disjointness
<1>2. ReservationShape'
  BY DEF IInv, ReservationShape
<1>3. DeliveryShape'
  BY <1>0 DEF IInv, DeliveryShape, Settled
<1> QED
  BY <1>1, <1>2, <1>3

(* What DeliveryShape says before StopAndDrain has returned: the settled   *)
(* envelopes are those before the front of the queue.                      *)
LEMMA BeforeStop ==
  ASSUME DataOK, IInv, stopper # "stopped"
  PROVE  LET k == committed - Len(queue) IN
         /\ k \in 0 .. committed
         /\ Settled = 1 .. k
         /\ 1 .. k \subseteq pool
         /\ pool \cup late \subseteq 1 .. (k + 1)
         /\ pool \cup late \subseteq 1 .. committed
         /\ dropped = {} /\ unresolved = {}
BY DEF IInv, DeliveryShape

(* The producer keeps the invariant: Commit appends the reserved numbers,   *)
(* which follow those of the queue.                                        *)
LEMMA ProducerIInv ==
  ASSUME TypeOK, IInv, Producer PROVE IInv'
<1> USE DEF lockVars, reserveVars, countVars, senderVars, poolVars
<1>0. DataOK
  BY DEF TypeOK
<1>1. ASSUME NEW n \in 1 .. MaxSet, ReserveEnqueueEnvelopeSet(n) PROVE IInv'
  <2>1. /\ UNCHANGED <<queue, committed, countVars, pool, late, stopper,
                       sender, attempt, degraded>>
        /\ ~holding /\ stopper = "idle" /\ sender # "off"
    BY <1>1 DEF ReserveEnqueueEnvelopeSet
  <2>2. QueueShape' /\ Disjointness'
    BY <2>1 DEF IInv, QueueShape, Disjointness
  <2>3. DeliveryShape'
    BY <2>1 DEF IInv, DeliveryShape, Settled
  <2>4. SenderShape'
    BY <2>1 DEF IInv, SenderShape, Front
  <2>5. CASE ReserveGranted(n)
    <3>1. /\ reserved' \in Seq(Nat) /\ Len(reserved') = n
          /\ \A i \in 1 .. n : reserved'[i] = committed + i
      BY <1>0, <2>5, ConstantsAssumption DEF ReserveGranted, DataOK
    <3>2. Len(queue) + n <= MaxQueue /\ holding'
      BY <2>5 DEF ReserveGranted, HasCapacity
    <3>3. QueueBound'
      BY <2>1, <3>1, <3>2 DEF QueueBound
    <3>4. reserved' # <<>>
      BY <3>1
    <3>5. ReservationShape'
      BY <2>1, <3>1, <3>2, <3>4 DEF ReservationShape
    <3> QED
      BY <2>2, <2>3, <2>4, <3>3, <3>5 DEF IInv
  <2>6. CASE ReserveTerminal \/ ReserveUnavailable(n)
    <3>1. UNCHANGED reserveVars
      BY <2>6 DEF ReserveTerminal, ReserveUnavailable
    <3>2. QueueBound' /\ ReservationShape'
      BY <2>1, <3>1 DEF IInv, QueueBound, ReservationShape
    <3> QED
      BY <2>2, <2>3, <2>4, <3>2 DEF IInv
  <2> QED
    BY <1>1, <2>5, <2>6 DEF ReserveEnqueueEnvelopeSet
<1>2. CASE SealEnqueueEnvelopeSet
  <2>1. /\ UNCHANGED <<queue, committed, countVars, pool, late, stopper,
                       sender, attempt, degraded>>
        /\ holding
    BY <1>2 DEF SealEnqueueEnvelopeSet
  <2>2. QueueShape' /\ Disjointness'
    BY <2>1 DEF IInv, QueueShape, Disjointness
  <2>3. DeliveryShape'
    BY <2>1 DEF IInv, DeliveryShape, Settled
  <2>4. SenderShape'
    BY <2>1 DEF IInv, SenderShape, Front
  <2>5. \/ UNCHANGED <<reserved, holding>>
        \/ reserved' = <<>> /\ ~holding' /\ ~sealed'
    BY <1>2 DEF SealEnqueueEnvelopeSet, ReleaseReservation
  <2>6. QueueBound'
    <3>1. Len(queue) + Len(reserved) <= MaxQueue
      BY DEF IInv, QueueBound
    <3>2. /\ Len(queue) \in Nat /\ Len(reserved) \in Nat /\ MaxQueue \in Nat
          /\ Len(<<>>) = 0
      BY <1>0, ConstantsAssumption DEF DataOK
    <3>3. queue' = queue /\ (reserved' = reserved \/ reserved' = <<>>)
      BY <2>1, <2>5
    <3> QED
      BY <3>1, <3>2, <3>3 DEF QueueBound
  <2>7. ReservationShape'
    <3>1. CASE UNCHANGED <<reserved, holding>>
      BY <2>1, <3>1 DEF IInv, ReservationShape
    <3>2. CASE reserved' = <<>> /\ ~holding' /\ ~sealed'
      BY <3>2 DEF ReservationShape
    <3> QED
      BY <2>5, <3>1, <3>2
  <2> QED
    BY <2>2, <2>3, <2>4, <2>6, <2>7 DEF IInv
<1>3. CASE CommitEnqueueEnvelopeSet
  <2>1. /\ UNCHANGED <<countVars, pool, late, stopper, sender, attempt,
                       degraded>>
        /\ holding /\ ~holding' /\ reserved' = <<>> /\ ~sealed'
        /\ queue' = queue \o reserved
        /\ committed' = committed + Len(reserved)
    BY <1>3 DEF CommitEnqueueEnvelopeSet, ReleaseReservation
  <2>2. /\ queue \in Seq(Nat) /\ reserved \in Seq(Nat) /\ committed \in Nat
        /\ Len(queue) \in Nat /\ Len(reserved) \in Nat
        /\ Len(queue') = Len(queue) + Len(reserved)
    BY <1>0, <2>1 DEF DataOK
  <2>3. stopper = "idle" /\ sender # "off" /\ reserved # <<>>
    BY <2>1 DEF IInv, ReservationShape
  <2>4. QueueShape'
    <3>1. \A i \in 1 .. Len(queue) : queue[i] = committed - Len(queue) + i
      BY DEF IInv, QueueShape
    <3>2. \A i \in 1 .. Len(reserved) : reserved[i] = committed + i
      BY DEF IInv, ReservationShape
    <3>3. ASSUME NEW i \in 1 .. Len(queue')
          PROVE  queue'[i] = committed' - Len(queue') + i
      <4>1. CASE i \in 1 .. Len(queue)
        BY <2>1, <2>2, <3>1, <4>1
      <4>2. CASE i \notin 1 .. Len(queue)
        <5>1. i - Len(queue) \in 1 .. Len(reserved)
          BY <2>2, <4>2
        <5>2. queue'[i] = reserved[i - Len(queue)]
          BY <2>1, <2>2, <4>2
        <5> QED
          BY <2>1, <2>2, <3>2, <5>1, <5>2
      <4> QED
        BY <4>1, <4>2
    <3>4. Len(queue') <= committed'
      BY <2>1, <2>2 DEF IInv, QueueShape
    <3> QED
      BY <3>3, <3>4 DEF QueueShape
  <2>5. ReservationShape'
    BY <2>1 DEF ReservationShape
  <2>6. DeliveryShape'
    <3> DEFINE k == committed - Len(queue)
    <3>1. /\ k \in 0 .. committed
          /\ Settled = 1 .. k
          /\ 1 .. k \subseteq pool
          /\ pool \cup late \subseteq 1 .. (k + 1)
          /\ pool \cup late \subseteq 1 .. committed
          /\ dropped = {} /\ unresolved = {}
      BY <1>0, <2>3, BeforeStop
    <3>2. k \in 0 .. committed' /\ k = committed' - Len(queue')
      BY <2>1, <2>2, <3>1
    <3>3. 1 .. committed \subseteq 1 .. committed'
      BY <2>1, <2>2
    <3>4. Settled' = Settled
      BY <2>1 DEF Settled
    <3> HIDE DEF k
    <3>5. /\ Settled' = 1 .. k /\ 1 .. k \subseteq pool'
          /\ pool' \cup late' \subseteq 1 .. (k + 1)
          /\ pool' \cup late' \subseteq 1 .. committed'
          /\ stopper' # "stopped" /\ dropped' = {} /\ unresolved' = {}
      BY <2>1, <2>3, <3>1, <3>3, <3>4
    <3> QED
      BY <3>2, <3>5 DEF DeliveryShape
  <2>7. SenderShape'
    <3>1. queue # <<>> => queue' # <<>> /\ Head(queue') = Head(queue)
      BY <2>1, <2>2
    <3> QED
      BY <2>1, <2>3, <3>1 DEF IInv, SenderShape, Front
  <2>8. Disjointness' /\ QueueBound'
    BY <2>1, <2>2 DEF IInv, Disjointness, QueueBound
  <2> QED
    BY <2>4, <2>5, <2>6, <2>7, <2>8 DEF IInv
<1> QED
  BY <1>1, <1>2, <1>3 DEF Producer

(* An RPC keeps the invariant: only the front of the queue can reach the   *)
(* pool, or be left under way to it.                                       *)
LEMMA RpcIInv ==
  ASSUME TypeOK, IInv, Rpc PROVE IInv'
<1> USE DEF lockVars, countVars, senderVars, poolVars, SenderUnchanged,
            PushUnchanged
<1>0. DataOK
  BY DEF TypeOK
<1>1. CASE StatusHealthy \/ StatusUnavailable \/ StatusFault
  <2>1. /\ sender = "poll" /\ sender' \in {"wait", "exit"}
        /\ UNCHANGED <<queue, committed, reserveVars, countVars, pool, late,
                       stopper, attempt>>
    BY <1>1 DEF StatusHealthy, StatusUnavailable, StatusFault, MarkTransient
  <2>2. SenderShape'
    BY <2>1 DEF IInv, SenderShape
  <2> QED
    BY <1>0, <2>1, <2>2, NoEnvelopeMoved DEF IInv
<1>2. CASE PushRejectedCapacity \/ PushRejected
  <2>1. /\ sender = "push" /\ sender' \in {"transient", "rejected"}
        /\ UNCHANGED <<queue, committed, reserveVars, countVars, pool, late,
                       stopper, attempt>>
    BY <1>2 DEF PushRejectedCapacity, PushRejected
  <2>2. SenderShape'
    BY <2>1 DEF IInv, SenderShape
  <2> QED
    BY <1>0, <2>1, <2>2, NoEnvelopeMoved DEF IInv
<1>3. CASE PushTaken \/ PushUnanswered
  <2>1. /\ sender = "push" /\ sender' \in {"healthy", "transient", "send"}
        /\ UNCHANGED <<queue, committed, reserveVars, countVars, stopper,
                       attempt>>
        /\ sender' = "healthy" => Front \in pool'
        /\ sender' = "send" => ~(attempt >= MaxAttempts)
    BY <1>3 DEF PushTaken, PushUnanswered, AttemptsExhausted
  <2>2. /\ pool \subseteq pool'
        /\ pool' \cup late' \subseteq (pool \cup late) \cup {Front}
    BY <1>3 DEF PushTaken, PushUnanswered
  <2>3. stopper # "stopped"
    BY <2>1 DEF IInv, SenderShape
  <2>4. DeliveryShape'
    <3> DEFINE k == committed - Len(queue)
    <3>1. /\ k \in 0 .. committed
          /\ Settled = 1 .. k
          /\ 1 .. k \subseteq pool
          /\ pool \cup late \subseteq 1 .. (k + 1)
          /\ pool \cup late \subseteq 1 .. committed
          /\ dropped = {} /\ unresolved = {}
      BY <1>0, <2>3, BeforeStop
    <3>2. Front = k + 1 /\ Front \in 1 .. committed /\ k \in Nat
      BY <1>0, <2>1, <3>1, FrontOfQueue DEF DataOK
    <3>3. k \in 0 .. committed' /\ k = committed' - Len(queue')
      BY <2>1, <3>1
    <3>4. Settled' = Settled
      BY <2>1 DEF Settled
    <3> HIDE DEF k
    <3>5. {Front} \subseteq 1 .. (k + 1) /\ {Front} \subseteq 1 .. committed
      BY <3>2
    <3>6. /\ 1 .. k \subseteq pool'
          /\ pool' \cup late' \subseteq 1 .. (k + 1)
          /\ pool' \cup late' \subseteq 1 .. committed'
      BY <2>1, <2>2, <3>1, <3>5
    <3>7. /\ Settled' = 1 .. k
          /\ stopper' # "stopped" /\ dropped' = {} /\ unresolved' = {}
      BY <2>1, <2>3, <3>1, <3>4
    <3> QED
      BY <3>3, <3>6, <3>7 DEF DeliveryShape
  <2>5. SenderShape'
    <3>1. Front' = Front
      BY <2>1 DEF Front
    <3>2. attempt \in Nat /\ MaxAttempts \in Nat
      BY <1>0, ConstantsAssumption DEF DataOK
    <3>3. queue # <<>>
      BY <2>1 DEF IInv, SenderShape
    <3> QED
      BY <2>1, <2>3, <3>1, <3>2, <3>3 DEF SenderShape
  <2>6. QueueShape' /\ ReservationShape' /\ Disjointness' /\ QueueBound'
    BY <2>1 DEF IInv, QueueShape, ReservationShape, Disjointness, QueueBound,
                reserveVars
  <2> QED
    BY <2>4, <2>5, <2>6 DEF IInv
<1> QED
  BY <1>1, <1>2, <1>3 DEF Rpc

(* The sender thread keeps the invariant: taking the front off the queue   *)
(* settles exactly the envelope after the settled ones.                    *)
LEMMA SenderIInv ==
  ASSUME TypeOK, IInv, Sender PROVE IInv'
<1> USE DEF lockVars, countVars, senderVars, poolVars, SenderUnchanged
<1>0. DataOK
  BY DEF TypeOK
<1>1. CASE SenderWake
  <2>1. /\ sender = "wait" /\ sender' \in {"exit", "poll", "send"}
        /\ sender' = "send" => queue # <<>>
        /\ attempt' = 0
        /\ UNCHANGED <<queue, committed, reserveVars, countVars, pool, late,
                       stopper>>
    BY <1>1 DEF SenderWake
  <2>2. SenderShape'
    BY <2>1, ConstantsAssumption DEF IInv, SenderShape
  <2> QED
    BY <1>0, <2>1, <2>2, NoEnvelopeMoved DEF IInv
<1>2. CASE SendAttempt
  <2>1. /\ sender = "send" /\ sender' \in {"rejected", "push"}
        /\ UNCHANGED <<queue, committed, reserveVars, countVars, pool, late,
                       stopper>>
    BY <1>2 DEF SendAttempt
  <2>2. SenderShape'
    BY <2>1 DEF IInv, SenderShape
  <2> QED
    BY <1>0, <2>1, <2>2, NoEnvelopeMoved DEF IInv
<1>3. CASE SendCommitted
  <2>1. /\ sender = "healthy" /\ sender' = "pop"
        /\ UNCHANGED <<queue, committed, reserveVars, countVars, pool, late,
                       stopper>>
    BY <1>3 DEF SendCommitted
  <2>2. SenderShape'
    BY <2>1 DEF IInv, SenderShape, Front
  <2> QED
    BY <1>0, <2>1, <2>2, NoEnvelopeMoved DEF IInv
<1>4. CASE SendTransient \/ SendRejected \/ SenderExit
  <2>1. /\ sender \in {"transient", "rejected", "exit"}
        /\ sender' \in {"wait", "exit", "done"}
        /\ UNCHANGED <<queue, committed, reserveVars, countVars, pool, late,
                       stopper>>
    BY <1>4 DEF SendTransient, SendRejected, SenderExit, MarkTransient
  <2>2. SenderShape'
    BY <2>1 DEF IInv, SenderShape
  <2> QED
    BY <1>0, <2>1, <2>2, NoEnvelopeMoved DEF IInv
<1>5. CASE PopFront
  <2> DEFINE k == committed - Len(queue)
  <2>1. /\ sender = "pop" /\ sender' = "wait" /\ queue' = Tail(queue)
        /\ UNCHANGED <<committed, reserveVars, stopper, pool, late, dropped,
                       unresolved>>
    BY <1>5 DEF PopFront
  <2>2. stopper # "stopped" /\ Front \in pool
    BY <2>1 DEF IInv, SenderShape
  <2>3. /\ Len(queue) \in Nat \ {0} /\ Front = k + 1 /\ Front \in 1 .. committed
        /\ Tail(queue) \in Seq(Nat) /\ Len(Tail(queue)) = Len(queue) - 1
        /\ \A i \in 1 .. (Len(queue) - 1) : Tail(queue)[i] = k + 1 + i
    BY <1>0, <2>1, FrontOfQueue
  <2>4. /\ k \in 0 .. committed
        /\ Settled = 1 .. k
        /\ 1 .. k \subseteq pool
        /\ pool \cup late \subseteq 1 .. (k + 1)
        /\ pool \cup late \subseteq 1 .. committed
        /\ dropped = {} /\ unresolved = {}
    BY <1>0, <2>2, BeforeStop
  <2>5. committed \in Nat /\ k \in Nat
    BY <1>0, <2>4 DEF DataOK
  <2>6. QueueShape'
    <3>1. k + 1 = committed' - Len(queue')
      BY <2>1, <2>3, <2>5
    <3>2. Len(queue') <= committed'
      BY <2>1, <2>3, <2>4, <2>5
    <3> QED
      BY <2>1, <2>3, <3>1, <3>2 DEF QueueShape
  <2>7. DeliveryShape'
    <3>1. k + 1 \in 0 .. committed' /\ k + 1 = committed' - Len(queue')
      BY <2>1, <2>3, <2>5
    <3>2. Settled' = Settled \cup {Front}
      BY <1>5 DEF PopFront, Settled
    <3> HIDE DEF k
    <3>3. 1 .. (k + 1) = (1 .. k) \cup {k + 1}
      BY <2>5
    <3>4. Settled' = 1 .. (k + 1) /\ 1 .. (k + 1) \subseteq pool'
      BY <2>1, <2>2, <2>3, <2>4, <3>2, <3>3
    <3>5. 1 .. (k + 1) \subseteq 1 .. (k + 1 + 1)
      BY <2>5
    <3>6. /\ pool' \cup late' \subseteq 1 .. (k + 1 + 1)
          /\ pool' \cup late' \subseteq 1 .. committed'
      BY <2>1, <2>4, <3>5
    <3>7. stopper' # "stopped" /\ dropped' = {} /\ unresolved' = {}
      BY <2>1, <2>2, <2>4
    <3> QED
      BY <3>1, <3>4, <3>6, <3>7 DEF DeliveryShape
  <2>8. Disjointness'
    <3>1. Front \notin Settled
      BY <2>3, <2>4, <2>5
    <3>2. \/ accepted' = accepted \cup {Front} /\ duplicate' = duplicate
          \/ accepted' = accepted /\ duplicate' = duplicate \cup {Front}
      BY <1>5 DEF PopFront
    <3> QED
      BY <2>1, <3>1, <3>2 DEF IInv, Disjointness, Settled
  <2>9. SenderShape'
    BY <2>1, <2>2 DEF IInv, SenderShape
  <2>10. ReservationShape'
    BY <2>1 DEF IInv, ReservationShape, reserveVars
  <2>11. QueueBound'
    <3>1. Len(reserved) \in Nat /\ MaxQueue \in Nat
      BY <1>0, ConstantsAssumption DEF DataOK
    <3> QED
      BY <2>1, <2>3, <3>1 DEF IInv, QueueBound, reserveVars
  <2> QED
    BY <2>6, <2>7, <2>8, <2>9, <2>10, <2>11 DEF IInv
<1> QED
  BY <1>1, <1>2, <1>3, <1>4, <1>5 DEF Sender

(* A request that arrives late is for an envelope the shape allows.        *)
LEMMA LateIInv ==
  ASSUME TypeOK, IInv, LateArrival PROVE IInv'
<1> USE DEF lockVars, countVars, senderVars, reserveVars, SenderUnchanged
<1>1. /\ pool \subseteq pool' /\ pool' \cup late' \subseteq pool \cup late
      /\ UNCHANGED <<queue, committed, reserveVars, countVars, stopper,
                     sender, attempt, degraded>>
  BY DEF LateArrival
<1>2. DeliveryShape'
  <2>1. PICK k \in 0 .. committed :
          /\ Settled = 1 .. k
          /\ 1 .. k \subseteq pool
          /\ pool \cup late \subseteq 1 .. (k + 1)
          /\ pool \cup late \subseteq 1 .. committed
          /\ IF stopper = "stopped"
             THEN /\ queue = <<>>
                  /\ dropped \cup unresolved = (k + 1) .. committed
                  /\ ~degraded => k = committed
             ELSE k = committed - Len(queue) /\ dropped = {} /\ unresolved = {}
    BY DEF IInv, DeliveryShape
  <2>2. Settled' = Settled
    BY <1>1 DEF Settled
  <2>3. /\ 1 .. k \subseteq pool'
        /\ pool' \cup late' \subseteq 1 .. (k + 1)
        /\ pool' \cup late' \subseteq 1 .. committed'
    BY <1>1, <2>1
  <2> QED
    BY <1>1, <2>1, <2>2, <2>3 DEF DeliveryShape
<1>3. SenderShape'
  BY <1>1 DEF IInv, SenderShape, Front
<1>4. QueueShape' /\ ReservationShape' /\ Disjointness' /\ QueueBound'
  BY <1>1 DEF IInv, QueueShape, ReservationShape, Disjointness, QueueBound
<1> QED
  BY <1>2, <1>3, <1>4 DEF IInv

(* StopAndDrain keeps the invariant: what is left in the queue after the   *)
(* join is everything that was committed and not settled.                  *)
LEMMA StopperIInv ==
  ASSUME TypeOK, IInv, Stopper PROVE IInv'
<1> USE DEF lockVars, countVars, senderVars, poolVars, reserveVars,
            StopperUnchanged
<1>0. DataOK
  BY DEF TypeOK
<1>1. CASE StopAndDrain
  <2>1. /\ stopper = "idle" /\ ~holding /\ ~holding' /\ reserved' = <<>>
        /\ ~sealed'
        /\ UNCHANGED <<queue, committed, countVars, pool, late, sender,
                       attempt, degraded>>
        /\ \/ sender = "off" /\ stopper' = "stopped"
           \/ sender # "off" /\ stopper' = "drain"
    BY <1>1 DEF StopAndDrain, ReleaseReservation
  <2>2. QueueShape' /\ Disjointness'
    BY <2>1 DEF IInv, QueueShape, Disjointness
  <2>3. ReservationShape'
    BY <2>1 DEF ReservationShape
  <2>4. QueueBound'
    <3>1. reserved' = reserved /\ queue' = queue
      BY <2>1 DEF IInv, ReservationShape
    <3> QED
      BY <3>1 DEF IInv, QueueBound
  <2>5. SenderShape'
    BY <2>1 DEF IInv, SenderShape, Front
  <2>6. DeliveryShape'
    <3>1. CASE sender # "off"
      BY <2>1, <3>1 DEF IInv, DeliveryShape, Settled
    <3>2. CASE sender = "off"
      <4>1. committed = 0 /\ Len(queue) = 0 /\ queue = <<>>
        <5>1. committed = 0 /\ Len(queue) <= committed
          BY <3>2 DEF IInv, SenderShape, QueueShape
        <5> QED
          BY <1>0, <5>1 DEF DataOK
      <4>2. /\ Settled = 1 .. 0 /\ pool \cup late \subseteq 1 .. 0
            /\ dropped = {} /\ unresolved = {}
        BY <1>0, <2>1, <4>1, BeforeStop
      <4>3. Settled' = Settled
        BY <2>1 DEF Settled
      <4>4. 1 .. 0 = {} /\ (0 + 1) .. 0 = {} /\ 1 .. 0 \subseteq 1 .. (0 + 1)
        OBVIOUS
      <4> QED
        BY <2>1, <3>2, <4>1, <4>2, <4>3, <4>4 DEF DeliveryShape
    <3> QED
      BY <3>1, <3>2
  <2> QED
    BY <2>2, <2>3, <2>4, <2>5, <2>6 DEF IInv
<1>2. CASE DrainWaitEnds
  <2>1. /\ stopper = "drain" /\ stopper' = "join"
        /\ UNCHANGED <<queue, committed, reserveVars, countVars, pool, late,
                       sender, attempt>>
    BY <1>2 DEF DrainWaitEnds
  <2>2. QueueShape' /\ Disjointness' /\ QueueBound'
    BY <2>1 DEF IInv, QueueShape, Disjointness, QueueBound
  <2>3. ReservationShape'
    BY <2>1 DEF IInv, ReservationShape
  <2>4. DeliveryShape'
    BY <2>1 DEF IInv, DeliveryShape, Settled
  <2>5. SenderShape'
    BY <2>1 DEF IInv, SenderShape, Front
  <2> QED
    BY <2>2, <2>3, <2>4, <2>5 DEF IInv
<1>3. CASE StopAfterJoin
  <2> DEFINE k == committed - Len(queue)
  <2>1. /\ stopper = "join" /\ stopper' = "stopped" /\ sender = "done"
        /\ queue' = <<>>
        /\ UNCHANGED <<committed, reserveVars, accepted, duplicate, pool,
                       late, sender, attempt>>
    BY <1>3 DEF StopAfterJoin
  <2>2. /\ k \in 0 .. committed
        /\ Settled = 1 .. k
        /\ 1 .. k \subseteq pool
        /\ pool \cup late \subseteq 1 .. (k + 1)
        /\ pool \cup late \subseteq 1 .. committed
        /\ dropped = {} /\ unresolved = {}
    BY <1>0, <2>1, BeforeStop
  <2>3. committed \in Nat /\ queue \in Seq(Nat)
    BY <1>0 DEF DataOK
  <2>4. Queued = (k + 1) .. committed
    BY <1>0, QueuedInterval
  <2>5. /\ dropped' \cup unresolved' = Queued
        /\ dropped' \cap unresolved' = {}
    <3>1. CASE queue = <<>>
      <4>1. Queued = {}
        BY <3>1 DEF Queued
      <4>2. dropped' = {} /\ unresolved' = {}
        BY <1>3, <2>2, <3>1 DEF StopAfterJoin
      <4> QED
        BY <4>1, <4>2
    <3>2. CASE queue # <<>>
      BY <1>3, <2>2, <3>2 DEF StopAfterJoin, LeftUnresolved
    <3> QED
      BY <3>1, <3>2
  <2>6. ~degraded' => k = committed
    <3>1. queue # <<>> => degraded'
      BY <1>3 DEF StopAfterJoin
    <3>2. queue = <<>> => Len(queue) = 0
      OBVIOUS
    <3> QED
      BY <2>3, <3>1, <3>2
  <2>7. DeliveryShape'
    <3>1. Settled' = Settled
      BY <2>1 DEF Settled
    <3> HIDE DEF k
    <3> QED
      BY <2>1, <2>2, <2>4, <2>5, <2>6, <3>1 DEF DeliveryShape
  <2>8. Disjointness'
    BY <2>1, <2>5 DEF IInv, Disjointness
  <2>9. QueueShape'
    BY <2>1, <2>3 DEF QueueShape
  <2>10. QueueBound'
    <3>1. /\ Len(reserved) \in Nat /\ MaxQueue \in Nat /\ Len(queue) \in Nat
          /\ Len(<<>>) = 0
      BY <1>0, <2>3, ConstantsAssumption DEF DataOK
    <3> QED
      BY <2>1, <3>1 DEF IInv, QueueBound
  <2>11. ReservationShape' /\ SenderShape'
    BY <2>1 DEF IInv, ReservationShape, SenderShape
  <2> QED
    BY <2>7, <2>8, <2>9, <2>10, <2>11 DEF IInv
<1> QED
  BY <1>1, <1>2, <1>3 DEF Stopper

(* The invariant is inductive.                                             *)
LEMMA StepIInv == TypeOK /\ IInv /\ [Next]_vars => IInv'
<1> SUFFICES ASSUME TypeOK, IInv, [Next]_vars PROVE IInv'
  OBVIOUS
<1>1. CASE Start
  <2>1. /\ sender = "off" /\ stopper = "idle" /\ sender' \in {"off", "wait"}
        /\ UNCHANGED <<queue, committed, reserveVars, countVars, pool, late,
                       stopper>>
    BY <1>1 DEF Start, poolVars
  <2>2. QueueShape' /\ ReservationShape' /\ Disjointness' /\ QueueBound'
    BY <2>1 DEF IInv, QueueShape, ReservationShape, Disjointness, QueueBound,
                reserveVars, countVars
  <2>3. DeliveryShape'
    BY <2>1 DEF IInv, DeliveryShape, Settled, countVars
  <2>4. SenderShape'
    BY <2>1 DEF IInv, SenderShape
  <2> QED
    BY <2>2, <2>3, <2>4 DEF IInv
<1>2. CASE Finished \/ UNCHANGED vars
  <2>1. UNCHANGED <<queue, committed, reserveVars, countVars, pool, late,
                    stopper, sender, attempt, degraded>>
    BY <1>2 DEF Finished, vars, poolVars, senderVars, lockVars
  <2>2. QueueShape' /\ ReservationShape' /\ Disjointness' /\ QueueBound'
    BY <2>1 DEF IInv, QueueShape, ReservationShape, Disjointness, QueueBound,
                reserveVars, countVars
  <2>3. DeliveryShape'
    BY <2>1 DEF IInv, DeliveryShape, Settled, countVars
  <2>4. SenderShape'
    BY <2>1 DEF IInv, SenderShape, Front
  <2> QED
    BY <2>2, <2>3, <2>4 DEF IInv
<1> QED
  BY <1>1, <1>2, ProducerIInv, RpcIInv, SenderIInv, LateIInv, StopperIInv
  DEF Next

-----------------------------------------------------------------------------
(* Every variable keeps its type, and the inductive invariant holds in     *)
(* every reachable state, whatever the threads and the SamplePool do.      *)
THEOREM InvariantHolds == Spec => [](TypeOK /\ IInv)
<1>1. Init => TypeOK /\ IInv
  BY InitTypeOK, InitIInv
<1>2. TypeOK /\ IInv /\ [Next]_vars => (TypeOK /\ IInv)'
  BY StepFlags, StepData, StepIInv DEF TypeOK
<1> QED
  BY <1>1, <1>2, PTL DEF Spec

(* Every variable keeps its type: SendFront stays within max_attempts.     *)
THEOREM TypeCorrect == Spec => []TypeOK
BY InvariantHolds, PTL

(* Queue and reservation together stay within outbound_max_envelopes.      *)
THEOREM QueueBoundHolds == Spec => []QueueBound
<1>1. IInv => QueueBound
  BY DEF IInv
<1> QED
  BY <1>1, InvariantHolds, PTL

(* A committed envelope is in the queue or in exactly one count.           *)
THEOREM AccountingHolds == Spec => []Accounting
<1>1. ASSUME TypeOK, IInv PROVE Accounting
  <2>0. DataOK /\ committed \in Nat
    BY <1>1 DEF TypeOK, DataOK
  <2>1. PICK k \in 0 .. committed :
          /\ Settled = 1 .. k
          /\ 1 .. k \subseteq pool
          /\ IF stopper = "stopped"
             THEN queue = <<>> /\ dropped \cup unresolved = (k + 1) .. committed
             ELSE k = committed - Len(queue) /\ dropped = {} /\ unresolved = {}
    BY <1>1 DEF IInv, DeliveryShape
  <2>2. Queued = (committed - Len(queue) + 1) .. committed
    BY <1>1, <2>0, QueuedInterval
  <2>3. 1 .. committed = (1 .. k) \cup ((k + 1) .. committed)
    BY <2>0
  <2>4. (1 .. k) \cap ((k + 1) .. committed) = {}
    BY <2>0
  <2>5. \/ Queued = (k + 1) .. committed /\ dropped \cup unresolved = {}
        \/ Queued = {} /\ dropped \cup unresolved = (k + 1) .. committed
    <3>1. CASE stopper = "stopped"
      <4>1. Queued = {}
        BY <2>1, <3>1 DEF Queued
      <4> QED
        BY <2>1, <3>1, <4>1
    <3>2. CASE stopper # "stopped"
      BY <2>1, <2>2, <3>2
    <3> QED
      BY <3>1, <3>2
  <2>6. Disjointness
    BY <1>1 DEF IInv
  <2> QED
    BY <2>1, <2>3, <2>4, <2>5, <2>6 DEF Accounting, Disjointness
<1> QED
  BY <1>1, InvariantHolds, PTL

(* The SamplePool holds a prefix of what was committed, at all times.      *)
THEOREM PrefixDeliveryHolds == Spec => []PrefixDelivery
<1>1. ASSUME TypeOK, IInv PROVE PrefixDelivery
  <2>0. committed \in Nat
    BY <1>1 DEF TypeOK, DataOK
  <2>1. PICK k \in 0 .. committed :
          /\ 1 .. k \subseteq pool
          /\ pool \cup late \subseteq 1 .. (k + 1)
          /\ pool \cup late \subseteq 1 .. committed
    BY <1>1 DEF IInv, DeliveryShape
  <2>2. ASSUME NEW e \in pool, NEW d \in 1 .. e PROVE d \in pool
    <3>1. e \in 1 .. (k + 1)
      BY <2>1
    <3>2. d = e \/ d \in 1 .. k
      BY <2>0, <3>1
    <3> QED
      BY <2>1, <3>2
  <2> QED
    BY <2>1, <2>2 DEF PrefixDelivery
<1> QED
  BY <1>1, InvariantHolds, PTL

(* A stop that is not degraded has delivered everything.                   *)
THEOREM CleanStopHolds == Spec => []CleanStop
<1>1. ASSUME IInv PROVE CleanStop
  BY <1>1 DEF IInv, DeliveryShape, CleanStop
<1> QED
  BY <1>1, InvariantHolds, PTL

(* A step that leaves the five abstract variables alone is a stutter.      *)
LEMMA DeliveryStutter ==
  ASSUME UNCHANGED <<committed, pool, countVars, stopper>>
  PROVE  UNCHANGED Delivery!vars
BY DEF Delivery!vars, countVars, Settled

(* The pool takes in at most the envelope after those it holds.            *)
LEMMA PoolStep ==
  ASSUME TypeOK, IInv, NEW e \in 1 .. committed,
         e \in late \/ (sender = "push" /\ e = Front),
         pool' = pool \cup {e}, UNCHANGED <<committed, countVars, stopper>>
  PROVE  [Delivery!Next]_(Delivery!vars)
<1>0. committed \in Nat /\ DataOK
  BY DEF TypeOK, DataOK
<1>1. PICK k \in 0 .. committed :
        /\ 1 .. k \subseteq pool
        /\ pool \cup late \subseteq 1 .. (k + 1)
        /\ IF stopper = "stopped" THEN TRUE ELSE k = committed - Len(queue)
  BY DEF IInv, DeliveryShape
<1>2. e \in 1 .. (k + 1)
  <2>1. CASE e \in late
    BY <1>1, <2>1
  <2>2. CASE sender = "push" /\ e = Front
    <3>1. stopper # "stopped"
      BY <2>2 DEF IInv, SenderShape
    <3>2. Front = committed - Len(queue) + 1
      BY <1>0, <2>2, FrontOfQueue
    <3> QED
      BY <1>0, <1>1, <2>2, <3>1, <3>2
  <2> QED
    BY <2>1, <2>2
<1>3. CASE e \in pool
  <2>1. pool' = pool
    BY <1>3
  <2> QED
    BY <2>1, DeliveryStutter
<1>4. CASE e \notin pool
  <2>1. \A d \in 1 .. (e - 1) : d \in pool
    BY <1>0, <1>1, <1>2
  <2>2. Delivery!NextOf(e, pool)
    BY <1>4, <2>1 DEF Delivery!NextOf
  <2>3. Settled' = Settled /\ UNCHANGED <<committed, stopper, dropped, unresolved>>
    BY DEF Settled, countVars
  <2> QED
    BY <2>2, <2>3 DEF Delivery!Next, Delivery!Deliver
<1> QED
  BY <1>3, <1>4

(* Taking the front off the queue settles the next envelope.               *)
LEMMA PopStep ==
  ASSUME TypeOK, IInv, PopFront
  PROVE  [Delivery!Next]_(Delivery!vars)
<1>0. DataOK /\ committed \in Nat
  BY DEF TypeOK, DataOK
<1>1. /\ sender = "pop"
      /\ UNCHANGED <<committed, pool, dropped, unresolved, stopper>>
  BY DEF PopFront, SenderUnchanged, poolVars
<1>2. stopper # "stopped" /\ Front \in pool
  BY <1>1 DEF IInv, SenderShape
<1>3. Front = committed - Len(queue) + 1 /\ Front \in 1 .. committed
  BY <1>0, <1>1, FrontOfQueue
<1>4. /\ committed - Len(queue) \in 0 .. committed
      /\ Settled = 1 .. (committed - Len(queue))
  BY <1>0, <1>2, BeforeStop
<1>5. Settled' = Settled \cup {Front}
  BY DEF PopFront, Settled
<1>6. Front \notin Settled /\ \A d \in 1 .. (Front - 1) : d \in Settled
  BY <1>0, <1>3, <1>4
<1>7. Delivery!NextOf(Front, Settled)
  BY <1>6 DEF Delivery!NextOf
<1> QED
  BY <1>1, <1>2, <1>5, <1>7 DEF Delivery!Next, Delivery!Settle

(* StopAndDrain closes the path and reports what was not settled.          *)
LEMMA CloseStep ==
  ASSUME TypeOK, IInv, IInv', stopper # "stopped", stopper' = "stopped",
         UNCHANGED <<committed, accepted, duplicate, pool>>
  PROVE  [Delivery!Next]_(Delivery!vars)
<1>0. committed \in Nat
  BY DEF TypeOK, DataOK
<1>1. Settled' = Settled
  BY DEF Settled
<1>2. PICK k \in 0 .. committed' :
        /\ Settled' = 1 .. k
        /\ dropped' \cup unresolved' = (k + 1) .. committed'
  BY DEF IInv, DeliveryShape
<1>3. dropped' \cup unresolved' = (1 .. committed) \ Settled
  BY <1>0, <1>1, <1>2
<1> QED
  BY <1>1, <1>3 DEF Delivery!Next, Delivery!Close

(* The sender, with its retries, lost answers and late requests, refines   *)
(* in-order, exactly-once delivery with an honest account of the losses.   *)
THEOREM RefinesOrderedDelivery == Spec => ImplementsOrderedDelivery
<1> USE DEF lockVars, countVars, senderVars, poolVars, SenderUnchanged,
            PushUnchanged, StopperUnchanged
<1>1. Init => Delivery!Init
  BY DEF Init, Delivery!Init, Settled
<1>2. TypeOK /\ IInv /\ IInv' /\ [Next]_vars
        => [Delivery!Next]_(Delivery!vars)
  <2> SUFFICES ASSUME TypeOK, IInv, IInv', [Next]_vars
               PROVE  [Delivery!Next]_(Delivery!vars)
    OBVIOUS
  <2>0. DataOK /\ committed \in Nat
    BY DEF TypeOK, DataOK
  <2>1. CASE UNCHANGED <<committed, pool, countVars, stopper>>
    BY <2>1, DeliveryStutter
  <2>2. CASE CommitEnqueueEnvelopeSet
    <3>1. /\ committed' = committed + Len(reserved)
          /\ UNCHANGED <<pool, countVars, stopper>> /\ holding
      BY <2>2 DEF CommitEnqueueEnvelopeSet
    <3>2. reserved # <<>> /\ stopper = "idle" /\ reserved \in Seq(Nat)
      BY <2>0, <3>1 DEF IInv, ReservationShape, DataOK
    <3>3. committed' \in Nat /\ committed' > committed
      BY <2>0, <3>1, <3>2
    <3>4. Settled' = Settled
      BY <3>1 DEF Settled
    <3> QED
      BY <3>1, <3>2, <3>3, <3>4 DEF Delivery!Next, Delivery!Submit
  <2>3. CASE PushTaken \/ PushUnanswered
    <3>1. /\ sender = "push" /\ (pool' = pool \/ pool' = pool \cup {Front})
          /\ UNCHANGED <<committed, countVars, stopper>>
      BY <2>3 DEF PushTaken, PushUnanswered
    <3>2. Front \in 1 .. committed
      BY <2>0, <3>1, FrontOfQueue
    <3> QED
      BY <2>1, <3>1, <3>2, PoolStep
  <2>4. CASE LateArrival
    <3>1. PICK e \in late : pool' = pool \cup {e}
      BY <2>4 DEF LateArrival
    <3>2. e \in 1 .. committed
      BY <3>1 DEF IInv, DeliveryShape
    <3>3. UNCHANGED <<committed, countVars, stopper>>
      BY <2>4 DEF LateArrival
    <3> QED
      BY <3>1, <3>2, <3>3, PoolStep
  <2>5. CASE PopFront
    BY <2>5, PopStep
  <2>6. CASE StopAndDrain
    <3>1. /\ stopper = "idle" /\ stopper' \in {"drain", "stopped"}
          /\ UNCHANGED <<committed, pool, countVars>>
      BY <2>6 DEF StopAndDrain
    <3>2. CASE stopper' = "drain"
      <4>1. Settled' = Settled /\ (stopper' = "stopped") = (stopper = "stopped")
        BY <3>1, <3>2 DEF Settled
      <4> QED
        BY <3>1, <4>1 DEF Delivery!vars
    <3>3. CASE stopper' = "stopped"
      BY <3>1, <3>3, CloseStep
    <3> QED
      BY <3>1, <3>2, <3>3
  <2>7. CASE DrainWaitEnds
    <3>1. /\ stopper = "drain" /\ stopper' = "join"
          /\ UNCHANGED <<committed, pool, countVars>>
      BY <2>7 DEF DrainWaitEnds
    <3>2. Settled' = Settled /\ (stopper' = "stopped") = (stopper = "stopped")
      BY <3>1 DEF Settled
    <3> QED
      BY <3>1, <3>2 DEF Delivery!vars
  <2>8. CASE StopAfterJoin
    <3>1. /\ stopper = "join" /\ stopper' = "stopped"
          /\ UNCHANGED <<committed, pool, accepted, duplicate>>
      BY <2>8 DEF StopAfterJoin
    <3> QED
      BY <3>1, CloseStep
  <2>9. \/ UNCHANGED <<committed, pool, countVars, stopper>>
        \/ CommitEnqueueEnvelopeSet \/ PushTaken \/ PushUnanswered
        \/ LateArrival \/ PopFront \/ Stopper
    <3>1. CASE Start \/ Finished \/ UNCHANGED vars
      BY <3>1 DEF Start, Finished, vars
    <3>2. CASE Producer
      BY <3>2 DEF Producer, ReserveEnqueueEnvelopeSet, SealEnqueueEnvelopeSet
    <3>3. CASE Rpc
      BY <3>3 DEF Rpc, StatusHealthy, StatusUnavailable, StatusFault,
                  PushRejectedCapacity, PushRejected
    <3>4. CASE Sender
      BY <3>4 DEF Sender, SenderWake, SendAttempt, SendCommitted,
                  SendTransient, SendRejected, SenderExit
    <3> QED
      BY <3>1, <3>2, <3>3, <3>4 DEF Next
  <2> QED
    BY <2>1, <2>2, <2>3, <2>4, <2>5, <2>6, <2>7, <2>8, <2>9 DEF Stopper
<1> QED
  BY <1>1, <1>2, InvariantHolds, PTL
  DEF Spec, ImplementsOrderedDelivery, Delivery!Spec

-----------------------------------------------------------------------------
(* An envelope the pool has got, or may still get, without an answer is    *)
(* marked: the front of the queue until it is popped, and a dropped one.   *)
AnswerShape ==
  /\ (/\ stopper # "stopped" /\ queue # <<>> /\ Front \in pool \cup late
      /\ sender \notin {"healthy", "pop"}) => Front \in unanswered
  /\ \A e \in (pool \cup late) \cap dropped : e \in unanswered

LEMMA AnswerFrame ==
  ASSUME AnswerShape, UNCHANGED <<queue, dropped>>,
         pool' \cup late' = pool \cup late, unanswered \subseteq unanswered',
         stopper' # "stopped" => stopper # "stopped",
         sender' \notin {"healthy", "pop"} => sender \notin {"healthy", "pop"}
  PROVE  AnswerShape'
BY DEF AnswerShape, Front

LEMMA AnswerStep ==
  ASSUME TypeOK, IInv, AnswerShape, [Next]_vars PROVE AnswerShape'
<1> USE DEF lockVars, countVars, senderVars, poolVars, SenderUnchanged,
            PushUnchanged, StopperUnchanged
<1>0. /\ DataOK /\ committed \in Nat /\ queue \in Seq(Nat)
      /\ Len(queue) \in Nat /\ Len(queue) <= committed
  BY DEF TypeOK, DataOK, IInv, QueueShape
<1>1. CASE CommitEnqueueEnvelopeSet
  <2>1. /\ holding /\ queue' = queue \o reserved
        /\ UNCHANGED <<pool, late, unanswered, dropped, stopper, sender>>
    BY <1>1 DEF CommitEnqueueEnvelopeSet
  <2>2. /\ reserved # <<>> /\ reserved \in Seq(Nat) /\ stopper # "stopped"
        /\ reserved[1] = committed + 1
    BY <1>0, <2>1 DEF IInv, ReservationShape, DataOK
  <2>3. CASE queue = <<>>
    <3>1. queue' = reserved /\ Front' = committed + 1
      BY <2>1, <2>2, <2>3 DEF Front
    <3>2. pool \cup late \subseteq 1 .. committed
      BY <1>0, <2>2, BeforeStop
    <3>3. Front' \notin pool \cup late
      BY <1>0, <3>1, <3>2
    <3> QED
      BY <2>1, <3>3 DEF AnswerShape
  <2>4. CASE queue # <<>>
    <3>1. Front' = Front
      BY <1>0, <2>1, <2>2, <2>4 DEF Front
    <3> QED
      BY <2>1, <2>4, <3>1 DEF AnswerShape
  <2> QED
    BY <2>3, <2>4
<1>2. CASE PushTaken \/ PushUnanswered
  <2>1. /\ sender = "push" /\ stopper # "stopped" /\ dropped = {}
        /\ UNCHANGED <<queue, stopper, dropped>>
    <3>1. sender = "push" /\ UNCHANGED <<queue, stopper, dropped>>
      BY <1>2 DEF PushTaken, PushUnanswered
    <3>2. stopper # "stopped"
      BY <3>1 DEF IInv, SenderShape
    <3> QED
      BY <1>0, <3>1, <3>2, BeforeStop
  <2>2. sender' = "healthy" \/ Front \in unanswered'
    BY <1>2 DEF PushTaken, PushUnanswered
  <2> QED
    BY <2>1, <2>2 DEF AnswerShape, Front
<1>3. CASE PopFront
  <2>1. /\ sender = "pop" /\ queue' = Tail(queue)
        /\ UNCHANGED <<pool, late, unanswered, dropped, stopper>>
    BY <1>3 DEF PopFront
  <2>2. stopper # "stopped"
    BY <2>1 DEF IInv, SenderShape
  <2>3. /\ Front = committed - Len(queue) + 1
        /\ Tail(queue) \in Seq(Nat) /\ Len(Tail(queue)) = Len(queue) - 1
        /\ \A i \in 1 .. (Len(queue) - 1) :
             Tail(queue)[i] = committed - Len(queue) + 1 + i
    BY <1>0, <2>1, FrontOfQueue
  <2>4. pool \cup late \subseteq 1 .. (committed - Len(queue) + 1)
    BY <1>0, <2>2, BeforeStop
  <2>5. ASSUME queue' # <<>> PROVE Front' \notin pool \cup late
    <3> DEFINE n == Len(queue)
               rest == Tail(queue)
    <3>0. /\ n \in Nat /\ n <= committed /\ rest \in Seq(Nat)
          /\ Len(rest) = n - 1 /\ rest # <<>> /\ Front' = Head(rest)
          /\ \A i \in 1 .. (n - 1) : rest[i] = committed - n + 1 + i
      BY <1>0, <2>1, <2>3, <2>5 DEF Front
    <3> HIDE DEF n, rest
    <3>1. Len(rest) \in Nat \ {0} /\ Front' = rest[1]
      BY <3>0
    <3>2. 1 \in 1 .. (n - 1)
      BY <3>0, <3>1
    <3>3. rest[1] = committed - n + 1 + 1
      BY <3>0, <3>2
    <3>4. Front' = committed - Len(queue) + 2
      BY <1>0, <3>0, <3>1, <3>3 DEF n
    <3> QED
      BY <1>0, <2>4, <3>4
  <2> QED
    BY <2>1, <2>5 DEF AnswerShape
<1>4. CASE StopAfterJoin
  <2>1. /\ sender = "done" /\ stopper = "join" /\ stopper' = "stopped"
        /\ UNCHANGED <<pool, late, unanswered>>
        /\ dropped' = dropped \/ dropped' = dropped \cup (Queued \ unknown)
    BY <1>4 DEF StopAfterJoin
  <2>2. /\ dropped = {}
        /\ pool \cup late \subseteq 1 .. (committed - Len(queue) + 1)
    BY <1>0, <2>1, BeforeStop
  <2>3. Queued = (committed - Len(queue) + 1) .. committed
    BY <1>0, QueuedInterval DEF TypeOK
  <2>4. ASSUME NEW e \in (pool \cup late) \cap Queued PROVE e \in unanswered
    <3>1. e = committed - Len(queue) + 1 /\ queue # <<>>
      BY <1>0, <2>2, <2>3
    <3>2. Front = e
      <4>1. Front = queue[1] /\ 1 \in 1 .. Len(queue)
        BY <1>0, <3>1 DEF Front
      <4> QED
        BY <3>1, <4>1 DEF IInv, QueueShape
    <3> QED
      BY <2>1, <3>1, <3>2 DEF AnswerShape
  <2> QED
    BY <2>1, <2>2, <2>4 DEF AnswerShape
<1>5. \/ CommitEnqueueEnvelopeSet \/ PushTaken \/ PushUnanswered \/ PopFront
      \/ StopAfterJoin
      \/ /\ UNCHANGED <<queue, dropped, unanswered>>
         /\ pool' \cup late' = pool \cup late
         /\ stopper' # "stopped" => stopper # "stopped"
         /\ sender' \notin {"healthy", "pop"} => sender \notin {"healthy", "pop"}
  <2>1. CASE Start \/ Finished \/ UNCHANGED vars
    BY <2>1 DEF Start, Finished, vars
  <2>2. CASE Producer
    BY <2>2 DEF Producer, ReserveEnqueueEnvelopeSet, SealEnqueueEnvelopeSet
  <2>3. CASE Rpc
    BY <2>3 DEF Rpc, StatusHealthy, StatusUnavailable, StatusFault,
                PushRejectedCapacity, PushRejected
  <2>4. CASE Sender
    BY <2>4 DEF Sender, SenderWake, SendAttempt, SendCommitted,
                SendTransient, SendRejected, SenderExit
  <2>5. CASE LateArrival
    BY <2>5 DEF LateArrival
  <2>6. CASE Stopper
    BY <2>6 DEF Stopper, StopAndDrain, DrainWaitEnds
  <2> QED
    BY <2>1, <2>2, <2>3, <2>4, <2>5, <2>6 DEF Next
<1> QED
  BY <1>1, <1>2, <1>3, <1>4, <1>5, AnswerFrame

(* An envelope the pool holds is settled, at the front of the queue,       *)
(* reported unresolved, or was dropped after an attempt that was never     *)
(* answered (StopAndDrain's accounts, SendFront's push_outcome_unknown).   *)
THEOREM PoolAccountedHolds == Spec => []PoolAccounted
<1>1. ASSUME TypeOK, IInv, AnswerShape PROVE PoolAccounted
  <2>0. DataOK /\ committed \in Nat /\ Len(queue) \in Nat
    BY <1>1 DEF TypeOK, DataOK
  <2>1. PICK k \in 0 .. committed :
          /\ Settled = 1 .. k
          /\ pool \cup late \subseteq 1 .. (k + 1)
          /\ pool \cup late \subseteq 1 .. committed
          /\ IF stopper = "stopped"
             THEN dropped \cup unresolved = (k + 1) .. committed
             ELSE k = committed - Len(queue)
    BY <1>1 DEF IInv, DeliveryShape
  <2>2. ASSUME NEW e \in pool, e \notin Settled
        PROVE  \/ e \in unresolved
               \/ queue # <<>> /\ e = Front
               \/ e \in dropped \cap unanswered
    <3>1. e = k + 1 /\ e \in 1 .. committed
      BY <2>0, <2>1, <2>2
    <3>2. CASE stopper = "stopped"
      <4>1. e \in dropped \cup unresolved
        BY <2>0, <2>1, <3>1, <3>2
      <4> QED
        BY <1>1, <4>1 DEF AnswerShape
    <3>3. CASE stopper # "stopped"
      <4>1. k = committed - Len(queue)
        BY <2>1, <3>3
      <4>2. Len(queue) >= 1 /\ queue # <<>>
        BY <2>0, <3>1, <4>1
      <4>3. Front = queue[1] /\ queue[1] = committed - Len(queue) + 1
        BY <1>1, <2>0, <4>2 DEF Front, IInv, QueueShape, DataOK
      <4> QED
        BY <3>1, <4>1, <4>2, <4>3
    <3> QED
      BY <3>2, <3>3
  <2> QED
    BY <2>2 DEF PoolAccounted
<1>2. Init => AnswerShape
  BY DEF Init, AnswerShape
<1> QED
  BY <1>1, <1>2, AnswerStep, InvariantHolds, PTL DEF Spec

-----------------------------------------------------------------------------
(* A reservation of the current generation has seen no outage, and a       *)
(* sender that has ended has not left delivery healthy.                    *)
GenerationShape ==
  /\ holding => reservedGeneration <= generation
  /\ holding /\ reservedGeneration = generation =>
       deliveryState = "Healthy" /\ ~outage
  /\ sender = "done" => deliveryState # "Healthy"

(* A step that sets the delivery state, from where it may be set.          *)
DeliverySet(state) ==
  /\ SetDeliveryState(state)
  /\ holding' = holding /\ sealed' = sealed
  /\ holding => reservedGeneration' = reservedGeneration
  /\ deliveryState = "TerminalFault" => state = "TerminalFault"
  /\ deliveryState = "Draining" =>
       state \in {"Draining", "Stopped", "TerminalFault"}
  /\ sender = "done" \/ sender' = "done" => state # "Healthy"

(* A step that leaves the delivery state and the end of the sender alone.  *)
DeliveryKept ==
  /\ UNCHANGED <<deliveryState, generation>>
  /\ sender' = "done" => sender = "done"

(* Every step but Start keeps the delivery state or sets it as the helpers *)
(* of the class allow; who sets it holds no reservation or leaves it be.   *)
LEMMA MarkSets ==
  ASSUME MarkHealthy \/ MarkTransient \/ MarkDegraded,
         UNCHANGED reserveVars, sender # "done", sender' # "done"
  PROVE  \/ DeliveryKept /\ UNCHANGED <<reserveVars, outage>>
         \/ \E state \in DeliveryStates : DeliverySet(state)
<1> USE DEF DeliverySet, DeliveryKept, lockVars, reserveVars, DeliveryStates
<1>1. CASE MarkHealthy
  BY <1>1 DEF MarkHealthy, Closed
<1>2. CASE MarkTransient
  BY <1>2 DEF MarkTransient, Closed
<1>3. CASE MarkDegraded
  BY <1>3 DEF MarkDegraded
<1> QED
  BY <1>1, <1>2, <1>3

LEMMA DeliverySteps ==
  ASSUME TypeOK, IInv, [Next]_vars
  PROVE  \/ Start /\ ~holding /\ ~holding' /\ UNCHANGED <<sealed>>
         \/ DeliveryKept /\ UNCHANGED <<reserveVars, outage>>
         \/ DeliveryKept /\ Producer /\ sender' = sender
         \/ \E state \in DeliveryStates : DeliverySet(state)
<1> USE DEF lockVars, reserveVars, countVars, senderVars, poolVars,
            SenderUnchanged, PushUnchanged, StopperUnchanged
<1>1. CASE Start
  BY <1>1 DEF Start, IInv, ReservationShape
<1>2. CASE Producer
  BY <1>2 DEF Producer, ReserveEnqueueEnvelopeSet, SealEnqueueEnvelopeSet,
              CommitEnqueueEnvelopeSet, DeliveryKept
<1>3. CASE StatusHealthy \/ StatusUnavailable \/ StatusFault
  <2>1. /\ sender = "poll" /\ UNCHANGED reserveVars
        /\ MarkHealthy \/ MarkTransient \/ MarkDegraded
    BY <1>3 DEF StatusHealthy, StatusUnavailable, StatusFault
  <2>2. sender' # "done"
    BY <1>3 DEF StatusHealthy, StatusUnavailable, StatusFault, MarkTransient
  <2> QED
    BY <2>1, <2>2, MarkSets
<1>4. CASE PushTaken \/ PushRejectedCapacity \/ PushRejected \/ PushUnanswered
  BY <1>4 DEF PushTaken, PushRejectedCapacity, PushRejected, PushUnanswered,
              DeliveryKept
<1>5. CASE SenderWake \/ SendAttempt \/ PopFront
  BY <1>5 DEF SenderWake, SendAttempt, PopFront, DeliveryKept
<1>6. CASE SendCommitted \/ SendRejected
  <2>1. /\ sender # "done" /\ sender' # "done" /\ UNCHANGED reserveVars
        /\ MarkHealthy \/ MarkDegraded
    BY <1>6 DEF SendCommitted, SendRejected
  <2> QED
    BY <2>1, MarkSets
<1>7. CASE SendTransient
  <2>1. sender = "transient" /\ sender' # "done" /\ UNCHANGED reserveVars
    BY <1>7 DEF SendTransient, MarkTransient
  <2>2. CASE MarkTransient
    BY <2>1, <2>2, MarkSets
  <2>3. CASE UNCHANGED <<lockVars, outage>>
    BY <2>1, <2>3 DEF DeliveryKept
  <2> QED
    BY <1>7, <2>2, <2>3 DEF SendTransient
<1>8. CASE SenderExit
  BY <1>8 DEF SenderExit, DeliverySet, DeliveryStates
<1>9. CASE LateArrival \/ Finished \/ UNCHANGED vars
  BY <1>9 DEF LateArrival, Finished, vars, DeliveryKept
<1>10. CASE StopAndDrain
  <2>1. ~holding /\ holding' = FALSE /\ sealed' = FALSE /\ sender' = sender
    BY <1>10 DEF StopAndDrain, ReleaseReservation
  <2>2. holding' = holding /\ sealed' = sealed
    <3>1. holding \in BOOLEAN /\ sealed \in BOOLEAN /\ ~sealed
      BY <2>1 DEF TypeOK, FlagsOK, IInv, ReservationShape
    <3> QED
      BY <2>1, <3>1, Zenon
  <2>3. PICK state \in {"TerminalFault", "Stopped", "Draining"} :
          /\ SetDeliveryState(state)
          /\ deliveryState = "TerminalFault" => state = "TerminalFault"
    BY <1>10 DEF StopAndDrain
  <2> QED
    BY <2>1, <2>2, <2>3 DEF DeliverySet, DeliveryStates
<1>11. CASE DrainWaitEnds
  BY <1>11 DEF DrainWaitEnds, DeliveryKept
<1>12. CASE StopAfterJoin
  BY <1>12 DEF StopAfterJoin, DeliveryKept, DeliverySet, DeliveryStates
<1> QED
  BY <1>1, <1>2, <1>3, <1>4, <1>5, <1>6, <1>7, <1>8, <1>9, <1>10, <1>11, <1>12
  DEF Next, Rpc, Sender, Stopper

LEMMA GenerationStep ==
  ASSUME TypeOK, IInv, GenerationShape, [Next]_vars PROVE GenerationShape'
<1>0. generation \in Nat /\ reservedGeneration \in Nat
  BY DEF TypeOK, DataOK
<1>1. CASE Start /\ ~holding /\ ~holding' /\ UNCHANGED <<sealed>>
  BY <1>1 DEF Start, GenerationShape
<1>2. CASE DeliveryKept /\ UNCHANGED <<reserveVars, outage>>
  BY <1>2 DEF DeliveryKept, GenerationShape, reserveVars
<1>3. CASE DeliveryKept /\ Producer /\ sender' = sender
  <2>1. ASSUME NEW n \in 1 .. MaxSet, ReserveEnqueueEnvelopeSet(n)
        PROVE  GenerationShape'
    <3>1. \/ UNCHANGED <<holding, reservedGeneration, outage>>
          \/ /\ reservedGeneration' = generation /\ outage' = FALSE
             /\ deliveryState = "Healthy"
      BY <2>1 DEF ReserveEnqueueEnvelopeSet, ReserveGranted, ReserveTerminal,
                  ReserveUnavailable, reserveVars
    <3>2. generation <= generation /\ UNCHANGED <<deliveryState, generation, sender>>
      BY <1>0, <1>3 DEF DeliveryKept
    <3> QED
      BY <3>1, <3>2 DEF GenerationShape
  <2>2. CASE SealEnqueueEnvelopeSet \/ CommitEnqueueEnvelopeSet
    <3>1. ~holding' \/ UNCHANGED <<holding, reservedGeneration, outage>>
      BY <2>2 DEF SealEnqueueEnvelopeSet, CommitEnqueueEnvelopeSet,
                  ReleaseReservation
    <3> QED
      BY <1>3, <3>1 DEF DeliveryKept, GenerationShape
  <2> QED
    BY <1>3, <2>1, <2>2 DEF Producer
<1>4. ASSUME NEW state \in DeliveryStates, DeliverySet(state)
      PROVE  GenerationShape'
  <2>1. /\ deliveryState' = state
        /\ generation' = IF deliveryState = state THEN generation
                         ELSE generation + 1
        /\ outage' = (outage \/ (holding /\ state # "Healthy"))
        /\ holding' = holding
        /\ holding => reservedGeneration' = reservedGeneration
        /\ sender' = "done" => state # "Healthy"
    BY <1>4 DEF DeliverySet, SetDeliveryState
  <2>2. CASE deliveryState = state
    BY <2>1, <2>2 DEF GenerationShape
  <2>3. CASE deliveryState # state
    <3>1. generation' = generation + 1
      BY <2>1, <2>3
    <3>2. holding => /\ reservedGeneration' <= generation'
                     /\ reservedGeneration' # generation'
      BY <1>0, <2>1, <3>1 DEF GenerationShape
    <3> QED
      BY <2>1, <3>2 DEF GenerationShape
  <2> QED
    BY <2>2, <2>3
<1> QED
  BY <1>1, <1>2, <1>3, <1>4, DeliverySteps

(* The generation a reservation remembers tells whether there was an       *)
(* outage since (SetDeliveryStateLocked, delivery_generation_).            *)
THEOREM GenerationInvariant == Spec => []GenerationShape
<1>1. Init => GenerationShape
  BY DEF Init, GenerationShape
<1> QED
  BY <1>1, GenerationStep, InvariantHolds, PTL DEF Spec

(* A seal is given only if delivery stayed healthy since the reservation,  *)
(* and the sealed set is then queued whole (SealEnqueueEnvelopeSet,        *)
(* CommitEnqueueEnvelopeSet).                                              *)
THEOREM SealIsSoundHolds == Spec => SealIsSound
<1>1. ASSUME TypeOK, IInv, GenerationShape, [Next]_vars
      PROVE  [/\ sealed' /\ ~sealed => ~outage
              /\ sealed /\ ~sealed' => queue' = queue \o reserved]_vars
  <2>1. CASE sealed' = sealed
    BY <2>1
  <2>2. ASSUME NEW n \in 1 .. MaxSet, ReserveEnqueueEnvelopeSet(n)
        PROVE  ~sealed /\ ~sealed'
    <3>1. ~holding /\ (sealed' = FALSE \/ sealed' = sealed)
      BY <2>2 DEF ReserveEnqueueEnvelopeSet, ReserveGranted, ReserveTerminal,
                  ReserveUnavailable, reserveVars
    <3> QED
      BY <1>1, <3>1 DEF IInv, ReservationShape
  <2>3. CASE SealEnqueueEnvelopeSet
    <3>1. ~sealed /\ (sealed' => holding /\ DeliveryUnbroken)
      BY <2>3 DEF SealEnqueueEnvelopeSet, ReleaseReservation
    <3> QED
      BY <1>1, <3>1 DEF DeliveryUnbroken, GenerationShape
  <2>4. CASE CommitEnqueueEnvelopeSet
    BY <2>4 DEF CommitEnqueueEnvelopeSet, ReleaseReservation
  <2>5. ASSUME NEW state \in DeliveryStates, DeliverySet(state)
        PROVE  sealed' = sealed
    BY <2>5 DEF DeliverySet
  <2> QED
    BY <1>1, <2>1, <2>2, <2>3, <2>4, <2>5, DeliverySteps
    DEF Producer, reserveVars
<1> QED
  BY <1>1, GenerationInvariant, InvariantHolds, PTL DEF Spec, SealIsSound

(* A terminal fault is final, draining only ends, and a sender that has    *)
(* ended is never healthy again: no late answer revives delivery           *)
(* (MarkHealthy, MarkTransient, SenderLoop's end, StopAndDrain).           *)
THEOREM DeliveryNeverRevivesHolds == Spec => DeliveryNeverRevives
<1>1. ASSUME TypeOK, IInv, GenerationShape, [Next]_vars
      PROVE  [/\ deliveryState = "TerminalFault" =>
                   deliveryState' = "TerminalFault"
              /\ deliveryState = "Draining" =>
                   deliveryState' \in {"Draining", "Stopped", "TerminalFault"}
              /\ sender = "done" => deliveryState' # "Healthy"]_vars
  <2>1. CASE Start
    BY <2>1 DEF Start
  <2>2. CASE DeliveryKept
    BY <1>1, <2>2 DEF DeliveryKept, GenerationShape
  <2>3. ASSUME NEW state \in DeliveryStates, DeliverySet(state)
        PROVE  /\ deliveryState = "TerminalFault" =>
                    deliveryState' = "TerminalFault"
               /\ deliveryState = "Draining" =>
                    deliveryState' \in {"Draining", "Stopped", "TerminalFault"}
               /\ sender = "done" => deliveryState' # "Healthy"
    BY <2>3 DEF DeliverySet, SetDeliveryState
  <2> QED
    BY <1>1, <2>1, <2>2, <2>3, DeliverySteps
<1> QED
  BY <1>1, GenerationInvariant, InvariantHolds, PTL
  DEF Spec, DeliveryNeverRevives
=============================================================================
