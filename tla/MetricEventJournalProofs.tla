--------------------- MODULE MetricEventJournalProofs ---------------------
(***************************************************************************)
(* Machine-checked proofs about MetricEventJournal, for every capacity,    *)
(* batch limit and number of Get calls that wait at the same time.         *)
(***************************************************************************)
EXTENDS MetricEventJournal, TLAPS

(* The part of TypeOK the proofs use.                                      *)
JournalTypes ==
  /\ nextEvent \in Nat /\ oldest \in Nat /\ nextBatch \in Nat
  /\ committed \in Cursors
  /\ finalEvent \in Nat
  /\ oldest > 0 /\ nextEvent > 0

LEMMA InitInv == Init => JournalTypes /\ IInv
<1> SUFFICES ASSUME Init PROVE JournalTypes /\ IInv
  OBVIOUS
<1>1. /\ nextEvent = 1 /\ oldest = 1 /\ nextBatch = 1 /\ finalEvent = 0
      /\ committed = [batch |-> 0, event |-> 0] /\ pending = NoBatch
      /\ ~sourceFinal /\ ~finalAcked
      /\ delivered = {} /\ declaredLost = {}
  BY DEF Init
<1>2. JournalTypes
  BY <1>1 DEF JournalTypes, Cursors
<1>3. committed.event = 0 /\ committed.batch = 0 /\ 1 .. 0 = {}
  BY <1>1
<1>4. AcknowledgedOnce
  BY <1>1, <1>3 DEF AcknowledgedOnce
<1>5. IInv
  BY <1>1, <1>3, <1>4 DEF IInv, PendingShape, FinalMeansComplete
<1> QED
  BY <1>2, <1>5

(* Whatever call builds it, a new batch starts after the cursor.           *)
LEMMA BuiltShape ==
  ASSUME JournalTypes, IInv, BuildPendingBatch,
         UNCHANGED <<nextEvent, oldest, committed, sourceFinal>>
  PROVE  nextBatch' = nextBatch + 1 /\ PendingShape'
<1> USE ConstantsAssumption
<1>0. /\ nextEvent \in Nat /\ oldest \in Nat /\ nextBatch \in Nat
      /\ committed.event \in Nat /\ committed.batch \in Nat
      /\ finalEvent \in Nat /\ oldest > 0
  BY DEF JournalTypes, Cursors
<1>1. /\ committed.event < oldest /\ oldest <= nextEvent
      /\ committed.batch < nextBatch
      /\ sourceFinal => finalEvent = nextEvent - 1
  BY DEF IInv
<1>2. /\ nextBatch' = nextBatch + 1
      /\ pending' \in GapBatches \cup EventBatches \cup HeartbeatBatches
  BY DEF BuildPendingBatch
<1>3. NextRequested = committed.event + 1 /\ NextRequested \in Nat
  BY <1>0 DEF NextRequested
<1>4. ASSUME NEW kind \in Kinds, NEW first \in Nat, NEW last \in Nat,
             pending' = BatchOf(kind, first, last),
             kind # "heartbeat" =>
               first = committed.event + 1 /\ first <= last /\ last < nextEvent,
             kind = "gap" => last < oldest
      PROVE  PendingShape'
  <2>1. /\ pending'.seq = nextBatch /\ pending'.kind = kind
        /\ pending'.first = first /\ pending'.last = last
        /\ pending'.final => /\ sourceFinal
                             /\ finalEvent = (IF kind = "heartbeat"
                                              THEN committed.event ELSE last)
    BY <1>4 DEF BatchOf
  <2>2. pending' \in Batches
    <3>1. ( /\ sourceFinal
            /\ finalEvent = (IF kind = "heartbeat" THEN committed.event
                             ELSE last)) \in BOOLEAN
      OBVIOUS
    <3> QED
      BY <1>0, <1>4, <3>1 DEF BatchOf, Batches
  <2> QED
    BY <1>0, <1>1, <1>2, <1>4, <2>1, <2>2 DEF PendingShape
<1>5. CASE pending' \in GapBatches
  <2>1. /\ pending' = BatchOf("gap", NextRequested, oldest - 1)
        /\ NextRequested < oldest
    BY <1>5 DEF GapBatches, HasGap
  <2>2. /\ oldest - 1 \in Nat /\ NextRequested <= oldest - 1
        /\ oldest - 1 < nextEvent /\ oldest - 1 < oldest /\ "gap" \in Kinds
    BY <1>0, <1>1, <1>3, <2>1 DEF Kinds
  <2>3. PendingShape'
    BY <1>3, <1>4, <2>1, <2>2
  <2> QED
    BY <1>2, <2>3
<1>6. CASE pending' \in EventBatches
  <2>1. ~HasGap /\ FirstAvailable = NextRequested
    BY <1>0, <1>1, <1>3, <1>6 DEF EventBatches, HasGap, FirstAvailable
  <2>2. PICK last \in FirstAvailable .. (nextEvent - 1) :
          pending' = BatchOf("events", FirstAvailable, last)
    BY <1>6, <2>1 DEF EventBatches
  <2>3. /\ last \in Nat /\ NextRequested <= last /\ last < nextEvent
        /\ "events" \in Kinds
    BY <1>0, <1>3, <2>1 DEF Kinds
  <2>4. pending' = BatchOf("events", NextRequested, last)
    BY <2>1, <2>2
  <2>5. PendingShape'
    BY <1>3, <1>4, <2>3, <2>4
  <2> QED
    BY <1>2, <2>5
<1>7. CASE pending' \in HeartbeatBatches
  <2>1. pending' = BatchOf("heartbeat", 0, 0)
    BY <1>7 DEF HeartbeatBatches
  <2>2. PendingShape'
    BY <1>4, <2>1 DEF Kinds
  <2> QED
    BY <1>2, <2>2
<1> QED
  BY <1>2, <1>5, <1>6, <1>7

(* An ACK moves the cursor over exactly the pending batch.                 *)
LEMMA AckStep ==
  ASSUME JournalTypes, IInv, AckApplied
  PROVE  /\ JournalTypes' /\ IInv'
         /\ committed.batch < committed'.batch
         /\ (delivered' \ delivered) \cup (declaredLost' \ declaredLost)
              = (committed.event + 1) .. committed'.event
<1>0. /\ nextEvent \in Nat /\ oldest \in Nat /\ nextBatch \in Nat
      /\ committed.event \in Nat /\ committed.batch \in Nat
      /\ finalEvent \in Nat /\ oldest > 0 /\ nextEvent > 0
  BY DEF JournalTypes, Cursors
<1>1. /\ committed.event < oldest /\ oldest <= nextEvent
      /\ committed.batch < nextBatch
      /\ sourceFinal => finalEvent = nextEvent - 1
      /\ \A e \in declaredLost : e < oldest
      /\ AcknowledgedOnce
  BY DEF IInv
<1>2. /\ pending # NoBatch /\ committed' = AckCursor
      /\ AckCursor.batch = pending.seq
      /\ AckCursor.event = (IF pending.kind = "heartbeat" THEN committed.event
                            ELSE pending.last)
      /\ oldest' = OldestAfterAck /\ pending' = NoBatch
      /\ finalAcked' = (finalAcked \/ pending.final)
      /\ delivered' = delivered \cup
           (IF pending.kind = "events" THEN pending.first .. pending.last ELSE {})
      /\ declaredLost' = declaredLost \cup
           (IF pending.kind = "gap" THEN pending.first .. pending.last ELSE {})
      /\ UNCHANGED <<nextEvent, nextBatch, sourceFinal, finalEvent>>
  BY DEF AckApplied, AckMatches
<1>3. /\ pending \in Batches
      /\ committed.batch < pending.seq /\ pending.seq < nextBatch
      /\ pending.kind # "heartbeat" =>
           /\ pending.first = committed.event + 1
           /\ pending.first <= pending.last /\ pending.last < nextEvent
      /\ pending.kind = "gap" => pending.last < oldest
      /\ pending.final =>
           /\ sourceFinal
           /\ nextEvent - 1 = (IF pending.kind = "heartbeat"
                              THEN committed.event ELSE pending.last)
  BY <1>2 DEF IInv, PendingShape
<1>4. /\ pending.seq \in Nat /\ pending.last \in Nat /\ pending.first \in Nat
      /\ pending.kind \in {"events", "gap", "heartbeat"}
  BY <1>3 DEF Batches, Kinds
<1>5. /\ committed'.batch = pending.seq
      /\ committed'.event = (IF pending.kind = "heartbeat" THEN committed.event
                             ELSE pending.last)
      /\ committed'.event \in Nat /\ committed' \in Cursors
  <2>1. committed' = [batch |-> AckCursor.batch, event |-> AckCursor.event]
    BY <1>2 DEF AckCursor
  <2> QED
    BY <1>0, <1>2, <1>4, <2>1 DEF Cursors
<1>6. /\ oldest' \in Nat /\ oldest' > 0 /\ oldest <= oldest'
      /\ oldest' <= nextEvent /\ committed'.event < oldest'
  BY <1>0, <1>1, <1>2, <1>3, <1>4, <1>5 DEF OldestAfterAck
<1>7. JournalTypes'
  BY <1>0, <1>2, <1>5, <1>6 DEF JournalTypes
<1>8. /\ delivered' \cup declaredLost' =
           (delivered \cup declaredLost) \cup
           ((committed.event + 1) .. committed'.event)
      /\ delivered' \cap declaredLost' = {}
      /\ \A e \in declaredLost' : e < oldest'
      /\ (delivered' \ delivered) \cup (declaredLost' \ declaredLost)
           = (committed.event + 1) .. committed'.event
  <2> DEFINE New == (committed.event + 1) .. committed'.event
  <2>0. /\ delivered \cup declaredLost = 1 .. committed.event
        /\ delivered \cap declaredLost = {}
    BY <1>1 DEF AcknowledgedOnce
  <2>1. New \cap (1 .. committed.event) = {}
    BY <1>0, <1>5
  <2>2. CASE pending.kind = "events"
    <3>1. delivered' = delivered \cup New /\ declaredLost' = declaredLost
      BY <1>2, <1>3, <1>5, <2>2
    <3>2. \A e \in declaredLost' : e < oldest'
      <4>1. declaredLost \subseteq 1 .. committed.event
        BY <2>0
      <4> QED
        BY <1>0, <1>1, <1>6, <3>1, <4>1
    <3> HIDE DEF New
    <3> QED
      BY <2>0, <2>1, <3>1, <3>2 DEF New
  <2>3. CASE pending.kind = "gap"
    <3>1. delivered' = delivered /\ declaredLost' = declaredLost \cup New
      BY <1>2, <1>3, <1>5, <2>3
    <3>2. \A e \in declaredLost' : e < oldest'
      <4>1. declaredLost \subseteq 1 .. committed.event
        BY <2>0
      <4>2. declaredLost' \subseteq (1 .. committed.event) \cup New
        BY <3>1, <4>1
      <4>3. committed'.event \in Nat /\ committed'.event < oldest'
        BY <1>5, <1>6
      <4>4. \A e \in (1 .. committed.event) \cup New : e < oldest'
        BY <1>0, <1>1, <1>6, <4>3
      <4> QED
        BY <4>2, <4>4
    <3> HIDE DEF New
    <3> QED
      BY <2>0, <2>1, <3>1, <3>2 DEF New
  <2>4. CASE pending.kind = "heartbeat"
    <3>1. /\ delivered' = delivered /\ declaredLost' = declaredLost
          /\ committed'.event = committed.event
      BY <1>2, <1>5, <2>4
    <3>2. New = {}
      BY <1>0, <3>1
    <3>3. \A e \in declaredLost' : e < oldest'
      <4>1. declaredLost \subseteq 1 .. committed.event
        BY <2>0
      <4> QED
        BY <1>0, <1>1, <1>6, <3>1, <4>1
    <3> HIDE DEF New
    <3> QED
      BY <2>0, <3>1, <3>2, <3>3 DEF New
  <2> QED
    BY <1>4, <2>2, <2>3, <2>4
<1>9. AcknowledgedOnce'
  <2>1. committed.event <= committed'.event
    BY <1>0, <1>3, <1>4, <1>5
  <2>2. 1 .. committed'.event =
          (1 .. committed.event) \cup ((committed.event + 1) .. committed'.event)
    BY <1>0, <1>5, <2>1
  <2> QED
    BY <1>1, <1>8, <2>2 DEF AcknowledgedOnce
<1>10. FinalMeansComplete'
  <2>1. CASE pending.final
    BY <1>2, <1>3, <1>5, <2>1 DEF FinalMeansComplete
  <2>2. CASE ~pending.final
    <3>1. finalAcked' => sourceFinal /\ committed.event = nextEvent - 1
      BY <1>2, <2>2 DEF IInv, FinalMeansComplete
    <3>2. committed.event <= committed'.event /\ committed'.event < nextEvent
      BY <1>0, <1>3, <1>4, <1>5, <1>6
    <3> QED
      BY <1>0, <1>2, <1>5, <3>1, <3>2 DEF FinalMeansComplete
  <2> QED
    BY <2>1, <2>2
<1>11. IInv'
  BY <1>1, <1>2, <1>3, <1>5, <1>6, <1>8, <1>9, <1>10 DEF IInv, PendingShape
<1> QED
  BY <1>3, <1>5, <1>7, <1>8, <1>11

(* Every other step leaves the cursor and the history alone.               *)
LEMMA StepInv ==
  ASSUME JournalTypes, IInv, [Next]_vars
  PROVE  /\ JournalTypes' /\ IInv'
         /\ \/ AckApplied
            \/ UNCHANGED <<committed, delivered, declaredLost>>
<1> USE DEF journalVars, historyVars
<1>0. /\ nextEvent \in Nat /\ oldest \in Nat /\ nextBatch \in Nat
      /\ committed.event \in Nat /\ committed.batch \in Nat
  BY DEF JournalTypes, Cursors
<1>1. CASE AckApplied
  BY <1>1, AckStep
<1>2. CASE AppendFact
  <2>1. /\ ~sourceFinal /\ nextEvent' = nextEvent + 1
        /\ oldest' \in oldest .. (nextEvent + 1)
        /\ UNCHANGED <<nextBatch, committed, pending, sourceFinal, finalEvent,
                       finalAcked, delivered, declaredLost>>
    BY <1>2 DEF AppendFact
  <2>2. JournalTypes'
    BY <1>0, <2>1 DEF JournalTypes
  <2>3. AcknowledgedOnce' /\ FinalMeansComplete'
    BY <2>1 DEF IInv, AcknowledgedOnce, FinalMeansComplete
  <2>4. PendingShape'
    <3>1. CASE pending = NoBatch
      BY <2>1, <3>1 DEF PendingShape
    <3>2. CASE pending # NoBatch
      <4>1. pending \in Batches /\ pending.last \in Nat
        BY <3>2 DEF IInv, PendingShape, Batches
      <4> QED
        BY <1>0, <2>1, <3>2, <4>1 DEF IInv, PendingShape
    <3> QED
      BY <3>1, <3>2
  <2>5. \A e \in declaredLost : e < oldest'
    <3>1. \A e \in declaredLost : e \in 1 .. committed.event /\ e < oldest
      BY DEF IInv, AcknowledgedOnce
    <3> QED
      BY <1>0, <2>1, <3>1
  <2>6. committed.event < oldest' /\ oldest' <= nextEvent'
    BY <1>0, <2>1 DEF IInv
  <2> QED
    BY <2>1, <2>2, <2>3, <2>4, <2>5, <2>6 DEF IInv
<1>3. CASE Finalize
  <2>1. /\ ~sourceFinal /\ sourceFinal' /\ finalEvent' = nextEvent - 1
        /\ UNCHANGED <<nextEvent, oldest, nextBatch, committed, pending,
                       finalAcked, delivered, declaredLost>>
    BY <1>3 DEF Finalize
  <2>2. JournalTypes'
    BY <2>1 DEF JournalTypes
  <2>3. AcknowledgedOnce' /\ FinalMeansComplete' /\ PendingShape'
    BY <2>1 DEF IInv, AcknowledgedOnce, FinalMeansComplete, PendingShape
  <2> QED
    BY <2>1, <2>2, <2>3 DEF IInv
<1>4. CASE /\ BuildPendingBatch
           /\ UNCHANGED <<nextEvent, oldest, committed, sourceFinal,
                          finalEvent, finalAcked, delivered, declaredLost>>
  <2>1. nextBatch' = nextBatch + 1 /\ PendingShape'
    BY <1>4, BuiltShape
  <2>2. JournalTypes'
    BY <1>0, <1>4, <2>1 DEF JournalTypes
  <2>3. AcknowledgedOnce' /\ FinalMeansComplete'
    BY <1>4 DEF IInv, AcknowledgedOnce, FinalMeansComplete
  <2> QED
    BY <1>0, <1>4, <2>1, <2>2, <2>3 DEF IInv
<1>5. CASE UNCHANGED <<nextEvent, oldest, nextBatch, committed, pending,
                       sourceFinal, finalEvent, finalAcked, delivered,
                       declaredLost>>
  BY <1>5 DEF JournalTypes, IInv, AcknowledgedOnce, FinalMeansComplete,
              PendingShape
<1>6. ASSUME NEW c \in Calls, Get(c) \/ GetWakes(c)
      PROVE  \/ /\ BuildPendingBatch
                /\ UNCHANGED <<nextEvent, oldest, committed, sourceFinal,
                               finalEvent, finalAcked, delivered, declaredLost>>
             \/ UNCHANGED <<nextEvent, oldest, nextBatch, committed, pending,
                            sourceFinal, finalEvent, finalAcked, delivered,
                            declaredLost>>
  <2>1. CASE GetPending(c) \/ GetWaits(c)
    BY <2>1 DEF GetPending, GetWaits
  <2>2. CASE GetBuilds(c)
    BY <2>2 DEF GetBuilds
  <2>3. CASE GetWakes(c)
    BY <2>3 DEF GetWakes
  <2> QED
    BY <1>6, <2>1, <2>2, <2>3 DEF Get
<1>7. CASE \/ WaitForFinalAcknowledgement \/ GetGivenUp
           \/ AckAlreadyApplied \/ AckRejected \/ UNCHANGED vars
  <2>1. UNCHANGED <<nextEvent, oldest, nextBatch, committed, pending,
                    sourceFinal, finalEvent, finalAcked, delivered,
                    declaredLost>>
    BY <1>7 DEF WaitForFinalAcknowledgement, GetGivenUp, AckAlreadyApplied,
                AckRejected, vars
  <2> QED
    BY <1>5, <2>1
<1> QED
  BY <1>1, <1>2, <1>3, <1>4, <1>5, <1>6, <1>7 DEF Next, Ack

(* The pending batch always continues the acknowledged prefix, however     *)
(* many Get calls wait at once.                                            *)
THEOREM JournalInvariant == Spec => [](JournalTypes /\ IInv)
<1>1. JournalTypes /\ IInv /\ [Next]_vars => (JournalTypes /\ IInv)'
  BY StepInv
<1> QED
  BY <1>1, InitInv, PTL DEF Spec

(* What is acknowledged is the prefix up to the cursor, each event either  *)
(* delivered or declared lost.                                             *)
THEOREM AcknowledgedOnceHolds == Spec => []AcknowledgedOnce
<1>1. IInv => AcknowledgedOnce
  BY DEF IInv
<1> QED
  BY <1>1, JournalInvariant, PTL

(* The final acknowledgement covers everything the source appended.        *)
THEOREM FinalMeansCompleteHolds == Spec => []FinalMeansComplete
<1>1. IInv => FinalMeansComplete
  BY DEF IInv
<1> QED
  BY <1>1, JournalInvariant, PTL

(* A gap reports only events that are gone.                                *)
THEOREM GapIsHonestHolds == Spec => []GapIsHonest
<1>1. IInv => GapIsHonest
  BY DEF IInv, PendingShape, GapIsHonest, NoBatch
<1> QED
  BY <1>1, JournalInvariant, PTL

(* No event is acknowledged twice: a step that moves the cursor moves it   *)
(* forward, over events no earlier ACK has covered.                        *)
THEOREM NoEventTwiceHolds == Spec => NoEventTwice
<1>1. ASSUME JournalTypes, IInv, [Next]_vars
      PROVE  [committed' # committed =>
                /\ committed'.batch > committed.batch
                /\ (delivered' \ delivered) \cup (declaredLost' \ declaredLost)
                     = (committed.event + 1) .. committed'.event]_vars
  <2>1. CASE AckApplied
    <3>1. /\ committed.batch < committed'.batch
          /\ JournalTypes' /\ committed.batch \in Nat /\ committed'.batch \in Nat
      BY <1>1, <2>1, AckStep DEF JournalTypes, Cursors
    <3> QED
      BY <1>1, <2>1, <3>1, AckStep
  <2>2. CASE UNCHANGED <<committed, delivered, declaredLost>>
    BY <2>2
  <2> QED
    BY <1>1, <2>1, <2>2, StepInv
<1> QED
  BY <1>1, JournalInvariant, PTL DEF Spec, NoEventTwice

-----------------------------------------------------------------------------
(* The consumer waits for a call only when it holds no batch, so that the  *)
(* answer to a call cannot replace a batch whose ACK is still open.        *)
ConsumerInv ==
  /\ ConsumerFollows
  /\ live # NoCall => held = NoBatch

LEMMA AckCursorKept ==
  ASSUME UNCHANGED <<held, cursor>> PROVE AckCursor' = AckCursor
BY DEF AckCursor

LEMMA ConsumerStep ==
  ASSUME ConsumerInv, [Next]_vars PROVE ConsumerInv'
<1> USE DEF ConsumerInv, ConsumerFollows, journalVars, historyVars
<1>1. CASE UNCHANGED <<held, cursor, committed, live>>
  BY <1>1, AckCursorKept
<1>2. ASSUME NEW c \in Calls, Get(c) PROVE ConsumerInv'
  <2>1. /\ live = NoCall /\ held = NoBatch /\ cursor = committed
        /\ UNCHANGED <<cursor, committed>>
    BY <1>2 DEF Get, GetPending, GetBuilds, GetWaits, GetStarts
  <2>2. live' # NoCall => held' = held
    BY <1>2, <2>1 DEF Get, GetPending, GetBuilds, GetWaits
  <2> QED
    BY <2>1, <2>2
<1>3. ASSUME NEW c \in Calls, GetWakes(c) PROVE ConsumerInv'
  <2>1. /\ UNCHANGED <<cursor, committed>>
        /\ live' = IF live = c THEN NoCall ELSE live
        /\ live # c => held' = held
    BY <1>3 DEF GetWakes
  <2>2. CASE live = c
    <3>1. held = NoBatch
      BY <2>2, CallsAssumption
    <3> QED
      BY <2>1, <2>2, <3>1
  <2>3. CASE live # c
    BY <2>1, <2>3, AckCursorKept
  <2> QED
    BY <2>2, <2>3
<1>4. CASE GetGivenUp
  <2>1. live' = NoCall /\ UNCHANGED <<held, cursor, committed>>
    BY <1>4 DEF GetGivenUp
  <2> QED
    BY <2>1, AckCursorKept
<1>5. CASE AckApplied
  <2>1. /\ held # NoBatch /\ committed' = AckCursor /\ live' = live
        /\ \/ held' = NoBatch /\ cursor' = AckCursor
           \/ UNCHANGED <<held, cursor>>
    BY <1>5 DEF AckApplied
  <2> QED
    BY <2>1, AckCursorKept
<1>6. CASE AckAlreadyApplied
  BY <1>6 DEF AckAlreadyApplied
<1>7. CASE AckRejected
  BY <1>7 DEF AckRejected
<1>8. CASE \/ AppendFact \/ Finalize \/ WaitForFinalAcknowledgement
           \/ UNCHANGED vars
  <2>1. UNCHANGED <<held, cursor, committed, live>>
    BY <1>8 DEF AppendFact, Finalize, WaitForFinalAcknowledgement, vars
  <2> QED
    BY <1>1, <2>1
<1> QED
  BY <1>2, <1>3, <1>4, <1>5, <1>6, <1>7, <1>8 DEF Next, Ack

(* After a lost answer the consumer's retried ACK is recognised as already *)
(* applied, however many abandoned Get calls still wait in the server      *)
(* (MetricEventJournal::Ack, ALREADY_APPLIED).                             *)
THEOREM ConsumerFollowsHolds == Spec => []ConsumerFollows
<1>1. Init => ConsumerInv
  BY DEF Init, ConsumerInv, ConsumerFollows
<1>2. ConsumerInv => ConsumerFollows
  BY DEF ConsumerInv
<1> QED
  BY <1>1, <1>2, ConsumerStep, PTL DEF Spec
=============================================================================
