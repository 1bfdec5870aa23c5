------------------------- MODULE ModelUpdateProofs -------------------------
(***************************************************************************)
(* Machine-checked proofs about ModelUpdate, for any number of models,     *)
(* training runs, agents, failures and restarts of the Distributor.        *)
(***************************************************************************)
EXTENDS ModelUpdate, TLAPS, WellFoundedInduction

ModelTypes ==
  /\ catalog \subseteq Models /\ disk \subseteq Models
  /\ index \subseteq Nat
  /\ active \in AnyModel /\ staged \in AnyModel /\ target \in AnyModel
  /\ segments \in [Agents -> AnyModel]
  /\ attempt \in Nat

\* The Distributor can always name its latest model.
CatalogShape ==
  catalog # {} => Latest \in catalog /\ \A n \in catalog : n.step <= Latest.step

\* Everything the client works with is of the training run it has pinned.
LineageShape ==
  /\ \A m \in {active, staged} \ {NoModel} : m.lineage = lineage
  /\ pc \in {"fetching", "probing", "acking"} =>
       target \in Models /\ target.lineage = lineage

\* What the thread has in hand in each of its calls.
ThreadShape ==
  /\ call = "initial" =>
       /\ pc \in {"discovering", "fetching", "probing", "acking", "pruning"}
       /\ pc # "pruning" => active = NoModel
       /\ staged = NoModel /\ pending = NoAck
       /\ \A a \in Agents : segments[a] = NoModel
       /\ pc \in {"probing", "acking"} => target \in disk
       /\ pc \in {"discovering", "fetching", "probing"} => sent = {}
  /\ call = "failed" =>
       /\ pc \in {"probing", "acking"}
       /\ active = NoModel /\ staged = NoModel /\ pending = NoAck
  /\ call = "promote" =>
       /\ pc \in {"probing", "acking"} /\ pending = NoAck
       /\ target = staged /\ ValidateStagedModelProgress(staged)
  /\ call = "retry" =>
       pc = "acking" /\ pending # NoAck /\ target = pending.model
  /\ call \in {"initial", "failed", "promote", "retry", "none"}
  /\ call = "none" => pc \notin {"probing", "acking"}
  /\ pending # NoAck => \/ pc \in {"protecting", "pruning", "idle", "stopped"}
                        \/ call = "retry"
  /\ pc = "acking" /\ attempt > 1 => AckInHand \in sent

\* A process sends LOADED acknowledgements or a FAILED one, which ends it.
SentShape ==
  \/ /\ \A ack \in sent : ack.status = "LOADED"
     /\ call = "failed" => sent = {}
  \/ /\ \A ack \in sent : ack.status = "FAILED"
     /\ call = "failed" \/ pc = "failed"

IInv ==
  /\ ModelTypes /\ CatalogShape /\ LineageShape /\ ThreadShape /\ SentShape
  /\ InUseIsCached /\ UsedIsAcknowledged /\ PendingIsStaged

-----------------------------------------------------------------------------
\* Models and the values that stand for the absence of one.

LEMMA MinNat ==
  ASSUME NEW T \in SUBSET Nat, T # {}
  PROVE  \E x \in T : \A y \in T : x <= y
<1> DEFINE R == OpToRel(<, Nat)
<1>1. IsWellFoundedOn(R, Nat)
  BY NatLessThanWellFounded, Zenon
<1>2. \A x, y \in Nat : <<x, y>> \in R <=> x < y
  BY Zenon DEF OpToRel
<1> HIDE DEF R
<1>3. PICK x \in T : \A y \in T : ~(<<y, x>> \in R)
  BY <1>1, WFMin
<1>4. ASSUME NEW y \in T PROVE x <= y
  <2>1. x \in Nat /\ y \in Nat /\ ~(y < x)
    BY <1>2, <1>3
  <2> QED BY <2>1
<1> QED BY <1>4

LEMMA ModelFacts ==
  /\ NoModel \notin Models
  /\ \A m \in AnyModel : m.step \in Nat /\ m.samples \in Nat
  /\ \A m \in Models : m.lineage \in Lineages /\ m.lineage # "none"
  /\ NoAck.model = NoModel
  BY ConstantsAssumption DEF Models, AnyModel, NoModel, NoAck

LEMMA NewAckFacts ==
  ASSUME NEW m \in Models, NEW a
  PROVE  /\ [model |-> m, authority |-> a] # NoAck
         /\ [model |-> m, authority |-> a].model = m
  BY ModelFacts DEF NoAck

-----------------------------------------------------------------------------
\* What an action preserves by leaving alone what a part of IInv is about.

LEMMA CatalogFrame ==
  ASSUME CatalogShape, catalog' = catalog
  PROVE  CatalogShape'
  BY DEF CatalogShape, Latest

LEMMA CacheFrame ==
  ASSUME InUseIsCached, UNCHANGED <<active, staged, pending, segments>>,
         disk \subseteq disk',
         pc' = "pruning" => pc = "pruning" /\ protect' = protect
  PROVE  InUseIsCached'
  BY DEF InUseIsCached, InUse

LEMMA UsedFrame ==
  ASSUME UsedIsAcknowledged, UNCHANGED <<active, segments>>,
         recorded \subseteq recorded'
  PROVE  UsedIsAcknowledged'
  BY DEF UsedIsAcknowledged

LEMMA PendingFrame ==
  ASSUME PendingIsStaged, UNCHANGED <<active, staged, pending>>,
         sent \subseteq sent'
  PROVE  PendingIsStaged'
  BY DEF PendingIsStaged, ValidateStagedModelProgress

LEMMA InitInvariant == Init => IInv
<1> SUFFICES ASSUME Init PROVE IInv
  OBVIOUS
<1> USE ModelFacts DEF Init
<1>1. ModelTypes /\ CatalogShape
  BY DEF ModelTypes, CatalogShape, AnyModel
<1>2. LineageShape /\ SentShape
  BY DEF LineageShape, SentShape
<1>3. ThreadShape
  BY DEF ThreadShape
<1>4. InUseIsCached /\ UsedIsAcknowledged /\ PendingIsStaged
  BY DEF InUseIsCached, InUse, UsedIsAcknowledged, PendingIsStaged
<1> QED BY <1>1, <1>2, <1>3, <1>4 DEF IInv

-----------------------------------------------------------------------------
\* The Distributor and the handlers of other threads.

LEMMA PublishPreserves ==
  ASSUME IInv, NEW m \in Models, Publish(m)
  PROVE  IInv'
<1> USE DEF Publish, cacheVars, runtimeVars, threadVars
<1>1. CatalogShape'
  <2>1. /\ m \in catalog' /\ m.step \in Nat
        /\ \A n \in catalog' : n.step \in Nat /\ n.step <= m.step
    BY ModelFacts DEF IInv, CatalogShape, ModelTypes, AnyModel
  <2> QED BY <2>1 DEF CatalogShape, Latest
<1>2. ModelTypes'
  BY DEF IInv, ModelTypes
<1>3. LineageShape' /\ ThreadShape' /\ SentShape'
  BY DEF IInv, LineageShape, ThreadShape, SentShape, AckInHand,
         ValidateStagedModelProgress
<1>4. InUseIsCached' /\ UsedIsAcknowledged' /\ PendingIsStaged'
  BY CacheFrame, UsedFrame, PendingFrame DEF IInv
<1> QED BY <1>1, <1>2, <1>3, <1>4 DEF IInv

LEMMA RestartPreserves ==
  ASSUME IInv, Restart
  PROVE  IInv'
<1> USE DEF Restart, cacheVars, runtimeVars, threadVars
<1>1. CatalogShape'
  <2>1. CASE catalog' = catalog
    BY <2>1, CatalogFrame DEF IInv
  <2>2. CASE \E m \in Models : catalog' = {m}
    BY <2>2, ModelFacts DEF CatalogShape, Latest, AnyModel
  <2> QED BY <2>1, <2>2
<1>2. ModelTypes'
  BY DEF IInv, ModelTypes
<1>3. LineageShape' /\ ThreadShape' /\ SentShape'
  BY DEF IInv, LineageShape, ThreadShape, SentShape, AckInHand,
         ValidateStagedModelProgress
<1>4. InUseIsCached' /\ UsedIsAcknowledged' /\ PendingIsStaged'
  BY CacheFrame, UsedFrame, PendingFrame DEF IInv
<1> QED BY <1>1, <1>2, <1>3, <1>4 DEF IInv

LEMMA HandleLateAckPreserves ==
  ASSUME IInv, NEW ack \in inFlight, HandleLateAck(ack)
  PROVE  IInv'
<1> USE DEF HandleLateAck, Record, cacheVars, runtimeVars, threadVars
<1>1. ModelTypes' /\ CatalogShape'
  BY CatalogFrame DEF IInv, ModelTypes
<1>2. LineageShape' /\ ThreadShape' /\ SentShape'
  BY DEF IInv, LineageShape, ThreadShape, SentShape, AckInHand,
         ValidateStagedModelProgress
<1>3. InUseIsCached' /\ UsedIsAcknowledged' /\ PendingIsStaged'
  BY CacheFrame, UsedFrame, PendingFrame DEF IInv
<1> QED BY <1>1, <1>2, <1>3 DEF IInv

\* A segment is pinned to the active model, which InUse already counts, and only
\* while no start is under way.
LEMMA HandlersPreserve ==
  ASSUME IInv, NEW a \in Agents, EnsureAgentSegmentPin(a) \/ CloseSegment(a)
  PROVE  IInv'
<1> USE DEF EnsureAgentSegmentPin, CloseSegment, distributorVars, cacheVars,
            runtimeVars, threadVars
<1>1. /\ segments' \in [Agents -> AnyModel]
      /\ \A b \in Agents : segments'[b] \in {segments[b], active, NoModel}
  BY DEF IInv, ModelTypes, AnyModel
<1>2. ModelTypes' /\ CatalogShape'
  BY <1>1, CatalogFrame DEF IInv, ModelTypes
<1>3. LineageShape' /\ ThreadShape' /\ SentShape'
  BY DEF IInv, LineageShape, ThreadShape, SentShape, AckInHand,
         ValidateStagedModelProgress, MutexFree
<1>4. InUseIsCached' /\ UsedIsAcknowledged'
  BY <1>1 DEF IInv, InUseIsCached, InUse, UsedIsAcknowledged
<1>5. PendingIsStaged'
  BY PendingFrame DEF IInv
<1> QED BY <1>2, <1>3, <1>4, <1>5 DEF IInv

-----------------------------------------------------------------------------
\* Discovery, download and the cycle of the watcher.

\* The discovered model is of the training run that is pinned or becomes pinned;
\* a run that is not pinned yet has no model in use.
LEMMA GetAvailableRangePreserves ==
  ASSUME IInv, GetAvailableRange
  PROVE  IInv'
<1> USE DEF GetAvailableRange, distributorVars, runtimeVars
<1>1. Latest \in Models /\ lineage \in {"none", Latest.lineage}
  BY DEF Discoverable, IInv, CatalogShape, ModelTypes
<1>2. /\ target' \in AnyModel
      /\ pc' \in {"fetching", "discovering", "promoting"}
      /\ pc' = "fetching" => target' = Latest
      /\ pc' = "discovering" => call = "initial"
      /\ pc' = "promoting" => call # "initial"
  BY <1>1 DEF GoOn, AnyModel
<1>3. ModelTypes' /\ CatalogShape'
  BY <1>2, CatalogFrame DEF IInv, ModelTypes
<1> HIDE DEF GetAvailableRange
<1>4. LineageShape'
  BY <1>1, <1>2, ModelFacts
     DEF IInv, LineageShape, ModelTypes, AnyModel, GetAvailableRange
<1>5. ThreadShape' /\ SentShape'
  BY <1>2 DEF IInv, ThreadShape, SentShape, AckInHand, GetAvailableRange,
              ValidateStagedModelProgress
<1> USE DEF GetAvailableRange
<1>6. InUseIsCached' /\ UsedIsAcknowledged' /\ PendingIsStaged'
  BY <1>2, CacheFrame, UsedFrame, PendingFrame DEF IInv
<1> QED BY <1>3, <1>4, <1>5, <1>6 DEF IInv

LEMMA RangeUnavailablePreserves ==
  ASSUME IInv, RangeUnavailable
  PROVE  IInv'
<1> USE DEF RangeUnavailable, cacheVars, runtimeVars, GoOn
<1>1. ModelTypes' /\ CatalogShape'
  BY CatalogFrame DEF IInv, ModelTypes
<1>2. LineageShape' /\ ThreadShape' /\ SentShape'
  BY DEF IInv, LineageShape, ThreadShape, SentShape, AckInHand,
         ValidateStagedModelProgress
<1>3. InUseIsCached' /\ UsedIsAcknowledged' /\ PendingIsStaged'
  BY CacheFrame, UsedFrame, PendingFrame DEF IInv
<1> QED BY <1>1, <1>2, <1>3 DEF IInv

\* Nothing is fetched while an acknowledgement is pending, so staging a newer
\* model cannot displace the one it is about.
LEMMA FetchPrepareAndPublishPreserves ==
  ASSUME IInv, FetchPrepareAndPublish
  PROVE  IInv'
<1> USE DEF FetchPrepareAndPublish, distributorVars
<1>1. PICK m \in Offered : /\ disk' = disk \cup {m}
                           /\ index' = index \cup {m.step} /\ Stage(m)
  OBVIOUS
<1>2. m \in Models /\ m.lineage = lineage /\ m.step \in Nat /\ m \in disk'
  BY <1>1, ModelFacts
     DEF Offered, IInv, ModelTypes, LineageShape, AnyModel
<1>3. /\ staged' \in {staged, m} /\ target' \in {NoModel, m}
      /\ \/ call = "initial" /\ pc' = "probing" /\ staged' = staged
            /\ target' = m
         \/ call # "initial" /\ pc' = "promoting"
  BY <1>1 DEF Stage
<1>4. pending = NoAck
  BY DEF IInv, ThreadShape
<1>5. ModelTypes' /\ CatalogShape'
  BY <1>1, <1>2, <1>3, CatalogFrame DEF IInv, ModelTypes, AnyModel
<1>6. LineageShape'
  BY <1>2, <1>3 DEF IInv, LineageShape
<1>7. ThreadShape' /\ SentShape'
  BY <1>2, <1>3, <1>4 DEF IInv, ThreadShape, SentShape
<1>8. InUseIsCached'
  BY <1>1, <1>2, <1>3 DEF IInv, InUseIsCached, InUse
<1>9. UsedIsAcknowledged' /\ PendingIsStaged'
  BY <1>4, UsedFrame DEF IInv, PendingIsStaged
<1> QED BY <1>5, <1>6, <1>7, <1>8, <1>9 DEF IInv

LEMMA FetchFailsPreserves ==
  ASSUME IInv, FetchFails
  PROVE  IInv'
<1> USE DEF FetchFails
<1>1. disk \subseteq disk' /\ disk' \subseteq Models
  BY DEF IInv, ModelTypes, Offered
<1>2. \/ call = "initial" /\ pc' = "probing" /\ call' = "failed"
         /\ target' = target
      \/ call # "initial" /\ pc' = "promoting" /\ call' = call
         /\ target' = NoModel
  OBVIOUS
<1>3. ModelTypes' /\ CatalogShape'
  BY <1>1, <1>2, CatalogFrame DEF IInv, ModelTypes, AnyModel
<1>4. LineageShape' /\ ThreadShape'
  BY <1>2 DEF IInv, LineageShape, ThreadShape, ValidateStagedModelProgress
<1>5. SentShape'
  BY <1>2 DEF IInv, SentShape, ThreadShape
<1>6. InUseIsCached' /\ UsedIsAcknowledged' /\ PendingIsStaged'
  BY <1>1, <1>2, CacheFrame, UsedFrame, PendingFrame DEF IInv
<1> QED BY <1>3, <1>4, <1>5, <1>6 DEF IInv

\* The model a pending acknowledgement is about is the staged one.
LEMMA BeginCyclePreserves ==
  ASSUME IInv, BeginCycle
  PROVE  IInv'
<1> USE DEF BeginCycle, distributorVars, cacheVars, runtimeVars
<1>1. CASE pending = NoAck
  <2>1. ModelTypes' /\ CatalogShape'
    BY <1>1, CatalogFrame DEF IInv, ModelTypes
  <2>2. LineageShape' /\ ThreadShape' /\ SentShape'
    BY <1>1 DEF IInv, LineageShape, ThreadShape, SentShape, AckInHand,
                ValidateStagedModelProgress
  <2>3. InUseIsCached' /\ UsedIsAcknowledged' /\ PendingIsStaged'
    BY <1>1, CacheFrame, UsedFrame, PendingFrame DEF IInv
  <2> QED BY <2>1, <2>2, <2>3 DEF IInv
<1>2. CASE pending # NoAck
  <2>1. staged = pending.model /\ staged \in Models
    BY <1>2, ModelFacts DEF IInv, PendingIsStaged, ModelTypes, AnyModel,
                            ValidateStagedModelProgress, NoModel
  <2>2. ModelTypes' /\ CatalogShape'
    BY <1>2, <2>1, CatalogFrame DEF IInv, ModelTypes
  <2>3. LineageShape'
    BY <1>2, <2>1, ModelFacts DEF IInv, LineageShape
  <2>4. ThreadShape' /\ SentShape'
    BY <1>2 DEF IInv, ThreadShape, SentShape
  <2>5. InUseIsCached' /\ UsedIsAcknowledged' /\ PendingIsStaged'
    BY <1>2, CacheFrame, UsedFrame, PendingFrame DEF IInv
  <2> QED BY <2>2, <2>3, <2>4, <2>5 DEF IInv
<1> QED BY <1>1, <1>2

LEMMA PromotionPreserves ==
  ASSUME IInv, TryPromoteStagedModel \/ NothingToPromote
  PROVE  IInv'
<1> USE DEF TryPromoteStagedModel, NothingToPromote, distributorVars,
            cacheVars, runtimeVars
<1>1. pending = NoAck
  BY DEF IInv, ThreadShape
<1>2. ModelTypes' /\ CatalogShape'
  BY CatalogFrame DEF IInv, ModelTypes
<1>3. LineageShape'
  BY DEF IInv, LineageShape, ModelTypes, AnyModel
<1>4. ThreadShape' /\ SentShape'
  BY <1>1 DEF IInv, ThreadShape, SentShape, ValidateStagedModelProgress
<1>5. InUseIsCached' /\ UsedIsAcknowledged' /\ PendingIsStaged'
  BY CacheFrame, UsedFrame, PendingFrame DEF IInv
<1> QED BY <1>2, <1>3, <1>4, <1>5 DEF IInv

-----------------------------------------------------------------------------
\* Acknowledging.

LEMMA ProbePreserves ==
  ASSUME IInv, ProbeAckAuthority \/ ProbeUnavailable \/ ProbeRejected
  PROVE  IInv'
<1> USE DEF ProbeAckAuthority, ProbeUnavailable, ProbeRejected, Finish,
            distributorVars, cacheVars, runtimeVars
<1>1. /\ pc = "probing" /\ call \in {"initial", "failed", "promote"}
      /\ UNCHANGED <<catalog, disk, index, lineage, active, staged, pending,
                     segments, recorded, sent, protect>>
      /\ \/ /\ pc' \in {"probing", "acking"} /\ UNCHANGED <<call, target>>
            /\ pc' = "acking" => attempt' = 1
            /\ pc' = "probing" => attempt' = attempt
         \/ /\ pc' \in {"failed", "protecting", "idle"}
            /\ call = "failed" => pc' = "failed"
            /\ call' = "none" /\ attempt' = 0 /\ target' = NoModel
  BY DEF IInv, ThreadShape
<1> HIDE DEF ProbeAckAuthority, ProbeUnavailable, ProbeRejected
<1>2. ModelTypes' /\ CatalogShape'
  BY <1>1, CatalogFrame DEF IInv, ModelTypes, AnyModel
<1>3. LineageShape'
  BY <1>1 DEF IInv, LineageShape
<1>4. ThreadShape'
  BY <1>1 DEF IInv, ThreadShape, ValidateStagedModelProgress
<1>5. SentShape'
  BY <1>1 DEF IInv, SentShape
<1>6. InUseIsCached' /\ UsedIsAcknowledged' /\ PendingIsStaged'
  BY <1>1, CacheFrame, UsedFrame, PendingFrame DEF IInv
<1> QED BY <1>2, <1>3, <1>4, <1>5, <1>6 DEF IInv

\* What every end of an acknowledgement that activates nothing leaves alone.
AckFrame ==
  /\ pc = "acking"
  /\ UNCHANGED <<catalog, disk, index, lineage, segments, protect>>
  /\ recorded \subseteq recorded'
  /\ sent \subseteq sent' /\ sent' \subseteq sent \cup {AckInHand}

\* The call goes on.
LEMMA AckGoesOn ==
  ASSUME IInv, AckFrame, UNCHANGED <<active, staged, pending, pc, call, target>>,
         attempt' \in Nat, attempt' > 1 => AckInHand \in sent'
  PROVE  IInv'
<1> USE DEF AckFrame
<1>1. ModelTypes' /\ CatalogShape'
  BY CatalogFrame DEF IInv, ModelTypes
<1>2. LineageShape'
  BY DEF IInv, LineageShape
<1>3. ThreadShape'
  BY DEF IInv, ThreadShape, ValidateStagedModelProgress, AckInHand
<1>4. SentShape'
  BY DEF IInv, SentShape, AckInHand
<1>5. InUseIsCached' /\ UsedIsAcknowledged' /\ PendingIsStaged'
  BY CacheFrame, UsedFrame, PendingFrame DEF IInv
<1> QED BY <1>1, <1>2, <1>3, <1>4, <1>5 DEF IInv

\* The call ends without a change of the models, with a pending acknowledgement
\* only if a retry began with one, and as a FAILED start ends the process.
LEMMA AckEnds ==
  ASSUME IInv, AckFrame, NEW next \in {"failed", "idle", "protecting"},
         Finish(next), UNCHANGED <<active, staged>>,
         pending' \in {pending, NoAck},
         call = "failed" => next = "failed",
         call = "retry" => next = "idle"
  PROVE  IInv'
<1> USE DEF AckFrame, Finish
<1>1. ModelTypes' /\ CatalogShape'
  BY CatalogFrame DEF IInv, ModelTypes, AnyModel
<1>2. LineageShape'
  BY DEF IInv, LineageShape
<1>3. ThreadShape'
  BY DEF IInv, ThreadShape
<1>4. SentShape'
  BY DEF IInv, SentShape, AckInHand
<1>5. InUseIsCached'
  BY ModelFacts DEF IInv, InUseIsCached, InUse
<1>6. UsedIsAcknowledged' /\ PendingIsStaged'
  BY UsedFrame DEF IInv, PendingIsStaged, ValidateStagedModelProgress
<1> QED BY <1>1, <1>2, <1>3, <1>4, <1>5, <1>6 DEF IInv

\* An acknowledgement that was sent and whose outcome stays unknown.
LEMMA AckUncertainPreserves ==
  ASSUME IInv, AckFrame, AckInHand \in sent', AckUncertain
  PROVE  IInv'
<1> USE DEF AckUncertain, runtimeVars
<1>0. call \in {"initial", "failed", "promote", "retry"}
  BY DEF IInv, ThreadShape, AckFrame
<1>1. CASE call = "initial"
  BY <1>1, AckGoesOn
<1>2. CASE call = "failed"
  BY <1>2, AckEnds
<1>3. CASE call = "retry"
  BY <1>3, AckEnds
<1>4. CASE call = "promote"
  <2> USE DEF AckFrame, Finish
  <2>1. /\ target \in Models /\ target = staged
        /\ pending' = [model |-> target, authority |-> ackAuthority]
        /\ pending' # NoAck /\ pending'.model = target
        /\ ValidateStagedModelProgress(staged)
        /\ AckInHand = [model |-> target, status |-> "LOADED"]
        /\ UNCHANGED <<active, staged>>
        /\ pc' = "protecting" /\ call' = "none" /\ attempt' = 0
        /\ target' = NoModel
    BY <1>4, NewAckFacts DEF IInv, ThreadShape, LineageShape, AckInHand
  <2> HIDE DEF AckUncertain
  <2>2. ModelTypes' /\ CatalogShape'
    BY <2>1, CatalogFrame DEF IInv, ModelTypes, AnyModel
  <2>3. LineageShape' /\ ThreadShape'
    BY <2>1 DEF IInv, LineageShape, ThreadShape
  <2>4. SentShape'
    BY <1>4, <2>1 DEF IInv, SentShape
  <2>5. InUseIsCached'
    BY <2>1 DEF IInv, InUseIsCached, InUse
  <2>6. UsedIsAcknowledged' /\ PendingIsStaged'
    BY <2>1, UsedFrame
       DEF IInv, PendingIsStaged, ValidateStagedModelProgress
  <2> QED BY <2>2, <2>3, <2>4, <2>5, <2>6 DEF IInv
<1> QED BY <1>0, <1>1, <1>2, <1>3, <1>4

LEMMA AckWithoutSuccessPreserves ==
  ASSUME IInv,
         \/ AckRejected \/ AckUnanswered \/ AckAnswerInvalid
         \/ DeadlineElapsed \/ ActivationDeadlineElapsed
  PROVE  IInv'
<1> USE DEF cacheVars, runtimeVars
<1>1. CASE AckRejected
  <2>1. AckFrame /\ AckInHand \in sent'
    BY <1>1 DEF AckRejected, AckFrame
  <2>2. CASE authority # ackAuthority
    BY <1>1, <2>1, <2>2, AckUncertainPreserves DEF AckRejected
  <2>3. CASE authority = ackAuthority
    BY <1>1, <2>1, <2>3, AckEnds DEF AckRejected
  <2> QED BY <2>2, <2>3
<1>2. CASE AckUnanswered
  <2>1. AckFrame /\ AckInHand \in sent'
    BY <1>2 DEF AckUnanswered, AckFrame
  <2>2. CASE attempt < MaxAttempts
    BY <1>2, <2>1, <2>2, AckGoesOn DEF AckUnanswered, IInv, ModelTypes
  <2>3. CASE ~(attempt < MaxAttempts)
    BY <1>2, <2>1, <2>3, AckUncertainPreserves DEF AckUnanswered
  <2> QED BY <2>2, <2>3
<1>3. CASE AckAnswerInvalid
  BY <1>3, AckUncertainPreserves DEF AckAnswerInvalid, AckFrame
<1>4. CASE DeadlineElapsed
  <2>1. CASE pc = "acking"
    BY <1>4, <2>1, AckEnds DEF DeadlineElapsed, AckFrame
  <2>2. CASE pc # "acking"
    <3> USE DEF DeadlineElapsed, Finish
    <3>1. ModelTypes' /\ CatalogShape'
      BY <1>4, CatalogFrame DEF IInv, ModelTypes, AnyModel
    <3>2. LineageShape' /\ ThreadShape' /\ SentShape'
      BY <1>4, <2>2 DEF IInv, LineageShape, ThreadShape, SentShape
    <3>3. InUseIsCached' /\ UsedIsAcknowledged' /\ PendingIsStaged'
      BY <1>4, <2>2, CacheFrame, UsedFrame, PendingFrame DEF IInv
    <3> QED BY <3>1, <3>2, <3>3 DEF IInv
  <2> QED BY <2>1, <2>2
<1>5. CASE ActivationDeadlineElapsed
  <2>1. AckFrame /\ AckInHand \in sent'
    BY <1>5 DEF ActivationDeadlineElapsed, AckFrame, IInv, ThreadShape
  <2> QED BY <1>5, <2>1, AckUncertainPreserves DEF ActivationDeadlineElapsed
<1> QED BY <1>1, <1>2, <1>3, <1>4, <1>5

\* The model that becomes active is in the cache and its acknowledgement is
\* recorded: at start it was just published, later it is the staged one.
LEMMA ActivatePreserves ==
  ASSUME IInv, pc = "acking", call \in {"initial", "promote", "retry"},
         Record(AckInHand), sent' = sent \cup {AckInHand}, Activate,
         UNCHANGED <<catalog, disk, index, lineage, segments>>,
         \/ /\ call = "initial" /\ pc' = "pruning" /\ protect' = {target.step}
            /\ UNCHANGED <<call, attempt, target>>
         \/ /\ call # "initial" /\ pc' \in {"protecting", "idle"}
            /\ call' = "none" /\ attempt' = 0 /\ target' = NoModel
  PROVE  IInv'
<1> USE DEF Activate
<1>1. target \in Models /\ target.lineage = lineage /\ target \in disk
  BY ModelFacts DEF IInv, LineageShape, ThreadShape, InUseIsCached, InUse,
                    PendingIsStaged
<1>2. AckInHand = [model |-> target, status |-> "LOADED"]
  BY DEF AckInHand
<1>3. ModelTypes' /\ CatalogShape'
  BY <1>1, CatalogFrame DEF IInv, ModelTypes, AnyModel
<1>4. LineageShape'
  BY <1>1 DEF IInv, LineageShape
<1>5. ThreadShape'
  BY <1>1 DEF IInv, ThreadShape
<1>6. SentShape'
  BY <1>2 DEF IInv, SentShape
<1>7. InUseIsCached'
  BY <1>1, ModelFacts DEF IInv, InUseIsCached, InUse, ThreadShape
<1>8. UsedIsAcknowledged'
  BY <1>2 DEF IInv, UsedIsAcknowledged, Record
<1>9. PendingIsStaged'
  BY DEF PendingIsStaged
<1> QED BY <1>3, <1>4, <1>5, <1>6, <1>7, <1>8, <1>9 DEF IInv

LEMMA AckAppliedPreserves ==
  ASSUME IInv, AckApplied
  PROVE  IInv'
<1> USE DEF AckApplied, cacheVars, runtimeVars
<1>0. call \in {"initial", "failed", "promote", "retry"}
  BY DEF IInv, ThreadShape
<1>1. CASE call = "failed"
  <2>1. AckFrame
    BY <1>1 DEF AckFrame, Record
  <2> QED BY <1>1, <2>1, AckEnds
<1>2. CASE call # "failed"
  BY <1>0, <1>2, ActivatePreserves DEF Finish
<1> QED BY <1>1, <1>2

-----------------------------------------------------------------------------
\* Pruning spares the directories of the protected steps.

LEMMA ProtectPreserves ==
  ASSUME IInv, Protect
  PROVE  IInv'
<1> USE DEF Protect, distributorVars, cacheVars, runtimeVars
<1>1. ModelTypes' /\ CatalogShape'
  BY CatalogFrame DEF IInv, ModelTypes
<1>2. LineageShape' /\ ThreadShape' /\ SentShape'
  BY DEF IInv, LineageShape, ThreadShape, SentShape,
         ValidateStagedModelProgress
<1>3. InUseIsCached'
  BY DEF IInv, InUseIsCached, InUse, ProtectedCachedModelSteps
<1>4. UsedIsAcknowledged' /\ PendingIsStaged'
  BY UsedFrame, PendingFrame DEF IInv
<1> QED BY <1>1, <1>2, <1>3, <1>4 DEF IInv

LEMMA NextPrunableFacts ==
  ASSUME IInv, Prunable # {}
  PROVE  NextPrunable \in index /\ NextPrunable \notin protect
<1>1. Prunable \in SUBSET Nat
  BY DEF IInv, ModelTypes, Prunable
<1>2. \E x \in Prunable : \A y \in Prunable : x <= y
  BY <1>1, MinNat
<1>3. NextPrunable \in Prunable
  BY <1>2 DEF NextPrunable
<1> QED BY <1>3 DEF Prunable

LEMMA PruningPreserves ==
  ASSUME IInv, PruneStep \/ PruneEnds \/ PruneFails
  PROVE  IInv'
<1> USE DEF distributorVars, cacheVars, runtimeVars, threadVars, EndPruning,
            Finish
<1>1. /\ pc = "pruning"
      /\ UNCHANGED <<catalog, lineage, active, staged, pending, segments,
                     recorded, sent>>
      /\ index' \subseteq index
      /\ \/ UNCHANGED <<pc, call, attempt, target, protect>>
         \/ pc' = "idle" /\ call' = "none" /\ attempt' = 0
            /\ target' = NoModel
  BY DEF PruneStep, PruneEnds, PruneFails
<1>2. disk' \subseteq disk /\ \A d \in disk \ disk' : d.step \notin protect
  <2>1. CASE PruneEnds
    BY <2>1 DEF PruneEnds
  <2>2. CASE Prunable # {} /\ disk' \in {disk, disk \ DirectoryOf(NextPrunable)}
    BY <2>2, NextPrunableFacts DEF DirectoryOf
  <2> QED BY <2>1, <2>2 DEF PruneStep, PruneFails
<1>3. ModelTypes' /\ CatalogShape'
  BY <1>1, <1>2, CatalogFrame DEF IInv, ModelTypes, AnyModel
<1>4. LineageShape' /\ ThreadShape'
  BY <1>1 DEF IInv, LineageShape, ThreadShape, ValidateStagedModelProgress
<1>5. SentShape'
  BY <1>1 DEF IInv, SentShape, ThreadShape
<1>6. InUseIsCached'
  BY <1>1, <1>2 DEF IInv, InUseIsCached, InUse
<1>7. UsedIsAcknowledged' /\ PendingIsStaged'
  BY <1>1, UsedFrame, PendingFrame DEF IInv
<1> QED BY <1>3, <1>4, <1>5, <1>6, <1>7 DEF IInv

LEMMA StopPreserves ==
  ASSUME IInv, StopModelWatcher \/ UNCHANGED vars
  PROVE  IInv'
<1> USE DEF StopModelWatcher, vars, distributorVars, cacheVars, runtimeVars,
            threadVars
<1>1. ModelTypes' /\ CatalogShape'
  BY CatalogFrame DEF IInv, ModelTypes
<1>2. LineageShape' /\ ThreadShape' /\ SentShape'
  BY DEF IInv, LineageShape, ThreadShape, SentShape, AckInHand,
         ValidateStagedModelProgress
<1>3. InUseIsCached' /\ UsedIsAcknowledged' /\ PendingIsStaged'
  BY CacheFrame, UsedFrame, PendingFrame DEF IInv
<1> QED BY <1>1, <1>2, <1>3 DEF IInv

-----------------------------------------------------------------------------
\* IInv holds in every state the start, the watcher, the handlers and a
\* Distributor that fails and restarts can reach together.
THEOREM ModelInvariant == Spec => []IInv
<1>1. IInv /\ [Next]_vars => IInv'
  <2> SUFFICES ASSUME IInv, [Next]_vars PROVE IInv'
    OBVIOUS
  <2>1. CASE \E m \in Models : Publish(m)
    BY <2>1, PublishPreserves
  <2>2. CASE Restart
    BY <2>2, RestartPreserves
  <2>3. CASE \E ack \in inFlight : HandleLateAck(ack)
    BY <2>3, HandleLateAckPreserves
  <2>4. CASE \E a \in Agents : EnsureAgentSegmentPin(a) \/ CloseSegment(a)
    BY <2>4, HandlersPreserve
  <2>5. CASE ModelThread
    BY <2>5, GetAvailableRangePreserves, RangeUnavailablePreserves,
       FetchPrepareAndPublishPreserves, FetchFailsPreserves,
       BeginCyclePreserves, PromotionPreserves, ProbePreserves,
       AckAppliedPreserves, AckWithoutSuccessPreserves, ProtectPreserves,
       PruningPreserves
       DEF ModelThread
  <2>6. CASE StopModelWatcher \/ UNCHANGED vars
    BY <2>6, StopPreserves
  <2> QED BY <2>1, <2>2, <2>3, <2>4, <2>5, <2>6 DEF Next
<1> QED BY <1>1, InitInvariant, PTL DEF Spec

\* The directory of every model in use is in the cache, and the pruning under
\* way, which works with protected steps read before it released the mutex,
\* will spare it (ProtectedCachedModelStepsLocked, PruneCache).
THEOREM InUseIsCachedHolds == Spec => []InUseIsCached
<1>1. IInv => InUseIsCached
  BY DEF IInv
<1> QED BY <1>1, ModelInvariant, PTL

\* No segment is pinned to a model whose LOADED acknowledgement no Distributor
\* has recorded (ActivateStagedModel, RetryPendingModelAck).
THEOREM UsedIsAcknowledgedHolds == Spec => []UsedIsAcknowledged
<1>1. IInv => UsedIsAcknowledged
  BY DEF IInv
<1> QED BY <1>1, ModelInvariant, PTL

\* A pending acknowledgement is about the staged model, which is newer than the
\* active one and whose acknowledgement has been sent (RetryPendingModelAck).
THEOREM PendingIsStagedHolds == Spec => []PendingIsStaged
<1>1. IInv => PendingIsStaged
  BY DEF IInv
<1> QED BY <1>1, ModelInvariant, PTL

\* LOADED and FAILED are never both sent for a model: a FAILED acknowledgement is
\* the first and the last one a process sends (LoadInitialModel).
THEOREM LoadedNeverOverwrittenHolds == Spec => []LoadedNeverOverwritten
<1>1. IInv => LoadedNeverOverwritten
  <2> SUFFICES ASSUME IInv, NEW m \in Models,
                      [model |-> m, status |-> "LOADED"] \in sent,
                      [model |-> m, status |-> "FAILED"] \in sent
               PROVE  FALSE
    BY DEF LoadedNeverOverwritten
  <2> QED BY DEF IInv, SentShape
<1> QED BY <1>1, ModelInvariant, PTL

\* The active model only moves forward in its training run: what is promoted or
\* recovered is the staged model, which was validated against the active one
\* and stays so, and it is of the lineage the client has pinned, whatever a
\* restarted Distributor offers (PinModelLineage, ValidateStagedModelProgress).
THEOREM ModelOnlyAdvancesHolds == Spec => ModelOnlyAdvances
<1> DEFINE Advances ==
      active' # active =>
        \/ active = NoModel
        \/ /\ active'.lineage = active.lineage
           /\ active'.step > active.step /\ active'.samples >= active.samples
<1>1. IInv /\ [Next]_vars => [Advances]_vars
  <2> SUFFICES ASSUME IInv, Next, active' # active, active # NoModel
               PROVE  /\ active'.lineage = active.lineage
                      /\ active'.step > active.step
                      /\ active'.samples >= active.samples
    OBVIOUS
  <2>1. AckApplied
    BY DEF Next, Publish, Restart, HandleLateAck, EnsureAgentSegmentPin,
           CloseSegment, ModelThread, StopModelWatcher, GetAvailableRange,
           RangeUnavailable, FetchPrepareAndPublish, FetchFails, BeginCycle,
           TryPromoteStagedModel, NothingToPromote, ProbeAckAuthority,
           ProbeUnavailable, ProbeRejected, AckRejected, AckUnanswered,
           AckAnswerInvalid, DeadlineElapsed, ActivationDeadlineElapsed,
           Protect, PruneStep, PruneEnds, PruneFails, AckUncertain,
           runtimeVars, IInv, ThreadShape
  <2>2. call \in {"promote", "retry"} /\ active' = target
    BY <2>1 DEF AckApplied, Activate, runtimeVars, IInv, ThreadShape
  <2>3. target = staged /\ ValidateStagedModelProgress(staged)
    BY <2>2 DEF IInv, ThreadShape, PendingIsStaged
  <2>4. active.lineage = lineage /\ target.lineage = lineage
    BY <2>1 DEF IInv, LineageShape, AckApplied
  <2> QED BY <2>2, <2>3, <2>4 DEF ValidateStagedModelProgress
<1> QED BY <1>1, ModelInvariant, PTL DEF Spec, ModelOnlyAdvances
=============================================================================
