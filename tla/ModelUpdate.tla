---------------------------- MODULE ModelUpdate ----------------------------
(***************************************************************************)
(* How a model reaches the agents: LoadInitialModel at start, then the     *)
(* watcher thread (ModelWatchLoop, RetryPendingModelAck,                   *)
(* ActivateStagedModel in training_runtime.tpp) that discovers, downloads, *)
(* stages, acknowledges and activates newer models and prunes the cache    *)
(* directory through ModelDistributorClient.                               *)
(*                                                                         *)
(* The Model Distributor is external: it publishes models, may be down,    *)
(* may restart under another identity (authority), and may handle an ACK   *)
(* whose answer the client never got, even long after the client gave up.  *)
(* Handlers of other threads pin segments to the active model whenever the *)
(* runtime's mutex is free.  The watcher holds the mutex while it activates*)
(* a staged model, its two remote calls included, but not while it retries *)
(* a pending ACK or prunes.                                                *)
(*                                                                         *)
(* A cache directory is the model in it: the lineage and step name it, the *)
(* rest is its content.  Temporary directories are private to a download   *)
(* and left out.  Every failure of the Distributor, of a deadline and of   *)
(* the file system takes one of FaultBudget.  A cache that an earlier      *)
(* process left directories in is explored without further failures.       *)
(***************************************************************************)
EXTENDS Naturals, FiniteSets

CONSTANTS
  Lineages,     \* training runs a Distributor may serve
  FirstLineage, \* the one the first instance serves
  MaxStep,      \* bound: model steps
  MaxSamples,   \* bound: trained_samples
  MaxRestarts,  \* bound: restarts of the Distributor
  FaultBudget,  \* bound: failures
  MaxLeftovers, \* bound: directories an earlier process left in the cache
  Agents

\* The initial model has trained on nothing.
Models == {m \in [lineage : Lineages, step : 0 .. MaxStep,
                  samples : 0 .. MaxSamples] : m.samples <= m.step}
NoModel == [lineage |-> "none", step |-> 0, samples |-> 0]

ASSUME ConstantsAssumption ==
  /\ MaxStep \in Nat /\ MaxSamples \in Nat
  /\ MaxRestarts \in Nat /\ FaultBudget \in Nat
  /\ "none" \notin Lineages /\ FirstLineage \in Lineages
  /\ MaxLeftovers \in Nat

VARIABLES
  \* the Distributor
  authority, catalog,
  inFlight,     \* ACKs it may still handle although the client gave up
  recorded,     \* ACKs it has handled, with the identity that did
  faults,
  \* the client's cache and lineage
  lineage, disk, index,
  \* the runtime
  active, staged, pending, modelState, degraded, segments,
  \* the thread that works on models
  pc, call, attempt,
  target,       \* discovered identity, then the model in hand
  ackAuthority, \* the authority the ACK is pinned to
  protect,      \* steps the pruning under way spares
  \* history
  sent,         \* ACKs sent
  recoveredFor  \* the authority the active model's pending ACK was pinned to

distributorVars == <<authority, catalog, inFlight, recorded, faults>>
cacheVars == <<lineage, disk, index>>
runtimeVars == <<active, staged, pending, modelState, degraded, recoveredFor>>
threadVars == <<pc, call, attempt, target, ackAuthority, protect, sent>>
vars == <<distributorVars, cacheVars, runtimeVars, segments, threadVars>>

NoAck == [model |-> NoModel, authority |-> 0]

\* One directory per lineage and step.
Directories(models) ==
  \A m, n \in models : m.lineage = n.lineage /\ m.step = n.step => m = n

Init ==
  /\ authority = 1 /\ catalog = {} /\ inFlight = {} /\ recorded = {}
  /\ lineage = "none" /\ index = {}
  /\ disk \in {models \in SUBSET Models :
                 /\ Directories(models)
                 /\ Cardinality(models) <= MaxLeftovers}
  /\ faults = IF disk = {} THEN FaultBudget ELSE 0
  /\ active = NoModel /\ staged = NoModel /\ pending = NoAck
  /\ modelState = "WAITING" /\ degraded = FALSE
  /\ segments = [a \in Agents |-> NoModel]
  /\ pc = "discovering" /\ call = "initial" /\ attempt = 0
  /\ target = NoModel /\ ackAuthority = 0 /\ protect = {}
  /\ sent = {} /\ recoveredFor = 0

Fault == faults > 0 /\ faults' = faults - 1

-----------------------------------------------------------------------------
\* The Distributor.

Latest == CHOOSE m \in catalog : \A n \in catalog : n.step <= m.step

Publish(m) ==
  /\ authority = 1 => m.lineage = FirstLineage
  /\ catalog # {} => /\ m.lineage = Latest.lineage
                     /\ m.step > Latest.step /\ m.samples >= Latest.samples
  /\ catalog' = catalog \cup {m}
  /\ UNCHANGED <<authority, inFlight, recorded, faults, cacheVars,
                 runtimeVars, segments, threadVars>>

\* A new instance, with the same models or those of another run.
Restart ==
  /\ authority <= MaxRestarts
  /\ authority' = authority + 1
  /\ catalog' \in {catalog} \cup {{m} : m \in Models}
  /\ UNCHANGED <<inFlight, recorded, faults, cacheVars, runtimeVars, segments,
                 threadVars>>

Record(ack) ==
  recorded' = recorded \cup {[authority |-> authority, ack |-> ack]}

\* An ACK is handled after the client gave up on it.
HandleLateAck(ack) ==
  /\ inFlight' = inFlight \ {ack}
  /\ Record(ack)
  /\ UNCHANGED <<authority, catalog, faults, cacheVars, runtimeVars, segments,
                 threadVars>>

-----------------------------------------------------------------------------
\* The handlers pin a new segment to the active model and close it again.

MutexFree == call \notin {"initial", "promote"}

EnsureAgentSegmentPin(a) ==
  /\ MutexFree /\ modelState = "READY" /\ ~degraded
  /\ segments[a] = NoModel
  /\ segments' = [segments EXCEPT ![a] = active]
  /\ UNCHANGED <<distributorVars, cacheVars, runtimeVars, threadVars>>

CloseSegment(a) ==
  /\ MutexFree /\ segments[a] # NoModel
  /\ segments' = [segments EXCEPT ![a] = NoModel]
  /\ UNCHANGED <<distributorVars, cacheVars, runtimeVars, threadVars>>

-----------------------------------------------------------------------------
\* Discovery, download and publication in the cache.  The mutants stand for
\* plausible errors in the definition after them.

ShouldFetchModelCandidate(step) ==
  /\ active # NoModel => step > active.step
  /\ staged # NoModel => step > staged.step

\* Where the thread goes without a new model.
GoOn == IF call = "initial" THEN "discovering" ELSE "promoting"

DiscoverableInAnyLineage == catalog # {}

\* GetAvailableRange succeeds: there is a model, of the lineage the first answer
\* has pinned.
Discoverable == catalog # {} /\ lineage \in {"none", Latest.lineage}

GetAvailableRange ==
  /\ pc = "discovering" /\ Discoverable
  /\ lineage' = Latest.lineage
  /\ LET fetch == ShouldFetchModelCandidate(Latest.step)
     IN  /\ pc' = IF fetch THEN "fetching" ELSE GoOn
         /\ target' = IF fetch THEN Latest ELSE NoModel
  /\ UNCHANGED <<distributorVars, disk, index, runtimeVars, segments, call,
                 attempt, ackAuthority, protect, sent>>

\* No model, another lineage or no answer.  The watcher still tries to promote
\* what it has staged; at start the discovery is repeated.
RangeUnavailable ==
  /\ pc = "discovering"
  /\ \/ ~Discoverable /\ UNCHANGED faults
     \/ Fault
  /\ pc' = GoOn
  /\ UNCHANGED <<authority, catalog, inFlight, recorded, cacheVars,
                 runtimeVars, segments, call, attempt, target, ackAuthority,
                 protect, sent>>

\* The manifests the Distributor may return for the discovered identity.
Offered == {m \in catalog : m.lineage = target.lineage /\ m.step = target.step}

\* The directory for a model, if there is one.
Published(m) == {d \in disk : d.lineage = m.lineage /\ d.step = m.step}

\* What follows a model that is ready in the cache.
Stage(m) ==
  IF call = "initial"
  THEN pc' = "probing" /\ target' = m /\ UNCHANGED staged
  ELSE /\ pc' = "promoting" /\ target' = NoModel
       /\ staged' = IF ShouldFetchModelCandidate(m.step) THEN m ELSE staged

\* FetchPrepareAndPublishModel: a directory that is there must be the same.
FetchPrepareAndPublish ==
  /\ pc = "fetching"
  /\ \E m \in Offered :
       /\ Published(m) \subseteq {m}
       /\ disk' = disk \cup {m}
       /\ index' = index \cup {m.step}
       /\ Stage(m)
  /\ UNCHANGED <<distributorVars, lineage, active, pending, modelState,
                 degraded, recoveredFor, segments, call, attempt,
                 ackAuthority, protect, sent>>

\* At start a model that was selected and failed ends the start, after a FAILED
\* ACK; the watcher drops it and will discover it again.
FetchFails ==
  /\ pc = "fetching"
  /\ \/ /\ Offered = {} \/ \E m \in Offered : ~(Published(m) \subseteq {m})
        /\ UNCHANGED <<faults, disk>>
     \/ /\ Fault
        /\ \E m \in Offered :
             \* the directory may be in place when its fsync fails
             disk' \in {disk} \cup (IF Published(m) = {} THEN {disk \cup {m}}
                                    ELSE {})
  /\ IF call = "initial"
     THEN /\ pc' = "probing" /\ call' = "failed"
          /\ modelState' = "FAILED" /\ degraded' = TRUE /\ UNCHANGED target
     ELSE /\ pc' = "promoting" /\ target' = NoModel
          /\ UNCHANGED <<call, modelState, degraded>>
  /\ UNCHANGED <<authority, catalog, inFlight, recorded, lineage, index, active,
                 staged, pending, recoveredFor, segments, attempt,
                 ackAuthority, protect, sent>>

-----------------------------------------------------------------------------
\* Acknowledging.  call says for whom: initial, failed (the FAILED ACK of a
\* start), promote or retry.

CycleIgnoresPending ==
  /\ pc = "idle" /\ modelState # "FAILED"
  /\ pc' = "discovering"
  /\ UNCHANGED <<distributorVars, cacheVars, runtimeVars, segments, call,
                 attempt, target, ackAuthority, protect, sent>>

\* A cycle of the watcher: a pending ACK is all the cycle is about.
BeginCycle ==
  /\ pc = "idle" /\ modelState # "FAILED"
  /\ IF pending # NoAck
     THEN /\ pc' = "acking" /\ call' = "retry" /\ attempt' = 1
          /\ target' = pending.model /\ ackAuthority' = pending.authority
     ELSE /\ pc' = "discovering"
          /\ UNCHANGED <<call, attempt, target, ackAuthority>>
  /\ UNCHANGED <<distributorVars, cacheVars, runtimeVars, segments, protect,
                 sent>>

ValidateStagedModelProgress(candidate) ==
  candidate.step > active.step /\ candidate.samples >= active.samples

\* TryPromoteStagedModelForWatcher takes the mutex ...
TryPromoteStagedModel ==
  /\ pc = "promoting" /\ staged # NoModel
  /\ ValidateStagedModelProgress(staged)
  /\ pc' = "probing" /\ call' = "promote" /\ target' = staged
  /\ UNCHANGED <<distributorVars, cacheVars, runtimeVars, segments, attempt,
                 ackAuthority, protect, sent>>

\* ... and has nothing to promote, or a model that would go back.
NothingToPromote ==
  /\ pc = "promoting"
  /\ staged # NoModel => ~ValidateStagedModelProgress(staged)
  /\ degraded' = (degraded \/ staged # NoModel)
  /\ pc' = "protecting"
  /\ UNCHANGED <<distributorVars, cacheVars, active, staged, pending,
                 modelState, recoveredFor, segments, call, attempt, target,
                 ackAuthority, protect, sent>>

\* ProbeAckAuthorityDisposition: the ACK is pinned to the instance that answers.
ProbeAckAuthority ==
  /\ pc = "probing"
  /\ pc' = "acking" /\ attempt' = 1 /\ ackAuthority' = authority
  /\ UNCHANGED <<distributorVars, cacheVars, runtimeVars, segments, call,
                 target, protect, sent>>

\* The thread is done with its call.
Finish(next) ==
  /\ pc' = next /\ call' = "none" /\ attempt' = 0
  /\ target' = NoModel /\ ackAuthority' = 0

ProbeUnavailable ==
  /\ pc = "probing" /\ Fault
  /\ CASE call = "initial" -> UNCHANGED <<pc, call, attempt, target,
                                          ackAuthority>>
       [] call = "failed"  -> Finish("failed")
       [] call = "promote" -> Finish("protecting")
  /\ UNCHANGED <<authority, catalog, inFlight, recorded, cacheVars,
                 runtimeVars, segments, protect, sent>>

\* A status that is not retryable, or an invalid identity.
ProbeRejected ==
  /\ pc = "probing" /\ call = "promote" /\ Fault
  /\ modelState' = "FAILED" /\ degraded' = TRUE
  /\ Finish("idle")
  /\ UNCHANGED <<authority, catalog, inFlight, recorded, cacheVars, active,
                 staged, pending, recoveredFor, segments, protect, sent>>

AckInHand ==
  [model |-> target, status |-> IF call = "failed" THEN "FAILED" ELSE "LOADED"]

\* The model in hand becomes the one new segments are pinned to.
Activate ==
  /\ active' = target /\ staged' = NoModel /\ pending' = NoAck
  /\ modelState' = "READY"
  /\ recoveredFor' = IF call = "retry" THEN ackAuthority ELSE 0
  /\ UNCHANGED degraded

UncertainActivates ==
  IF call = "promote" THEN Activate /\ Finish("protecting")
  ELSE /\ attempt' = 1
       /\ UNCHANGED <<pc, call, target, ackAuthority, runtimeVars>>

UncertainSendsFailed ==
  IF call = "initial"
  THEN /\ pc' = "probing" /\ call' = "failed"
       /\ UNCHANGED <<attempt, target, ackAuthority, runtimeVars>>
  ELSE Finish("failed") /\ UNCHANGED runtimeVars

\* The outcome stays unknown: the start repeats the call, an activation leaves
\* a pending ACK, a retry leaves it as it is.
AckUncertain ==
  CASE call = "initial" ->
         attempt' = 1 /\ UNCHANGED <<pc, call, target, ackAuthority, runtimeVars>>
    [] call = "failed"  -> Finish("failed") /\ UNCHANGED runtimeVars
    [] call = "promote" ->
         /\ pending' = [model |-> target, authority |-> ackAuthority]
         /\ Finish("protecting")
         /\ UNCHANGED <<active, staged, modelState, degraded, recoveredFor>>
    [] call = "retry"   -> Finish("idle") /\ UNCHANGED runtimeVars

AppliedStaysPending ==
  /\ pc = "acking"
  /\ Record(AckInHand) /\ sent' = sent \cup {AckInHand}
  /\ IF call = "initial"
     THEN /\ Activate /\ pc' = "pruning" /\ protect' = {target.step}
          /\ UNCHANGED <<call, attempt, target, ackAuthority>>
     ELSE AckUncertain /\ UNCHANGED protect
  /\ UNCHANGED <<authority, catalog, inFlight, faults, cacheVars, segments>>

\* APPLIED or ALREADY_APPLIED, whoever answers.
AckApplied ==
  /\ pc = "acking"
  /\ Record(AckInHand) /\ sent' = sent \cup {AckInHand}
  /\ CASE call = "initial" ->
            /\ Activate /\ pc' = "pruning" /\ protect' = {target.step}
            /\ UNCHANGED <<call, attempt, target, ackAuthority>>
       [] call = "failed" ->
            Finish("failed") /\ UNCHANGED <<runtimeVars, protect>>
       [] call = "promote" ->
            Activate /\ Finish("protecting") /\ UNCHANGED protect
       [] call = "retry" ->
            Activate /\ Finish("idle") /\ UNCHANGED protect
  /\ UNCHANGED <<authority, catalog, inFlight, faults, cacheVars, segments>>

\* NOT_FOUND or REJECTED counts only from the instance the ACK is pinned to.
AckRejected ==
  /\ pc = "acking" /\ Fault
  /\ sent' = sent \cup {AckInHand}
  /\ IF authority # ackAuthority THEN AckUncertain
     ELSE /\ modelState' = "FAILED"
          /\ degraded' = TRUE
          /\ pending' = IF call = "retry" THEN NoAck ELSE pending
          /\ Finish(IF call \in {"initial", "failed"} THEN "failed" ELSE "idle")
          /\ UNCHANGED <<active, staged, recoveredFor>>
  /\ UNCHANGED <<authority, catalog, inFlight, recorded, cacheVars, segments,
                 protect>>

MaxAttempts == 3

\* The call fails; whether the Distributor handled it is not known.
AckUnanswered ==
  /\ pc = "acking" /\ Fault
  /\ sent' = sent \cup {AckInHand}
  /\ inFlight' = inFlight \cup {AckInHand}
  /\ IF attempt < MaxAttempts
     THEN attempt' = attempt + 1
          /\ UNCHANGED <<pc, call, target, ackAuthority, runtimeVars>>
     ELSE AckUncertain
  /\ UNCHANGED <<authority, catalog, recorded, cacheVars, segments, protect>>

\* An answer without a valid identity is worth nothing.
AckAnswerInvalid ==
  /\ pc = "acking" /\ Fault
  /\ sent' = sent \cup {AckInHand}
  /\ inFlight' = inFlight \cup {AckInHand}
  /\ AckUncertain
  /\ UNCHANGED <<authority, catalog, recorded, cacheVars, segments, protect>>

\* startup_timeout_ms elapses.  The unknown outcome of a pending ACK is kept.
DeadlineElapsed ==
  /\ \/ call = "initial" /\ pc \in {"discovering", "probing", "acking"}
     \/ call = "retry" /\ pc = "acking"
  /\ Fault
  /\ modelState' = "FAILED" /\ degraded' = TRUE
  /\ Finish(IF call = "initial" THEN "failed" ELSE "idle")
  /\ UNCHANGED <<authority, catalog, inFlight, recorded, cacheVars, active,
                 staged, pending, recoveredFor, segments, protect, sent>>

\* ... in an activation, before another attempt.
ActivationDeadlineElapsed ==
  /\ call = "promote" /\ pc = "acking" /\ attempt > 1 /\ Fault
  /\ AckUncertain
  /\ UNCHANGED <<authority, catalog, inFlight, recorded, cacheVars, segments,
                 protect, sent>>

-----------------------------------------------------------------------------
\* Pruning.

ProtectedWithoutPins ==
  {m.step : m \in {active, staged, pending.model} \ {NoModel}}

\* ProtectedCachedModelStepsLocked.
ProtectedCachedModelSteps ==
  {m.step : m \in ({active, staged, pending.model}
                     \cup {segments[a] : a \in Agents}) \ {NoModel}}

\* The protected steps are read under the mutex and used without it.
Protect ==
  /\ pc = "protecting"
  /\ protect' = ProtectedCachedModelSteps
  /\ pc' = "pruning"
  /\ UNCHANGED <<distributorVars, cacheVars, runtimeVars, segments, call,
                 attempt, target, ackAuthority, sent>>

Prunable == index \ protect
NextPrunable == CHOOSE n \in Prunable : \A k \in Prunable : n <= k
DirectoryOf(n) == {d \in disk : d.lineage = lineage /\ d.step = n}

\* Back to the top of the watcher's loop, or into it after the start.
EndPruning ==
  Finish("idle") /\ protect' = {}

\* One round of PruneCache: the directory is renamed and removed, then the step
\* leaves the index.
PruneStep ==
  /\ pc = "pruning" /\ Prunable # {} /\ DirectoryOf(NextPrunable) # {}
  /\ disk' = disk \ DirectoryOf(NextPrunable)
  /\ index' = index \ {NextPrunable}
  /\ UNCHANGED <<distributorVars, lineage, runtimeVars, segments, threadVars>>

PruneEnds ==
  /\ pc = "pruning" /\ Prunable = {}
  /\ EndPruning
  /\ UNCHANGED <<distributorVars, cacheVars, runtimeVars, segments, sent>>

\* The first failure ends it: a directory that cannot be read, or a failure
\* before or after the rename.
PruneFails ==
  /\ pc = "pruning" /\ Prunable # {}
  /\ \/ DirectoryOf(NextPrunable) = {} /\ UNCHANGED <<faults, disk>>
     \/ /\ Fault
        /\ disk' \in {disk, disk \ DirectoryOf(NextPrunable)}
  /\ EndPruning
  /\ UNCHANGED <<authority, catalog, inFlight, recorded, lineage, index,
                 runtimeVars, segments, sent>>

StopModelWatcher ==
  /\ pc = "idle"
  /\ pc' = "stopped"
  /\ UNCHANGED <<distributorVars, cacheVars, runtimeVars, segments, call,
                 attempt, target, ackAuthority, protect, sent>>

-----------------------------------------------------------------------------
ModelThread ==
  \/ GetAvailableRange \/ RangeUnavailable
  \/ FetchPrepareAndPublish \/ FetchFails
  \/ BeginCycle \/ TryPromoteStagedModel \/ NothingToPromote
  \/ ProbeAckAuthority \/ ProbeUnavailable \/ ProbeRejected
  \/ AckApplied \/ AckRejected \/ AckUnanswered \/ AckAnswerInvalid
  \/ DeadlineElapsed \/ ActivationDeadlineElapsed
  \/ Protect \/ PruneStep \/ PruneEnds \/ PruneFails

Next ==
  \/ \E m \in Models : Publish(m)
  \/ Restart
  \/ \E ack \in inFlight : HandleLateAck(ack)
  \/ \E a \in Agents : EnsureAgentSegmentPin(a) \/ CloseSegment(a)
  \/ ModelThread
  \/ StopModelWatcher

Spec == Init /\ [][Next]_vars

\* The thread runs until it is stopped.
FairSpec == Spec /\ WF_vars(ModelThread)

-----------------------------------------------------------------------------
Acks == [model : Models, status : {"LOADED", "FAILED"}]
AnyModel == Models \cup {NoModel}
InUse == ({active, staged, pending.model} \cup {segments[a] : a \in Agents})
           \ {NoModel}

\* Types of the Distributor, the cache, the runtime and the thread.
TypeOK ==
  /\ authority \in 1 .. MaxRestarts + 1 /\ catalog \subseteq Models
  /\ inFlight \subseteq Acks /\ sent \subseteq Acks
  /\ recorded \subseteq [authority : 1 .. MaxRestarts + 1, ack : Acks]
  /\ faults \in 0 .. FaultBudget
  /\ lineage \in Lineages \cup {"none"}
  /\ disk \subseteq Models /\ Directories(disk)
  /\ index \subseteq 0 .. MaxStep /\ protect \subseteq 0 .. MaxStep
  /\ active \in AnyModel /\ staged \in AnyModel /\ target \in AnyModel
  /\ pending \in [model : AnyModel, authority : 0 .. MaxRestarts + 1]
  /\ modelState \in {"WAITING", "READY", "FAILED"} /\ degraded \in BOOLEAN
  /\ segments \in [Agents -> AnyModel]
  /\ pc \in {"discovering", "fetching", "probing", "acking", "idle",
             "promoting", "protecting", "pruning", "failed", "stopped"}
  /\ call \in {"initial", "failed", "promote", "retry", "none"}
  /\ attempt \in 0 .. MaxAttempts
  /\ ackAuthority \in 0 .. MaxRestarts + 1
  /\ recoveredFor \in 0 .. MaxRestarts + 1

\* The directory of every model that is active, staged, waiting for its ACK or
\* pinned by an open segment is in the cache, and the pruning under way, which
\* read the protected steps before it released the mutex, will spare it
\* (ProtectedCachedModelStepsLocked, PruneCache).
InUseIsCached ==
  \A m \in InUse : m \in disk /\ (pc = "pruning" => m.step \in protect)

\* No segment is pinned to a model whose LOADED acknowledgement no Distributor
\* has recorded: an unknown outcome is never taken for success
\* (ActivateStagedModel, RetryPendingModelAck).
UsedIsAcknowledged ==
  \A m \in ({active} \cup {segments[a] : a \in Agents}) \ {NoModel} :
    \E r \in recorded : r.ack = [model |-> m, status |-> "LOADED"]

\* A possibly applied LOADED acknowledgement is never followed by FAILED for the
\* same model, nor the other way round (LoadInitialModel).
LoadedNeverOverwritten ==
  \A m \in Models :
    ~({[model |-> m, status |-> st] : st \in {"LOADED", "FAILED"}}
        \subseteq sent)

\* While an acknowledgement is pending the staged model is the one it is about,
\* so the fault "acknowledged staged model is no longer available locally" of
\* RetryPendingModelAck cannot occur and no other model takes its place.
PendingIsStaged ==
  pending # NoAck =>
    /\ staged = pending.model /\ ValidateStagedModelProgress(staged)
    /\ [model |-> staged, status |-> "LOADED"] \in sent

\* The active model only moves forward in its training run: a higher step, no
\* fewer trained samples, the same lineage, whatever a restarted Distributor
\* offers (PinModelLineage, ValidateStagedModelProgress).
ModelOnlyAdvances ==
  [][active' # active =>
       \/ active = NoModel
       \/ /\ active'.lineage = active.lineage
          /\ active'.step > active.step /\ active'.samples >= active.samples]_vars

\* The Distributor offers another training run, or fewer trained samples.
OffersForeignRun ==
  /\ catalog # {} /\ active # NoModel
  /\ Latest.lineage # active.lineage \/ Latest.samples < active.samples

\* A directory an earlier process left holds another model under Latest's name.
CacheIsOccupied ==
  \E d \in disk : /\ catalog # {} /\ d # Latest
                  /\ d.lineage = Latest.lineage /\ d.step = Latest.step

\* Again and again the active model is as new as the latest one the Distributor
\* offers of its training run, also when an acknowledgement was lost, a download
\* failed or the Distributor restarted on the way, unless the model state has
\* failed, the watcher was stopped, or a foreign directory occupies the model's
\* place in the cache (ModelWatchLoop).
CatchesUp ==
  []<>(\/ catalog # {} /\ active # NoModel /\ active.step >= Latest.step
       \/ OffersForeignRun \/ CacheIsOccupied
       \/ modelState = "FAILED" \/ catalog = {} \/ pc = "stopped")

\* "Recovery keeps the exact model and Distributor authority": a model that
\* became active through a pending acknowledgement was acknowledged at the
\* instance that acknowledgement was pinned to (AckIdempotently).
AuthorityKept ==
  recoveredFor # 0 =>
    [authority |-> recoveredFor,
     ack |-> [model |-> active, status |-> "LOADED"]] \in recorded

\* A failure only delays pruning ("model cache pruning delayed"): again and
\* again no superseded model is left in the index, while the watcher works
\* (PruneCache).
PruningRecovers ==
  []<>(\/ index \subseteq ProtectedCachedModelSteps
       \/ modelState = "FAILED" \/ pc = "stopped")
=============================================================================
