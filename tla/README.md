# A TLA+ verification of rl-aiserver

rl-aiserver is the training server between game clients (which act in a maze
environment), a Model Distributor (which publishes policy models) and a
SamplePool (which collects the transitions the learner trains on). This
directory holds TLA+ models of its concurrent and protocol logic, TLC
configurations that check them on small instances, and TLAPS proofs of the
results that matter most. Paths are relative to the repository (`src/` here is
the root of the checkout; the C++ sources are under `src/src/`).

`PROJECT.json` maps every definition to the lines it models and lists runs,
mutants (plausible errors each property must detect), hazards, findings and
theorems.

## 1. Inventory

| Component | State it keeps | Operations | Talks to |
|---|---|---|---|
| `SampleDistributor` (`task/sample/sample_sender.*`) | outbound queue, one reservation, delivery state, health flags, counters | Start, Reserve / Seal / Commit of an envelope set, the sender thread, StopAndDrain | SamplePool over gRPC; called by the runtime |
| `MetricEventJournal` (`task/metrics/episode_metrics.*`, `metric_event_service.h`) | bounded window of numbered facts, committed cursor, one pending batch, final marker | AppendFact, Get (may wait unlocked), Ack, Finalize, WaitForFinalAcknowledgement | one metric consumer over gRPC |
| SDK client (`proto/rl_sdk/include/rl_sdk`) | lifecycle cursor, command under way, outcome | RunSession, RunEpisode, Exchange, InvokeUnary (two attempts) | the task service |
| `TrainingTaskService` (`task/protocol/training_task_service.h`) | per session: phase, last command, replay window, stored response | OpenSession, InitTask, BeginEpisode, Update, EndEpisode, AbortEpisode, CloseSession, GetStatus | runtime, session manager |
| `TrainingRuntime`, `TrainingTransaction` (`task/runtime`) | agents' segments, active / staged / pending model, service state, reward windows, counters | transactions of the handlers, recovery of silent clients, reward flush, model watcher, BeginShutdown | all of the above |
| `ModelDistributorClient` and cache (`task/model`) | lineage pin, index of cached steps, directories on disk | probe, discover, download, publish in the cache, AckIdempotently, PruneCache | Model Distributor over gRPC |
| Sample construction (`task/sample/*builder*`) | none | GAE over one segment, projection into envelopes | runtime |
| Maze task (`maze/`) | the controller's training ledger, per session the validated map, per agent cell, visited cells and rewards | decode and validate frames, observation, reward, outcome, configuration | adapters used by the service |
| Inference and policy (`task/inference`, `task/policy`) | loaded ONNX session | batch inference, sampling of actions | runtime |
| Process (`main/main.cpp`, `run.sh`, `scripts/publish_readiness.py`) | signal flag, marker files, the lock directory of a workspace | start, publish readiness, quiesce, shut down, kill | platform, other pods on the same workspace |

What makes it hard:

- **Concurrency.** RPC handlers, the watcher thread, the sender thread and the
  shutdown share two mutexes: the runtime's and the distributor's. Handlers and
  watcher recovery hold the runtime's mutex from beginning to end; the watcher
  releases it for a retried acknowledgement and for pruning, `BeginShutdown`
  releases it between copying the sessions and writing them back, and
  `MetricEventJournal::Get` waits with its mutex released.
- **Unreliable peers.** Each of the four RPC relations (client, SamplePool,
  metric consumer, Distributor) has lost answers, retries and requests that
  arrive after the caller gave up; three of them have an idempotence protocol
  of their own (replay window, duplicate answers, cursors).
- **Partial failure.** Envelope sets are admitted whole or not at all; a
  handler's copy is written back only if its set was admitted; cache
  directories are renamed before they are removed.
- **Shutdown** drains clients, samples and metrics in turn, while the RPC
  server still serves (`main.cpp` calls `BeginShutdown` first), and reports
  whether anything was lost. Around it `run.sh` waits for the process, kills it
  when it takes too long, and reports the result in marker files, from trap
  functions that run between any two commands of the script.

What correctness means, per component:

- *SampleDistributor*: in order, exactly once, at most its bound in memory,
  every envelope in exactly one counter, and "not degraded after the drain"
  means delivered.
- *Journal*: every fact acknowledged once, as delivered or as lost; the final
  acknowledgement stands for a complete delivery; the consumer can drain it.
- *Command protocol*: client and server share one history of commands; the
  client's view of phase and episode is the server's; a reported stop closed
  the session.
- *Runtime*: every transition is kept, sent or discarded exactly once, and sent
  under the model that acted; every reward is reported once; a successful
  shutdown lost nothing.
- *Maze task*: distances, rays and accepted moves agree; a client whose
  environment follows the rules is never refused; the reward is what the path
  earns and an episode that fails has a negative return; what a segment is
  turned into is exact and within the limits of an envelope.
- *Process*: one server at a time uses a workspace, the marker files are those
  of this run and are removed when it is told to stop, and the supervisor ends when told to.
- *Model update*: only acknowledged models are used, models in use stay in the
  cache, the active model only advances in its lineage, and the newest model
  becomes active in the end.

## 2. Modules

| Module | Models | Note |
|---|---|---|
| `OrderedDelivery` | abstract promise of the sample path: envelopes submitted, delivered in order, settled, and on closing the remainder reported lost | specification only |
| `SampleDistributor` | `sample_sender.*` with producer, sender thread, StopAndDrain and an external SamplePool | refines `OrderedDelivery` |
| `SampleDistributorProofs` | theorems about it | |
| `MetricEventJournal` | `episode_metrics.*` with concurrent Gets and one consumer | |
| `MetricEventJournalProofs` | theorems about it | |
| `CommandSession` | SDK client, network, replay window, phases, recovery, shutdown | |
| `CommandSessionProofs` | theorems about it | |
| `TrainingRuntime` | agents' segments, the task controller's ledger, admission, rewards, recovery, shutdown | |
| `TrainingRuntimeProofs` | theorems about it | |
| `ModelUpdate` | initial load, watcher, acknowledgement, cache, pruning, external Distributor | |
| `ModelUpdateProofs` | theorems about it | |
| `MazeMap` | the map descriptor's checks, distances, rays (`maze/environment/map.cpp`, `observation.cpp`) | pure operators |
| `RolloutSegment` | advantage estimate, projection and envelopes of a closed segment | pure operators |
| `MazeEpisode` | an episode of the maze task, frame by frame | composes `MazeMap` and `RolloutSegment` |
| `MCMazeEpisode` | its instance: all 3x3 maps, values, symmetry | model checking only |
| `MazeOperatorProofs` | theorems about the operators of `MazeMap` and `RolloutSegment`, and induction over data | |
| `MazeEpisodeProofs` | theorems about `MazeEpisode` | uses `MazeOperatorProofs` |
| `ServerProcess` | `run.sh`, `main.cpp`, marker files, the workspace lease, several pods | |
| `ServerProcessProofs` | theorems about it | |

In every module one action is one critical section or one remote call; a
handler that holds the runtime's mutex throughout is one action. Answers that
change nothing are stuttering steps. Where the
constants are numbers and sets a `.cfg` file is enough; `MazeEpisode` takes maps
and a value function and has an MC module. Operators placed directly before a
definition and named for an error (`...Ignored`, `...Inclusive`, ...) are its
mutants and are used by nothing else.

### SampleDistributor

Envelopes are numbered in commit order. `queue` is `queue_`, `reserved` the
reservation, `deliveryState` the enum, `generation` the counter that
`SealEnqueueEnvelopeSet` compares, and the counters of `GetSnapshot` are the
sets of the envelopes they count. The sender thread is `sender`
(`wait` / `send` / `push` / `healthy` / `pop` / `transient` / `rejected` /
`exit`), one value per stretch between two lock operations of the loop,
`SendFront` and the `Mark...` functions. `Rpc` is one answered or unanswered push;
an unanswered push may have reached the pool, or reach it later (`late`).
`stopper` is StopAndDrain: request, wait for the drain or force, join, settle.
Left out: the byte budget (a second bound checked at the same places), back-off
times, counters nothing reads, and `Enqueue`, `CancelEnqueueEnvelopeSet`,
`RecordFinalDrop`, which have no caller.

### MetricEventJournal

`events_` is the interval `oldest .. nextEvent - 1`. `Get(c)` is the first part
of the call, up to the answer or the wait; `GetWakes(c)` the part after it,
which builds a batch without looking at `pending_batch_` again, as the code
does. A consumer may give a call up (`GetGivenUp`) while the server's thread
goes on waiting. `Ack` covers applied, repeated and refused acknowledgements and
the loss of the answer. Byte limits become a choice of where a batch or an
eviction cuts; the flush interval a choice of whether it has passed.

### CommandSession

Client: `client` is where `RunSession` stands, `cursor` the
`LifecycleCursor`, `request` / `attempt` / `waits` the state of `Exchange` and
`InvokeUnary`. `network` holds every attempt a handler may still run for, in any
order. Server: `session` has phase, last sequence, stored request and response;
`Handle` is `CheckCommand`, the handler's phase test, the outcome, and
`CommitCommand`. The outcome that depends on models and sample delivery
(applied, WAIT, refused) is a choice. `RecoverExpiredClientSessions` aborts a
silent client's episode; `BeginShutdown` and `ShutdownCloses` are the two
critical sections of the shutdown, with `candidate` the copy between them.
`BeginEpisode` never answers `TASK_COMPLETE`, so that phase is left out.

### TrainingRuntime

Per session: phase, agents and the reward window. Per agent: done flag, the
model of the pending action, the open segment with its pinned model and cached
transitions. Each handler is an action of its whole effect: close segments,
project to envelopes with the pinned model, admit, write back, count. A
transition carries the model that inferred its action (`by`), as a history the
code does not keep, so that `BehaviorModelExact` can compare. The shutdown is
five actions because it releases the mutex. `ledger` is the maze task's
`MazeEpisodeController`, one per process: `InitTask` initialises it once, and
BeginEpisode and Update advance it with the counters, on a copy that is written
back with the session. `trained` is a history: the sessions it was ever
initialised for, so that `LedgerFollows` also speaks of those that have closed.
An Update answered WAIT drops its copies and is no step of the model. Admission is taken as what
`SampleDistributor` establishes: the whole set or nothing.

### ModelUpdate

The thread's `pc` goes through probing, discovering, fetching, acknowledging,
promoting, protecting and pruning, at the initial load and in the watcher loop.
Identities of models are lineage, step and trained samples; a cache directory is
the model in it. The Distributor is external: it publishes, fails, restarts
under a new authority and may handle an acknowledgement late. Other threads open
and close segments whenever the runtime's mutex is free
(`EnsureAgentSegmentPin`, `CloseSegment`).

### MazeMap, RolloutSegment, MazeEpisode

The environment runs in the client, so a report of an agent names any walkable
cell and termination reason, and a blocked move or none, whether or not the agent
is where it was; `Decodes` is the conjunction of the checks of
`DecodeFrame` and `ApplyState`. `Update` is the whole frame: every agent's
report applied, its transition finished with the reward of `MazeReward::Calculate`,
segments closed and cut into envelopes, and the next action assigned. A report
that is let through but has no reward or breaks a segment degrades the service
(`UpdateDegrades`). Rewards are integers: the code's constants times a thousand
and times the agent's initial distance, which is the denominator of its shaping.
`stays` is a history, the later reports that name the cell the agent was in
already; `RewardIsAccounted` compares the penalties with it.
The discount and lambda are one half and advantages are scaled by `Scale`, two to
the power of `2 * TMax`, so every number is exact: the theorem about the estimate
shows that every division in it leaves no remainder. What an encoded sample takes is two bytes, or three when
its value is not zero; enough for the two envelope limits to bind at different
places. The loops of the code (the search, the estimate from the last transition
back, the filling of envelopes) are recursive functions. What they should compute
is defined apart from them, at the end of `RolloutSegment` and `MazeEpisode`: the
lambda return as the weighted sum of the n-step returns from the front
(`LambdaReturn`), the place of a sample from the lengths of the envelopes before
it (`HoldExactly`), the environment's rule of moving (`Moved`) and what a client
that follows it reports (`LawfulReports`).

### ServerProcess

Per pod: where `run.sh` stands (`pc`), which trap function waits for the server
(`handler`), the script's variables, the server's stage from `std::signal` to the
return of `main`, and the files. A trap runs between two commands and the script
then goes on, so `TrapTerm` and `TrapUsr1` are possible at every `pc`, `shutdown`
also inside `quiesce`. `lease` is `.aiserver.lock` with the process that made it.
Servers and containers die at any time (`ServerDies`, `ContainerDies`), the files
survive, and somebody may remove the lock of a dead process by hand. A server may
hang anywhere. An exit status is 0 or not. `cut` is a history: where the script
stood when it was told to stop. `FilesAccounted` says of readiness that it names
this boot and that its removal is still ahead while `run.sh` runs, with the two
exceptions the script has (section 6).

## 3. Runs

Passing runs:

| Run | Bounds | What it shows |
|---|---|---|
| `sample_delivery` | 3 envelopes, sets of up to 2, queue 2, 2 attempts, 3 faults | `QueueBound`, `Accounting`, `PoolAccounted`, `CleanStop`; a seal is sound, delivery never revives; refinement of `OrderedDelivery`; `StopReturns` and `EnvelopeSettles` under fairness |
| `metric_journal` | 3 facts, capacity 2, 2 parallel Gets, 1 heartbeat, 2 losses | exactly-once acknowledgement, honest gaps, final means complete, a consumer that follows, and `FinalDelivered` under fairness |
| `command_session` | 6 sequence numbers, 1 WAIT budget, shutdown allowed | `HistoriesAgree`, `ViewIsCurrent`, `StoppedMeansClosed`, `ClosedIsFinal`, and `StopEnds` under fairness |
| `runtime_segments` | 2 sessions, 2 agents, TMax 2, 4 transitions per agent, 2 models | the ledger follows the one session that trains; transitions and rewards once, exact model, settled terminals, clean shutdown |
| `model_update` | 2 lineages, 3 steps, 2 sample counts, 1 restart, and either 2 faults or 1 leftover directory | in use is cached, used is acknowledged, pending is staged, LOADED never overwritten, the active model only advances in its lineage, and `CatchesUp` under fairness |
| `maze_episode` | all 3x3 bitmaps validated, episodes of 3 steps on one of them in training and on another in evaluation, 2 agents, TMax 2 | `MapFactsExact`, `LawfulIsAccepted`, `FailureIsNegative`, `RewardIsAccounted`, `EnvelopesExact` |
| `server_process` | 2 pods on one workspace, one of them restarted once | `LeaseExclusive`, `FilesAccounted`, and `SupervisorStops` under fairness |

Runs that show a disagreement (section 6): `sample_transient_is_terminal`,
`metric_retry_identity`, `command_close_in_shutdown`, `model_ack_authority`,
`model_pruning_stuck`.

Why the bounds are enough for the cases meant: three envelopes give a set that
fills the queue, one that waits for room and one that follows it; two attempts
and three faults exhaust a `SendFront` and its recovery budget. Three facts with
capacity two force an eviction in front of a pending batch; two Gets are what
the abandoned-call races need. Six sequence numbers cover initialisation, an
episode with updates and its end or abort, and the close. Four transitions
with `TMax` two cross a segment boundary and leave an open segment; the second
session is the one whose `InitTask` the controller refuses. Three model
steps give a model in use, one whose acknowledgement is pending and one offered
meanwhile, which is what `PendingIsStaged` is about; two sample counts let a
restarted Distributor go back in training or offer other content under a cached
model's name; two faults lose an acknowledgement and its retry. A leftover
directory may hold the model that is offered or another one under its name; it is
explored together with a restart but without further faults, to keep the run
small. That the first instance serves lineage `A` loses nothing, lineages being
interchangeable. The played maze has a corner that may not be cut, and
three steps are enough to reach the goal, to run into the time limit, to be
blocked and to come back to a cell; one segment is closed by `TMax` and one by
the end. Evaluation computes no rewards and is played on a map of three cells, one
of them out of reach. Of the two limits of an envelope only the one in bytes is
below a segment of two transitions there; `EnvelopesExactHolds` is about both. Two containers and one restart are the least in which a server that
never had the lease could take it from one that has and a third could start. The
parameters of the proved modules are unbounded in the proofs.

`CHECK_DEADLOCK FALSE` stands where the system may stop: all sessions closed or
the shutdown done (`CommandSession`, `TrainingRuntime`), a drained or abandoned
journal, a stopped or failed model thread, a closed session
(`MazeEpisode`) and pods that are down (`ServerProcess`). `sample_delivery` checks
for deadlock, with an explicit `Finished` step at the end.

## 4. Fairness

- *SampleDistributor*: weak fairness of the sender thread, of RPCs (each carries
  a deadline), of a handler that holds a reservation (Seal and Commit follow in
  straight-line code), and of StopAndDrain's bounded wait and join. Nothing is
  assumed of the SamplePool but that finitely many answers fail.
- *MetricEventJournal*: a waiting Get wakes (`wait_until`, and Finalize
  notifies); the consumer is one that keeps fetching and acknowledging, the
  hypothesis under which `FinalDelivered` is meant.
- *CommandSession*: the client's thread runs, and its gRPC deadlines end every
  attempt. Nothing is assumed of network or server.
- *ModelUpdate*: the model thread runs; failures are finitely many. `CatchesUp`
  excepts a Distributor that serves another run and a foreign directory in the
  model's place, which the code refuses for as long as they last.
- *ServerProcess*: `run.sh` runs, and its loops are counted. Nothing is assumed
  of the server, which may hang.

No strong fairness is used.

## 5. Proofs

Checked by TLAPS for every value of the constants that satisfies the named
assumptions of the modules (`ConstantsAssumption` and its like). They say that
bounds and limits are natural numbers, that queue, attempts, capacity, batch
size, `TMax`, horizon and grid are at least one, that agents and sessions are
finitely many, and that the values standing for "none" are not members of the
sets they are added to. TLC evaluates each of them in a run. The bounds on
counters that keep TLC's runs finite are constants too, so a theorem holds
whatever they are.

Every safety property of the passing runs is proved, invariants and action
properties alike, and so is the refinement; what is left to TLC is liveness.
Each proof module has the inductive invariant at its head, lemmas about the
model's operators after it, one lemma or step per action, and the theorems at the
end.

**SampleDistributor** (`SampleDistributorProofs`). None of the properties is
inductive: that an accepted envelope is in the pool depends on what the sender
was told before it popped the front, and order depends on the numbering of queue
and reservation. The inductive invariant is `IInv`:

- `QueueShape`, `ReservationShape`: the queue is the interval of the last
  committed numbers, the reservation the interval after it;
- `DeliveryShape`: some `k` splits the committed envelopes: `1..k` are settled
  and in the pool, nothing beyond `k + 1` is in the pool or on its way, and `k`
  is where the queue begins, or, after the stop, where loss begins;
- `SenderShape`: control states of the sender that handle the front imply a
  front, and after an answer the pool has it;
- `Disjointness` and `QueueBound`.

One lemma per thread (`ProducerIInv`, `RpcIInv`, `SenderIInv`, `LateIInv`,
`StopperIInv`) shows that its actions preserve it; types are proved together
with it (`StepFlags`, `StepData`). From `InvariantHolds` follow `TypeCorrect`,
`QueueBoundHolds`, `AccountingHolds`, `PrefixDeliveryHolds`, `CleanStopHolds`,
and `RefinesOrderedDelivery`: every step maps to Submit, Deliver, Settle, Close
or a stutter of the abstract specification. Two more invariants are proved on top
of it. `AnswerShape` follows the attempts that were never answered to the counter
that reports them and gives `PoolAccountedHolds`. `GenerationShape` says that the
generation a reservation remembers is the current one exactly if no outage began
since, and gives the action property `SealIsSoundHolds`;
`DeliveryNeverRevivesHolds` needs the sender's control state as well.

**MetricEventJournal** (`MetricEventJournalProofs`). `IInv` ties the window, the
committed cursor and the pending batch together: the pending batch starts right
after the committed event, a gap ends before the oldest fact, and a final batch
reaches the last fact (`PendingShape`). It survives the unguarded rebuild in
`GetWakes`, which is why the proved properties hold although the batch identity
may change (section 6). `BuiltShape` is the lemma about `BuildPendingBatch`,
`AckStep` the one about an applied acknowledgement. Results: `JournalInvariant`,
`AcknowledgedOnceHolds`, `FinalMeansCompleteHolds`, `GapIsHonestHolds`, the
action property `NoEventTwiceHolds`, and `ConsumerFollowsHolds`, which needs that
a consumer with a call under way holds no batch (`ConsumerInv`).

**CommandSession** (`CommandSessionProofs`). `HistoriesAgree` compares two
histories that only messages connect, so the invariant describes the messages:
the client numbers a request after what it accepted and has one only in the
states that issue it (`ClientShape`); no attempt in the network is newer than the
client's cursor (`NetworkShape`); the session is what the last applied command
left, but for an abort by the watcher (`ServerShape`); a success on its way to
the client is the answer to its present request, which is the last command the
server applied (`AnswerShape`); and the client's view (`View`) also holds while
it cleans up. The last three hold until a shutdown begins, as do the properties:
the shutdown is what finding 3 is about.

**TrainingRuntime** (`TrainingRuntimeProofs`). The largest argument. A transition
is identified by its reward, which is in a window or in the journal (`Made`);
`Numbered` says that those of an agent are numbered without gap or repetition up
to its step count, `Placed` that each is cached, sent or discarded, in one place
only, and that the counters count them, `Rewarded` the same of rewards. Segments
hold only transitions of their own agent and pinned model (`SessionsShape`).
Between the two critical sections of the shutdown `PlanShape` says that what
`BeginShutdown` copied is still what there is to be done: no handler adds a
transition or a reward meanwhile, and what the plan will send is exactly what the
sessions still keep. `LossShape` connects discarded transitions with the degraded
state that keeps the shutdown from reporting success. Aborts, recoveries and the
shutdown share lemmas about cutting a session (`Cut`, `CutOutput`). `TrainedOnce`
says that a session past its initialisation is the one in `trained`, and that a
second one finds the ledger taken.

**ModelUpdate** (`ModelUpdateProofs`). `ThreadShape` says what the model thread
has in hand at each of its calls; `LineageShape` that everything the client works
with is of the pinned training run; `SentShape` that a process sends LOADED
acknowledgements or one FAILED, which ends it; `CatalogShape` that the Distributor
can name its latest model, which takes the library's theorem that a set of
numbers has a least member. `InUseIsCached` is inductive
only with what it says of the pruning under way.

**ServerProcess** (`ServerProcessProofs`). `PodConsistent` relates script, server
and files of one pod and is proved per operation on a pod; `LeaseConsistent` says
that the process that holds the lease made the lock, and that one that ended
clean left none. A step of a pod that takes no lease and claims no clean end
(`Quiet`) keeps it for all others. On top of these `StopConsistent` follows a stop
through the script, from where it was told (`cut`) to where it leaves; it gives
the part of `FilesAccounted` about readiness.

**MazeEpisode** (`MazeEpisodeProofs`). `AgentInv` holds of every agent after every
command: `Seen` and `Unseen` say where it is and what it has pending, `Ends` what
a done agent has left, `Accounts` what it has been given for its path (with
progress as the telescoped distance, the bonus as a function of the cells visited
and the penalties as one of `stays`), and `Collects` that its open segment is a chain, shorter than `TMax`,
which the pending action continues. Nothing is assumed of the distances of a map:
the checks of a report let only cells with a distance into the reward. From it
follow `RewardIsAccountedHolds`, `FailureIsNegativeHolds` (the return is at most
-250 times the initial distance) and three results no run states on their own:
`EndIsAcceptedHolds`, `ChainIsKeptHolds` and `ClosedSegmentsFitHolds`.

Two more invariants are needed for what the map and the reports have to do with
each other. `MapInv` says that the map of a session passed
`ValidateMazeMapDescriptor`; with the theorems on the search and the rays it
gives `MapFactsExactHolds`. `RunInv` says that the agents of a running episode
are in step with its frame, on walkable cells and below the horizon; with it
`LawfulIsAcceptedHolds` follows a lawful report through every check. That theorem
has one hypothesis, `EnvelopeMaxBytes >= 3`: one sample, which takes three bytes
here, fits into an envelope. Without it the code itself refuses ("one processed
sample exceeds envelope_max_bytes"), and no range check of the configuration
rules that out. `EnvelopesExactHolds` needs no such hypothesis, because a segment
that cannot be divided is never closed.

**MazeMap and RolloutSegment** (`MazeOperatorProofs`). What a loop computes for
every input takes induction, and the library's induction theorems range over
predicates, which the backends cannot instantiate. `WFMin` of
`WellFoundedInduction` ranges over sets instead: a set of naturals that is not
empty has a least element (`LeastElement`). From this follow induction over sets
of naturals (`SetInduction`) and that a function defined by recursion exists
(`RecursionExists`, `IterationExists`), without which nothing is known of the
value of a recursive definition. On top of that:

- *The search.* `RoundInv` is the loop invariant of the breadth-first search:
  the queue holds discovered cells once, the nearer ones first and none more
  than one move further than its front, and a cell that has left the queue has
  no undiscovered neighbour. `SearchEnds`: every round takes another cell from
  the queue, so it is empty after as many rounds as there are cells. The result
  satisfies the local equations of a distance (`IsGeodesic`), and from these
  `SearchFindsShortestWays` concludes about whole ways: none is shorter than the
  distance, one is as short, and -1 stands where there is none. That the search
  runs from the goal while agents move towards it takes `EntersBack`: a move can
  be made in both directions.
- *The rays.* `RayIsWalk`: a ray is one longer than the ray of the next cell, or
  zero where the agent cannot enter it, or the range.
- *The estimate.* `EstimateIsLambdaReturn`: the loop from the last transition back
  gives the weighted average of the n-step returns, for every segment up to
  `TMax`. `LambdaStep` is the recursion of the lambda return, proved from the sums;
  that each of its halvings is exact comes from `LambdaQuarters`.
- *The envelopes.* `EnvelopesHoldExactly`: the lengths telescope, so the samples
  in front of an envelope are those up to its cut (`BeforeIsCut`). `FillDivides`
  is an induction over the samples that are left.

**Only model-checked.** Liveness under fairness and ENABLED are outside what the
prover handles: `StopReturns`, `EnvelopeSettles`, `FinalDelivered`, `StopEnds`,
`CatchesUp`, `SupervisorStops`, and the violated properties of section 6.

## 6. Findings

1. **An outage within the recovery budget is answered as a terminal fault**
   (`sample_transient_is_terminal`). `MarkTransient` clears `ready_`, and Reserve
   and Seal test `ready_` before the state, so the branch "sample delivery is
   recovering" cannot be reached for `kTransientRetry`, and the runtime becomes
   DEGRADED for good.
2. **A batch changes its identity before it is acknowledged**
   (`metric_retry_identity`). A Get the consumer gave up on wakes and rebuilds
   over the pending batch, against `transport.proto:148`. The test for an
   acknowledged final batch precedes the wait in the same way.
3. **A CloseSession during shutdown is undone** (`command_close_in_shutdown`):
   the second critical section of `BeginShutdown` overwrites the session with
   its copy, and the retried command is applied again, against
   `replay_window.h:14`.
4. **A pending acknowledgement is settled by another Distributor instance**
   (`model_ack_authority`): APPLIED is not checked against the pinned authority,
   against `README.en.md:172`.
5. **One failure ends pruning for the rest of the process**
   (`model_pruning_stuck`): a renamed directory stays in the index and blocks
   every later call, although the failure is reported as a delay.

Beside these, two things `run.sh` does that no line of the repository denies, so
that no run claims a violation; `FilesAccounted` has an exception for each.

- A TERM before line 172 has published `readiness.json` (while the script boots,
  or after it has seen the marker at line 163) makes `shutdown` remove the files
  once, at line 96. The script then goes on where it was, publishes the file with
  `grpc` "serving", and every later call of `shutdown` returns at lines 89 to 91:
  the file stays for a server that has been stopped or, when the TERM came
  before the spawn, left behind.
- `quiesce` (lines 100 to 124) ends the server and leaves `readiness.json` in
  place until the TERM that follows.

## 7. Not modelled, and why

- Configuration parsing (YAML and range checks at start), the scaling of
  observation entries to floats, and action masks.
- ONNX inference and action sampling: library calls and float arithmetic; the
  models use which model acted and that inference may fail.
- Rounding: rewards, advantages and targets are exact numbers here, floats in the
  code.
- The service in evaluation mode (`MazeEpisode` has its episodes), GetStatus and
  the status report.
- `run.sh` outside managed mode, argument parsing, `--inspect-model`, logging.
  On TERM `run.sh` exits 0 whatever the server's status was, although
  `README.en.md:116` says it propagates it; one line shows it.
- Generated protobuf code, which is about 53 000 of the repository's 64 000 lines
  of C++. Of the 11 000 lines written by hand about half are mapped; most of the
  others are configuration, message field checks, file formats and log output.
- Byte budgets, back-off and flush times: replaced by nondeterministic choice.
- A restarted metric consumer (refused by design) and envelope sets larger than
  the queue: listed as hazards with the reason. Closed sessions are never removed
  from the table (`DestroySession` has no caller); a bounded model cannot show
  the growth.

## 8. Plan

Done: sections 2 to 5. Next, as far as it goes:

1. A composition of `TrainingRuntime` with `SampleDistributor`, in which the
   admission is Reserve / Seal / Commit.
2. An abstract specification of the command protocol that `CommandSession`
   implements while no shutdown runs; the invariant that the proof of the
   refinement needs is there.
3. The estimate for any discount and lambda, as rationals with a common
   denominator, in place of one half.

## 9. Running

    tlc -workers 2 -config SampleDistributor.cfg SampleDistributor
    tlapm SampleDistributorProofs.tla

Each run of `PROJECT.json` names its module and configuration.
