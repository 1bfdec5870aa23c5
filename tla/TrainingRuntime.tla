-------------------------- MODULE TrainingRuntime --------------------------
(***************************************************************************)
(* What becomes of the transitions of the agents, in training mode:        *)
(* src/task/runtime/training_runtime.tpp, training_transaction.h and the   *)
(* handlers of src/task/protocol/training_task_service.h.                  *)
(*                                                                         *)
(* Every agent collects transitions in a segment that is pinned to the     *)
(* model that was the latest when it was opened.  A segment is closed when *)
(* it has TMax transitions, when the agent terminates, and when its        *)
(* episode is aborted by the client, by the watcher (the client has been   *)
(* silent) or by the shutdown; its transitions then leave as one set of    *)
(* envelopes, admitted as a whole by the SampleDistributor.                *)
(*                                                                         *)
(* Handlers, the watcher and the reward flush each hold the runtime's      *)
(* mutex, and a handler works on a copy that it writes back when the set   *)
(* is admitted: they are single steps.  Answers that leave everything as   *)
(* it is (WAIT, a refusal) are stuttering steps.  BeginShutdown alone      *)
(* releases the mutex between copying the sessions and writing them back.  *)
(* The commands of one session arrive in the order CommandSession          *)
(* establishes.  Rewards, observations and advantages are left out here    *)
(* (MazeEpisode has them).                                                 *)
(*                                                                         *)
(* The task controller is the service's ledger of training progress        *)
(* (src/maze/episode/episode_controller.cpp).  It is initialized once per  *)
(* process, and only while the model is at step 0 and nothing has been     *)
(* produced, so at most one session of a process ever trains.              *)
(***************************************************************************)
EXTENDS Naturals, FiniteSets

CONSTANTS
  Sessions, Agents,
  TMax,            \* rollout.tmax
  MaxTransitions,  \* bound: transitions of an agent
  MaxModel         \* bound: model steps

ASSUME ConstantsAssumption ==
  /\ IsFiniteSet(Sessions) /\ IsFiniteSet(Agents) /\ Agents # {}
  /\ TMax \in Nat \ {0}
  /\ MaxTransitions \in Nat
  /\ MaxModel \in Nat \ {0}

VARIABLES
  sessions,     \* the sessions of the session manager
  model,        \* step of model_manifest_, the latest prepared model
  state,        \* state_
  ledger,       \* task_controller_
  produced,     \* produced_unique_transitions_
  quarantined,  \* quarantined_transition_count_
  shutdown,     \* where BeginShutdown is
  plan,         \* its candidate sessions and envelopes
  faultBefore,  \* preexisting_service_fault
  succeeded,    \* shutdown_succeeded_
  \* history
  trained,      \* the sessions that InitTask has initialized
  emitted,      \* transitions in admitted envelopes, with the envelope's model
  discarded,    \* transitions of discarded segments
  reported,     \* transitions whose reward is in the metric journal
  reportedCount \* sum of the counts of those reward records

historyVars == <<emitted, discarded, reported, reportedCount>>
shutdownVars == <<shutdown, plan, faultBefore, succeeded>>
vars == <<sessions, model, state, ledger, produced, quarantined, shutdownVars,
          trained, historyVars>>

Phases == {"NONE", "OPEN", "READY", "RUNNING", "TERMINAL", "ABORTED", "CLOSED"}
Models == 1..MaxModel
FirstModel == 1   \* the model at step 0; model m is at step m - 1
\* Transition n of an agent, whose action was inferred with model by.
Transitions == [session : Sessions, agent : Agents, n : Nat, by : Models]
\* pending and pinned are model steps, 0 for none; steps counts the
\* transitions of the agent so far.
AgentStates == [done : BOOLEAN, pending : 0..MaxModel, open : BOOLEAN,
                pinned : 0..MaxModel, cached : SUBSET Transitions,
                steps : Nat]
SessionStates == [phase : Phases, agents : [Agents -> AgentStates],
                  window : SUBSET Transitions]

NoSegment == [done |-> FALSE, pending |-> 0, open |-> FALSE, pinned |-> 0,
              cached |-> {}, steps |-> 0]
NoLedger == [initialized |-> FALSE, produced |-> 0, model |-> 0]
NoPlan == [sessions |-> <<>>, output |-> {}, ok |-> FALSE]

Init ==
  /\ sessions = [s \in Sessions |->
                   [phase |-> "NONE", agents |-> [a \in Agents |-> NoSegment],
                    window |-> {}]]
  /\ model \in Models /\ state = "READY"
  /\ ledger = NoLedger /\ trained = {}
  /\ produced = 0 /\ quarantined = 0
  /\ shutdown = "no" /\ plan = NoPlan
  /\ faultBefore = FALSE /\ succeeded = FALSE
  /\ emitted = {} /\ discarded = {} /\ reported = {} /\ reportedCount = 0

-----------------------------------------------------------------------------
\* Operations on the state of one agent.  The mutants stand for plausible
\* errors in the definition after them.

\* FinalizePendingTransition: the transition that the pending action makes.
Finished(s, a, agent) ==
  IF agent.pending = 0 THEN {}
  ELSE {[session |-> s, agent |-> a, n |-> agent.steps, by |-> agent.pending]}

FinalizeKeepsPending(s, a, agent) ==
  [agent EXCEPT !.cached = @ \cup Finished(s, a, agent),
                !.steps = @ + Cardinality(Finished(s, a, agent))]

FinalizePendingTransition(s, a, agent) ==
  [agent EXCEPT !.cached = @ \cup Finished(s, a, agent),
                !.steps = IF agent.pending = 0 THEN @ ELSE @ + 1,
                !.pending = 0]

\* PrepareFrame closes the segment of a terminated agent and a full segment.
Closes(agent, terminal) ==
  /\ agent.open /\ agent.cached # {}
  /\ terminal \/ Cardinality(agent.cached) = TMax

\* PrepareAgentSegmentClose: the envelopes name the pinned model.
Envelopes(agent) == {[transition |-> t, model |-> agent.pinned] :
                       t \in agent.cached}

\* ... and the segment is reset.
Cleared(agent) ==
  [agent EXCEPT !.open = FALSE, !.pinned = 0, !.cached = {}]

\* A new segment is pinned to the latest model, an open one keeps its model.
EnsureAgentSegmentPin(agent) ==
  IF agent.open THEN agent
  ELSE [agent EXCEPT !.open = TRUE, !.pinned = model, !.cached = {}]

ActWithLatest(agent) ==
  [EnsureAgentSegmentPin(agent) EXCEPT !.pending = model]

\* The action is inferred with the pinned model and waits for its result.
PrepareModelAction(agent) ==
  [EnsureAgentSegmentPin(agent) EXCEPT
     !.pending = EnsureAgentSegmentPin(agent).pinned]

\* AgentTrainingState::ResetForEpisode.
ResetForEpisode(agent) == [NoSegment EXCEPT !.steps = agent.steps]

\* A segment with transitions is closed when the episode is cut short;
\* anything else is discarded.  The pending action is excluded.
HasSegment(agent) == agent.open /\ agent.cached # {}

CutOutputWithoutPending(s) ==
  UNION {Envelopes(sessions[s].agents[a]) :
           a \in {b \in Agents : /\ HasSegment(sessions[s].agents[b])
                                 /\ sessions[s].agents[b].pending = 0}}

CutOutput(s) ==
  UNION {Envelopes(sessions[s].agents[a]) :
           a \in {b \in Agents : HasSegment(sessions[s].agents[b])}}
CutAgents(s) ==
  [a \in Agents |-> [Cleared(sessions[s].agents[a]) EXCEPT !.pending = 0]]

Live(s) == sessions[s].phase \in {"RUNNING", "TERMINAL"}
Cut(s) == [sessions[s] EXCEPT !.phase = "ABORTED", !.agents = CutAgents(s)]

\* DiscardAgentSegment for every agent of some sessions.
CachedIn(someSessions, S) ==
  UNION {UNION {someSessions[s].agents[a].cached : a \in Agents} : s \in S}
Discarded(S, phases) ==
  [s \in Sessions |->
     IF s \notin S THEN sessions[s]
     ELSE [sessions[s] EXCEPT !.phase = phases[s], !.agents = CutAgents(s)]]

\* The commit of an admitted set: envelopes queued and counters advanced.
Emit(output) ==
  /\ emitted' = emitted \cup output
  /\ produced' = produced + Cardinality(output)

Quarantine(transitions) ==
  /\ discarded' = discarded \cup transitions
  /\ quarantined' = quarantined + Cardinality(transitions)

-----------------------------------------------------------------------------
\* The handlers.

CoreReady == state = "READY"

OpenSession(s) ==
  /\ CoreReady /\ sessions[s].phase = "NONE"
  /\ sessions' = [sessions EXCEPT ![s].phase = "OPEN"]
  /\ UNCHANGED <<model, state, ledger, trained, produced, quarantined,
                 shutdownVars, historyVars>>

\* MazeEpisodeController::ValidateTrainingProgress, Initialize and the
\* recording of progress.  A refused plan or report degrades the service, as
\* MarkDegraded does; a refused initialization only answers the client.
ValidateTrainingProgress(transitions) ==
  transitions >= ledger.produced /\ model >= ledger.model

InitializeAgain ==
  /\ produced = 0 /\ model = FirstModel
  /\ ledger' = [initialized |-> TRUE, produced |-> 0, model |-> model]

Initialize ==
  /\ ~ledger.initialized /\ produced = 0 /\ model = FirstModel
  /\ ledger' = [initialized |-> TRUE, produced |-> 0, model |-> model]

Observe(transitions) ==
  /\ ledger.initialized /\ ValidateTrainingProgress(transitions)
  /\ ledger' = [ledger EXCEPT !.produced = transitions, !.model = model]

InitTask(s) ==
  /\ CoreReady /\ sessions[s].phase = "OPEN"
  /\ Initialize /\ trained' = trained \cup {s}
  /\ sessions' = [sessions EXCEPT
       ![s].phase = "READY",
       ![s].agents =
         [a \in Agents |-> ResetForEpisode(sessions[s].agents[a])]]
  /\ UNCHANGED <<model, state, produced, quarantined, shutdownVars,
                 historyVars>>

BeginEpisode(s) ==
  /\ CoreReady /\ sessions[s].phase = "READY"
  /\ Observe(produced)   \* PlanNextEpisode
  /\ sessions' = [sessions EXCEPT
       ![s].phase = "RUNNING",
       ![s].agents =
         [a \in Agents |-> ResetForEpisode(sessions[s].agents[a])]]
  /\ UNCHANGED <<model, state, trained, produced, quarantined, shutdownVars,
                 historyVars>>

\* Update with the agents in terminal done: PrepareFrame on a copy, the
\* ledger checked on another, the envelopes admitted, both written back.
Update(s, terminal) ==
  LET before == sessions[s].agents
      active == {a \in Agents : ~before[a].done}
      acted == [a \in active |-> FinalizePendingTransition(s, a, before[a])]
      closing == {a \in active : Closes(acted[a], a \in terminal)}
      closed == [a \in active |-> IF a \in closing THEN Cleared(acted[a])
                                  ELSE acted[a]]
      after == [a \in Agents |->
                  IF a \notin active THEN before[a]
                  ELSE IF a \in terminal THEN [closed[a] EXCEPT !.done = TRUE]
                  ELSE PrepareModelAction(closed[a])]
  IN  /\ CoreReady /\ sessions[s].phase = "RUNNING"
      /\ terminal \subseteq {a \in active : before[a].pending # 0}
      /\ \A a \in active : before[a].steps < MaxTransitions
      /\ sessions' = [sessions EXCEPT
           ![s].agents = after,
           ![s].window = sessions[s].window
                           \cup UNION {Finished(s, a, before[a]) : a \in active},
           ![s].phase = IF \A a \in Agents : after[a].done THEN "TERMINAL"
                        ELSE "RUNNING"]
      /\ Emit(UNION {Envelopes(acted[a]) : a \in closing})
      /\ Observe(produced')   \* ObserveTrainingProgress
      /\ UNCHANGED <<model, state, trained, quarantined, shutdownVars,
                     discarded, reported, reportedCount>>

\* The checks of EndEpisode.
Settled(agent) ==
  agent.done /\ agent.pending = 0 /\ ~agent.open /\ agent.cached = {}

Report(s) ==
  /\ reported' = reported \cup sessions[s].window
  /\ reportedCount' = reportedCount + Cardinality(sessions[s].window)

EndEpisodeKeepsWindow(s) ==
  /\ shutdown = "no" /\ sessions[s].phase = "TERMINAL"
  /\ \A a \in Agents : Settled(sessions[s].agents[a])
  /\ Report(s)
  /\ sessions' = [sessions EXCEPT ![s].phase = "READY"]
  /\ UNCHANGED <<model, state, ledger, trained, produced, quarantined,
                 shutdownVars, emitted, discarded>>

\* EndEpisode puts the outcome and the reward window into the journal.
EndEpisode(s) ==
  /\ shutdown = "no" /\ sessions[s].phase = "TERMINAL"
  /\ \A a \in Agents : Settled(sessions[s].agents[a])
  /\ Report(s)
  /\ sessions' = [sessions EXCEPT ![s].phase = "READY", ![s].window = {}]
  /\ UNCHANGED <<model, state, ledger, trained, produced, quarantined,
                 shutdownVars, emitted, discarded>>

AbortEpisode(s) ==
  /\ shutdown = "no" /\ sessions[s].phase = "RUNNING"
  /\ sessions' = [sessions EXCEPT ![s] = Cut(s)]
  /\ Emit(CutOutput(s))
  /\ UNCHANGED <<model, state, ledger, trained, quarantined, shutdownVars,
                 discarded, reported, reportedCount>>

CloseSession(s) ==
  /\ sessions[s].phase \in {"OPEN", "READY", "ABORTED"}
  /\ sessions' = [sessions EXCEPT ![s].phase = "CLOSED"]
  /\ UNCHANGED <<model, state, ledger, trained, produced, quarantined,
                 shutdownVars, historyVars>>

\* MarkDegraded and nothing else: an estimator or inference fault, an admission
\* that fails for good, a model that cannot be acknowledged.
MarkDegraded ==
  /\ shutdown = "no" /\ state = "READY"
  /\ state' = "DEGRADED"
  /\ UNCHANGED <<sessions, model, ledger, trained, produced, quarantined,
                 shutdownVars, historyVars>>

-----------------------------------------------------------------------------
\* The watcher and the reward flush.

ActivateStagedModel ==
  /\ shutdown = "no" /\ model < MaxModel
  /\ model' = model + 1
  /\ UNCHANGED <<sessions, state, ledger, trained, produced, quarantined,
                 shutdownVars, historyVars>>

\* The watcher cuts the episode of a silent client and delivers its segments.
RecoverExpiredClientSession(s) ==
  /\ shutdown = "no" /\ Live(s)
  /\ sessions' = [sessions EXCEPT ![s] = Cut(s)]
  /\ Emit(CutOutput(s))
  /\ UNCHANGED <<model, state, ledger, trained, quarantined, shutdownVars,
                 discarded, reported, reportedCount>>

\* A segment cannot be closed: all of the session's are discarded.
RecoveryFails(s) ==
  /\ shutdown = "no" /\ Live(s) /\ CutOutput(s) # {}
  /\ sessions' = Discarded({s}, [r \in {s} |-> "ABORTED"])
  /\ Quarantine(CachedIn(sessions, {s}))
  /\ state' = "DEGRADED"
  /\ UNCHANGED <<model, ledger, trained, produced, shutdownVars, emitted,
                 reported, reportedCount>>

\* FlushRewardMetricsLocked.
Windows(someSessions) == UNION {someSessions[s].window : s \in Sessions}
Flushed(someSessions) ==
  [s \in Sessions |-> [someSessions[s] EXCEPT !.window = {}]]
ReportAll(someSessions) ==
  /\ reported' = reported \cup Windows(someSessions)
  /\ reportedCount' = reportedCount + Cardinality(Windows(someSessions))

FlushRewardMetrics ==
  /\ shutdown = "no" /\ Windows(sessions) # {}
  /\ sessions' = Flushed(sessions)
  /\ ReportAll(sessions)
  /\ UNCHANGED <<model, state, ledger, trained, produced, quarantined,
                 shutdownVars, emitted, discarded>>

-----------------------------------------------------------------------------
\* BeginShutdown.

\* The candidate sessions: segments closed, live episodes aborted.
Plan ==
  [sessions |-> [s \in Sessions |->
                   [sessions[s] EXCEPT !.agents = CutAgents(s),
                                       !.phase = IF Live(s) THEN "ABORTED"
                                                 ELSE sessions[s].phase]],
   output |-> UNION {CutOutput(s) : s \in Sessions},
   ok |-> TRUE]

\* First critical section.  Closing a segment may fail.
BeginShutdown ==
  /\ shutdown = "no"
  /\ shutdown' = "closing"
  /\ faultBefore' = (state = "DEGRADED")
  /\ state' = "DRAINING"
  /\ plan' \in {Plan} \cup (IF Plan.output = {} THEN {}
                            ELSE {[Plan EXCEPT !.ok = FALSE]})
  /\ UNCHANGED <<sessions, model, ledger, trained, produced, quarantined,
                 succeeded, historyVars>>

\* The set is admitted, without the mutex.
ShutdownAdmitted ==
  /\ shutdown = "closing" /\ plan.ok
  /\ shutdown' = "admitted"
  /\ emitted' = emitted \cup plan.output
  /\ UNCHANGED <<sessions, model, state, ledger, trained, produced,
                 quarantined, plan, faultBefore, succeeded, discarded,
                 reported, reportedCount>>

\* Second critical section: write the candidates back, report what rewards are
\* left and finalize the journal.
ShutdownCommits ==
  /\ shutdown = "admitted"
  /\ shutdown' = "settling"
  /\ sessions' = Flushed(plan.sessions)
  /\ produced' = produced + Cardinality(plan.output)
  /\ ReportAll(plan.sessions)
  /\ UNCHANGED <<model, state, ledger, trained, quarantined, plan, faultBefore,
                 succeeded, emitted, discarded>>

\* ... or discard the segments that could not be closed or admitted in time.
ShutdownQuarantines ==
  /\ shutdown = "closing" /\ plan.output # {}
  /\ shutdown' = "settling"
  /\ plan' = [plan EXCEPT !.ok = FALSE]
  /\ sessions' =
       Flushed(Discarded(Sessions, [s \in Sessions |-> sessions[s].phase]))
  /\ Quarantine(CachedIn(sessions, Sessions))
  /\ ReportAll(sessions)
  /\ UNCHANGED <<model, state, ledger, trained, produced, faultBefore,
                 succeeded, emitted>>

SucceedsWhenDrained ==
  CachedIn(sessions, Sessions) = {} /\ state # "DEGRADED" /\ ~faultBefore

\* What shutdown_succeeded_ requires of the runtime itself.
MaySucceed ==
  /\ ~faultBefore /\ plan.ok /\ state # "DEGRADED"
  /\ CachedIn(sessions, Sessions) = {}

\* Sender, model, journal and workspace settle, or do not.
ShutdownEnds ==
  /\ shutdown = "settling"
  /\ shutdown' = "done"
  /\ succeeded' \in {FALSE, MaySucceed}
  /\ state' = IF succeeded' THEN "STOPPED" ELSE "DEGRADED"
  /\ UNCHANGED <<sessions, model, ledger, trained, produced, quarantined, plan,
                 faultBefore, historyVars>>

-----------------------------------------------------------------------------
Next ==
  \/ \E s \in Sessions :
       \/ OpenSession(s) \/ InitTask(s) \/ BeginEpisode(s)
       \/ \E terminal \in SUBSET Agents : Update(s, terminal)
       \/ EndEpisode(s) \/ AbortEpisode(s) \/ CloseSession(s)
       \/ RecoverExpiredClientSession(s) \/ RecoveryFails(s)
  \/ MarkDegraded \/ ActivateStagedModel \/ FlushRewardMetrics
  \/ BeginShutdown \/ ShutdownAdmitted \/ ShutdownCommits
  \/ ShutdownQuarantines \/ ShutdownEnds

Spec == Init /\ [][Next]_vars

-----------------------------------------------------------------------------
\* Types of sessions, counters, shutdown and histories.
TypeOK ==
  /\ sessions \in [Sessions -> SessionStates]
  /\ model \in Models
  /\ ledger \in [initialized : BOOLEAN, produced : Nat, model : 0..MaxModel]
  /\ state \in {"READY", "DEGRADED", "DRAINING", "STOPPED"}
  /\ produced \in Nat /\ quarantined \in Nat /\ reportedCount \in Nat
  /\ shutdown \in {"no", "closing", "admitted", "settling", "done"}
  /\ shutdown # "no" => /\ plan.sessions \in [Sessions -> SessionStates]
                        /\ plan.output \subseteq
                             [transition : Transitions, model : Models]
  /\ plan.ok \in BOOLEAN
  /\ faultBefore \in BOOLEAN /\ succeeded \in BOOLEAN
  /\ emitted \subseteq [transition : Transitions, model : Models]
  /\ trained \subseteq Sessions
  /\ discarded \subseteq Transitions /\ reported \subseteq Transitions

\* The transitions the agents have made, and where they are.
Steps(s, a) == sessions[s].agents[a].steps
Sent == {e.transition : e \in emitted}
Kept == CachedIn(IF shutdown = "admitted" THEN plan.sessions ELSE sessions,
                 Sessions)
Places(s, a, n) ==
  {p \in ({"kept"} \X Kept) \cup ({"sent"} \X Sent)
           \cup ({"discarded"} \X discarded) :
     p[2].session = s /\ p[2].agent = a /\ p[2].n = n}

\* Every transition an agent has made is in exactly one place: cached in a
\* segment, sent in an admitted envelope, or discarded; episode ends, aborts,
\* recovery and shutdown neither lose nor repeat one, and the counters agree
\* (TrainingTransaction::Commit, DiscardAgentSegment, BeginShutdown).
EachTransitionOnce ==
  /\ \A s \in Sessions, a \in Agents :
       \A n \in 0 .. Steps(s, a) - 1 : Cardinality(Places(s, a, n)) = 1
  /\ shutdown # "admitted" => produced = Cardinality(emitted)
  /\ quarantined = Cardinality(discarded)

\* At most one session of a process is ever initialized, however many clients
\* open one and also after the first has closed; whatever trains is that one,
\* and the controller never refuses its plan or progress: what it has recorded
\* is never ahead of the counters, whoever advanced them since
\* (MazeEpisodeController::Initialize, ValidateTrainingProgress; Update commits
\* the controller only with the admitted set).
LedgerFollows ==
  /\ Cardinality(trained) <= 1
  /\ \A s \in Sessions :
       /\ sessions[s].phase \in {"READY", "RUNNING", "TERMINAL", "ABORTED"} =>
            s \in trained
       /\ sessions[s].phase \in {"READY", "RUNNING"} =>
            ledger.initialized /\ ValidateTrainingProgress(produced)

\* An envelope names the model that inferred the actions of all its
\* transitions, although newer models are activated while segments are open.
BehaviorModelExact ==
  \A e \in emitted : e.model = e.transition.by

\* A terminal episode has nothing open: EndEpisode never finds an uncommitted
\* segment, and BeginEpisode's reset loses nothing.
TerminalIsSettled ==
  \A s \in Sessions :
    sessions[s].phase = "TERMINAL" =>
      \A a \in Agents : Settled(sessions[s].agents[a])

\* Every transition's reward is in its session's window or in the journal, and
\* counted once there (RewardMetricWindow: "discarded commands never reach
\* this window").
RewardOnce ==
  /\ reportedCount = Cardinality(reported)
  /\ reported \cap Windows(sessions) = {}
  /\ \A s \in Sessions, a \in Agents :
       Cardinality({t \in reported \cup Windows(sessions) :
                      t.session = s /\ t.agent = a}) = Steps(s, a)

\* A shutdown that reports success has lost nothing since the start: every
\* transition was sent and every reward is in the journal.
CleanShutdownLosesNothing ==
  succeeded =>
    \A s \in Sessions, a \in Agents :
      /\ Cardinality({t \in Sent : t.session = s /\ t.agent = a}) = Steps(s, a)
      /\ Cardinality({t \in reported : t.session = s /\ t.agent = a})
           = Steps(s, a)
=============================================================================
