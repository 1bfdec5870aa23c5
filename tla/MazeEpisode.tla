---------------------------- MODULE MazeEpisode ----------------------------
(***************************************************************************)
(* An episode of the maze task: MazeTaskAdapter                            *)
(* (src/maze/protocol/protocol_adapter.cpp, adapter.cpp), the observation  *)
(* and reward of src/maze, and what TrainingTransaction makes of a frame.  *)
(*                                                                         *)
(* The environment runs in the client.  It reports the cell of every agent *)
(* and whether the agent is done; the server checks a report against the   *)
(* map, the frame and the action it assigned, and otherwise believes it.   *)
(* So a report here names any walkable cell, not only one that a move      *)
(* leads to.  A refused command leaves everything as it is and is left     *)
(* out; a report the reward cannot be computed for degrades the service.   *)
(* Sequencing, models and the admission of envelopes are the business of   *)
(* CommandSession, TrainingRuntime and SampleDistributor.                  *)
(*                                                                         *)
(* Rewards are rationals: those of an agent are multiplied by 1000 times   *)
(* its initial distance to the goal and are then integers.  The code's     *)
(* floats round them.  The observation of a cell is the cell, the frame    *)
(* and whether the last move was blocked; the rest follows from the map.   *)
(* The action itself is left out: the server only compares the receipt of  *)
(* the client with it.  Action masks are disabled.                         *)
(***************************************************************************)
EXTENDS MazeMap, RolloutSegment

CONSTANTS
  Agents,
  Modes,        \* the run modes to start in
  Maps,         \* bound: the descriptors a client may send
  PlayedMaps,   \* bound: the ones it plays episodes on, in each mode
  MaxSteps,     \* task.episode_max_steps
  Value(_)      \* the model's value of a cell

ASSUME EpisodeConstantsAssumption ==
  /\ Agents # {} /\ IsFiniteSet(Agents)
  /\ Modes \subseteq {"training", "evaluation"}
  /\ PlayedMaps \in [Modes -> SUBSET Maps] /\ Maps \subseteq Descriptors
  /\ MaxSteps \in Nat \ {0}
  /\ \A c \in Cells : Value(c) \in Int

VARIABLES
  mode,      \* server.run_mode
  phase,     \* phase of the session
  degraded,  \* the service has been degraded
  map,       \* the validated map
  frame,     \* last_frame_id
  agents,    \* the agents of the session
  output     \* the segments closed by the last command, with their envelopes

vars == <<mode, phase, degraded, map, frame, agents, output>>

Nowhere == <<-1, -1>>
NoMap == [blocked |-> {}, goal |-> Nowhere, start |-> Nowhere,
          distance |-> <<>>]

Reasons == {"ACTIVE", "GOAL_REACHED", "TIME_LIMIT"}
\* What a client may say of an agent.  Nobody checks that an agent whose move
\* was blocked is where it was.
Reports == [cell : Cells, reason : Reasons, blocked : BOOLEAN]

IsEnvironmentTerminal(reason) == reason \in {"GOAL_REACHED", "TIME_LIMIT"}
Collect == mode = "training"
Observation(cell, f, blocked) == [cell |-> cell, frame |-> f, blocked |-> blocked]
NoObservation == Observation(Nowhere, -1, FALSE)

\* The rewards of an agent so far, by component.
NoRewards == [terminal |-> 0, progress |-> 0, firstVisit |-> 0, wasted |-> 0]
Total(rewards) ==
  rewards.terminal + rewards.progress + rewards.firstVisit + rewards.wasted

\* AgentTrainingState and MazeAgentState as an episode begins, and a history
\* field: stays counts the later reports of the cell the agent was in already.
ResetAgent ==
  [done |-> FALSE, pending |-> FALSE, pendingObservation |-> NoObservation,
   open |-> FALSE, segment |-> <<>>,
   observed |-> -1, terminalFrame |-> -1, reason |-> "UNSPECIFIED",
   return |-> 0, transitions |-> 0, sums |-> NoRewards,
   prev |-> Nowhere, cell |-> Nowhere, visited |-> {}, firstVisit |-> FALSE,
   bonusTotal |-> 0, startDistance |-> -1, blockedMoves |-> 0,
   stays |-> 0]

Init ==
  /\ mode \in Modes
  /\ phase = "OPEN" /\ degraded = FALSE
  /\ map = NoMap /\ frame = -1
  /\ agents = [a \in Agents |-> ResetAgent]
  /\ output = {}

Active == {a \in Agents : ~agents[a].done}

\* A cell the reward can be computed for (DistanceAt).
Reachable(cell) == cell \in Cells /\ map.distance[cell] \in Nat

-----------------------------------------------------------------------------
\* DecodeFrame.  The mutants stand for plausible errors in the definition
\* after them.

\* MazeObservation::ApplyState accepts the report.
Applies(agent, report, f) ==
  IF f = 0 /\ agent.observed < 0
  THEN ~report.blocked /\ Reachable(report.cell) /\ map.distance[report.cell] > 0
  ELSE agent.observed >= 0 /\ f = agent.observed + 1

DecodesBelowHorizon(agent, report, f) ==
  /\ IsWalkable(map.blocked, report.cell)
  /\ f > 0 => agent.pending
  /\ f < MaxSteps
  /\ IsEnvironmentTerminal(report.reason) =>
       agent.pending \/ agent.observed >= 0
  /\ report.reason = "TIME_LIMIT" => f = MaxSteps
  /\ Applies(agent, report, f)

\* The checks of one agent's report in frame f.
Decodes(agent, report, f) ==
  /\ IsWalkable(map.blocked, report.cell)
  /\ f > 0 => agent.pending
  /\ f <= MaxSteps
  /\ ~IsEnvironmentTerminal(report.reason) => f < MaxSteps
  /\ report.reason = "TIME_LIMIT" => f = MaxSteps
  /\ IsEnvironmentTerminal(report.reason) =>
       agent.pending \/ agent.observed >= 0
  /\ Applies(agent, report, f)

\* What ApplyState records.
Applied(agent, report, f) ==
  LET first == f = 0 /\ agent.observed < 0
      moved == report.cell # agent.cell
      seen == [agent EXCEPT !.cell = report.cell, !.observed = f]
  IN  IF first
      THEN [seen EXCEPT !.visited = {report.cell}, !.firstVisit = FALSE,
                        !.startDistance = map.distance[report.cell]]
      ELSE [seen EXCEPT !.visited = IF moved THEN @ \cup {report.cell} ELSE @,
                        !.firstVisit = moved /\ report.cell \notin agent.visited,
                        !.blockedMoves = IF report.blocked THEN @ + 1 ELSE @,
                        !.stays = IF moved THEN @ ELSE @ + 1]

\* The reward of the transition that ends in this report, for an agent the
\* report has been applied to (MazeReward::Calculate).
kGoalReward == 10000
kTimeoutPenalty == -2000
kProgressBudget == 1000
kFirstVisitBudget == 750
kWastedActionPenalty == -2

RewardIsDefined(agent) ==
  /\ agent.prev # Nowhere
  /\ ShortestActionSteps(map) > 0 /\ agent.startDistance > 0
  /\ Reachable(agent.prev) /\ Reachable(agent.cell)

FirstVisitUncapped(agent) ==
  IF agent.cell # agent.prev /\ agent.firstVisit THEN kFirstVisitBudget ELSE 0

\* At most the budget over the episode, in steps of a startDistance-th.
FirstVisitBonus(agent) ==
  LET left == kFirstVisitBudget * agent.startDistance - agent.bonusTotal
  IN  IF ~(agent.cell # agent.prev /\ agent.firstVisit) THEN 0
      ELSE IF kFirstVisitBudget <= left THEN kFirstVisitBudget
      ELSE IF left > 0 THEN left ELSE 0

Calculate(agent, reason) ==
  [terminal |->
     agent.startDistance * (CASE reason = "GOAL_REACHED" -> kGoalReward
                              [] reason = "TIME_LIMIT" -> kTimeoutPenalty
                              [] OTHER -> 0),
   progress |-> kProgressBudget * (map.distance[agent.prev]
                                     - map.distance[agent.cell]),
   firstVisit |-> FirstVisitBonus(agent),
   wasted |-> IF agent.cell = agent.prev
              THEN kWastedActionPenalty * agent.startDistance ELSE 0]

-----------------------------------------------------------------------------
\* PrepareFrame.

\* BuildRawRolloutTransition accepts the transition.
Continues(agent) ==
  /\ agent.open
  /\ agent.segment # <<>> =>
       agent.pendingObservation.frame =
         agent.segment[Len(agent.segment)].step + 1

\* A collected transition can be finished: its reward and its place in the
\* segment are right.
Finishes(agent) ==
  Collect /\ agent.pending =>
    RewardIsDefined(agent) /\ Continues(agent)

Summed(sums, rewards) == [c \in DOMAIN sums |-> sums[c] + rewards[c]]

\* FinalizePendingTransition, after the first-visit bonus has been booked.
FinalizePendingTransition(agent, rewards, next) ==
  IF ~agent.pending THEN agent
  ELSE IF ~Collect
  THEN [agent EXCEPT !.transitions = @ + 1, !.pending = FALSE]
  ELSE [agent EXCEPT
          !.bonusTotal = @ + rewards.firstVisit,
          !.transitions = @ + 1,
          !.return = @ + Total(rewards),
          !.sums = Summed(@, rewards),
          !.segment = Append(@, [observation |-> agent.pendingObservation,
                                 next |-> next, reward |-> Total(rewards),
                                 value |-> Value(agent.pendingObservation.cell),
                                 step |-> agent.pendingObservation.frame]),
          !.pending = FALSE]

\* A segment is closed when the agent is done, with no bootstrap, and when it
\* has TMax transitions, with the value of the observation it ends in.
Closes(agent, done) ==
  /\ Collect /\ agent.open /\ agent.segment # <<>>
  /\ done \/ Len(agent.segment) = TMax

Bootstrap(agent, done) == IF done THEN 0 ELSE Value(agent.cell)

Closing(a, agent, bootstrap) ==
  [agent |-> a, segment |-> agent.segment, bootstrap |-> bootstrap,
   envelopes |->
     FillEnvelopes(ProjectProcessedSegment(agent.segment, bootstrap))]

\* ... which the estimator and the envelopes allow.
Closable(agent, bootstrap) ==
  /\ Chained(agent.segment)
  /\ Divisible(ProjectProcessedSegment(agent.segment, bootstrap))

Cleared(agent) == [agent EXCEPT !.open = FALSE, !.segment = <<>>]

\* PrepareModelAction and EncodeActions.
Act(agent, observation) ==
  [agent EXCEPT !.open = @ \/ Collect, !.pending = TRUE,
                !.pendingObservation = observation, !.prev = agent.cell]

Finish(agent, reason, f) ==
  [agent EXCEPT !.done = TRUE, !.terminalFrame = f, !.reason = reason]

\* An agent after its report: observed, and its transition finished.
Finished(a, report, f) ==
  LET seen == Applied(agents[a], report, f)
      rewards == IF Collect /\ seen.pending
                 THEN Calculate(seen, report.reason) ELSE NoRewards
      done == IsEnvironmentTerminal(report.reason)
      finished == FinalizePendingTransition(seen, rewards,
                    Observation(report.cell, f, report.blocked))
  IN  IF done THEN Finish(finished, report.reason, f) ELSE finished

\* Frames of reports that every check of DecodeFrame lets through.
AcceptedReports(f) ==
  {reports \in [Active -> {r \in Reports :
                            \E a \in Active : Decodes(agents[a], r, f)}] :
     \A a \in Active : Decodes(agents[a], reports[a], f)}

Update ==
  LET f == frame + 1
  IN  /\ phase = "RUNNING" /\ ~degraded
      /\ \E reports \in AcceptedReports(f) :
           LET Done(a) == IsEnvironmentTerminal(reports[a].reason)
               finished == [a \in Active |-> Finished(a, reports[a], f)]
               closing == {a \in Active : Closes(finished[a], Done(a))}
               kept == [a \in Active |-> IF a \in closing
                                         THEN Cleared(finished[a])
                                         ELSE finished[a]]
               acting == {a \in Active : ~Done(a)}
           IN  /\ \A a \in Active : Finishes(Applied(agents[a], reports[a], f))
               /\ \A a \in closing :
                    Closable(finished[a], Bootstrap(finished[a], Done(a)))
               /\ agents' = [a \in Agents |->
                    IF a \in acting
                    THEN Act(kept[a],
                             Observation(reports[a].cell, f, reports[a].blocked))
                    ELSE IF a \in Active THEN kept[a] ELSE agents[a]]
               /\ phase' = IF acting = {} THEN "TERMINAL" ELSE "RUNNING"
               /\ output' = {Closing(a, finished[a],
                                     Bootstrap(finished[a], Done(a))) :
                               a \in closing}
  /\ frame' = frame + 1
  /\ UNCHANGED <<mode, degraded, map>>

\* A report is let through, but its reward or transition is invalid.
UpdateDegrades ==
  /\ phase = "RUNNING" /\ ~degraded
  /\ \E a \in Active : \E r \in Reports :
       /\ Decodes(agents[a], r, frame + 1)
       /\ \/ ~Finishes(Applied(agents[a], r, frame + 1))
          \/ LET done == IsEnvironmentTerminal(r.reason)
                 finished == Finished(a, r, frame + 1)
             IN  /\ Closes(finished, done)
                 /\ ~Closable(finished, Bootstrap(finished, done))
  /\ degraded' = TRUE /\ output' = {}
  /\ UNCHANGED <<mode, phase, map, frame, agents>>

-----------------------------------------------------------------------------
\* The other commands of a session.

InitializeTask ==
  /\ phase = "OPEN" /\ ~degraded
  /\ \E descriptor \in Maps :
       /\ ValidateMazeMapDescriptor(descriptor)
       /\ map' = ValidatedMap(descriptor)
  /\ agents' = [a \in Agents |-> ResetAgent]
  /\ phase' = "READY"
  /\ output' = {}
  /\ UNCHANGED <<mode, degraded, frame>>

BeginKeepsBonus ==
  /\ phase = "READY" /\ ~degraded
  /\ [blocked |-> map.blocked, start |-> map.start, goal |-> map.goal]
       \in PlayedMaps[mode]
  /\ phase' = "RUNNING" /\ frame' = -1
  /\ agents' = [a \in Agents |->
                  [ResetAgent EXCEPT !.bonusTotal = agents[a].bonusTotal]]
  /\ output' = {}
  /\ UNCHANGED <<mode, degraded, map>>

\* AssignEpisode and ResetEpisodeState.
BeginEpisode ==
  /\ phase = "READY" /\ ~degraded
  /\ [blocked |-> map.blocked, start |-> map.start, goal |-> map.goal]
       \in PlayedMaps[mode]
  /\ phase' = "RUNNING" /\ frame' = -1
  /\ agents' = [a \in Agents |-> ResetAgent]
  /\ output' = {}
  /\ UNCHANGED <<mode, degraded, map>>

\* The checks of PrepareOutcome, and those of EndEpisode before it.
OutcomeIsValid(agent) ==
  /\ ~agent.pending /\ ~agent.open /\ agent.segment = <<>>
  /\ IsEnvironmentTerminal(agent.reason) /\ agent.terminalFrame >= 0
  /\ agent.transitions > 0 /\ agent.visited # {}
  /\ agent.blockedMoves <= agent.transitions
  /\ Collect => agent.return = Total(agent.sums)

EndEpisode ==
  /\ phase = "TERMINAL"
  /\ \A a \in Agents : OutcomeIsValid(agents[a])
  /\ phase' = "READY"
  /\ output' = {}
  /\ UNCHANGED <<mode, degraded, map, frame, agents>>

\* PrepareAbort: an open segment is closed with the value its pending action
\* was taken with, the pending action itself is dropped.
AbortEpisode ==
  LET closing == {a \in Agents : /\ Collect /\ agents[a].open
                                 /\ agents[a].segment # <<>>}
      Bootstrapped(a) == IF agents[a].pending
                         THEN Value(agents[a].pendingObservation.cell)
                         ELSE Value(agents[a].cell)
  IN  /\ phase = "RUNNING"
      /\ \A a \in closing : Closable(agents[a], Bootstrapped(a))
      /\ phase' = "ABORTED"
      /\ agents' = [a \in Agents |->
                      [Cleared(agents[a]) EXCEPT !.pending = FALSE]]
      /\ output' = {Closing(a, agents[a], Bootstrapped(a)) : a \in closing}
      /\ UNCHANGED <<mode, degraded, map, frame>>

CloseSession ==
  /\ phase \in {"OPEN", "READY", "ABORTED"}
  /\ phase' = "CLOSED"
  /\ output' = {}
  /\ UNCHANGED <<mode, degraded, map, frame, agents>>

Next ==
  \/ InitializeTask \/ BeginEpisode \/ Update \/ UpdateDegrades
  \/ EndEpisode \/ AbortEpisode \/ CloseSession

Spec == Init /\ [][Next]_vars

-----------------------------------------------------------------------------
\* An episode that ends at its time limit has a negative return, however the
\* agent moved and whatever cells were new to it: the shaping never outweighs
\* the penalty (the static_assert "Reward maximum failure budget must remain
\* negative" of reward.cpp; Calculate, ApplyState, ResetEpisodeState).
FailureIsNegative ==
  \A a \in Agents :
    Collect /\ agents[a].reason = "TIME_LIMIT" => agents[a].return < 0

\* The return is what the path of the agent earns: the distance it gained since
\* its first observation, once per new cell within the budget, a penalty for
\* every transition without a move, and the terminal reward, with nothing of the
\* previous episode (Calculate, FinalizePendingTransition, EncodeActions).
RewardIsAccounted ==
  \A a \in Agents :
    LET agent == agents[a]
        distance == agent.startDistance
        fresh == Cardinality(agent.visited) - 1
    IN  Collect /\ agent.transitions > 0 =>
          /\ agent.return = Total(agent.sums)
          /\ agent.sums.progress =
               kProgressBudget * (distance - map.distance[agent.cell])
          /\ agent.sums.firstVisit =
               kFirstVisitBudget * (IF fresh < distance THEN fresh ELSE distance)
          /\ agent.sums.wasted = kWastedActionPenalty * distance * agent.stays
          /\ agent.sums.terminal =
               distance * (CASE agent.reason = "GOAL_REACHED" -> kGoalReward
                             [] agent.reason = "TIME_LIMIT" -> kTimeoutPenalty
                             [] OTHER -> 0)

-----------------------------------------------------------------------------
\* The environment's rule: an action moves the agent by one cell if no cell of
\* the square it crosses is blocked, and leaves it where it is otherwise.
Moved(cell, action) ==
  LET to == Neighbour(cell, action)
  IN  IF /\ action # 0
         /\ {cell[1], to[1]} \X {cell[2], to[2]} \subseteq Cells \ map.blocked
      THEN to ELSE cell

\* The geodesic distances, found by searching from the goal outwards, are the
\* least numbers of moves an agent needs: one more than from the best cell that
\* a move leads to, and -1 where no moves lead to the goal; and an agent sees in
\* every direction exactly as far as it can go (ValidateMazeMapDescriptor,
\* MazeObservation::Build).
MapFactsExact ==
  phase = "READY" /\ frame = -1 =>
    \A c \in Cells \ map.blocked :
      LET onward == {map.distance[Moved(c, d)] : d \in Directions} \cap Nat
      IN  /\ map.distance[c] = 0 <=> c = map.goal
          /\ c # map.goal =>
               IF onward = {} THEN map.distance[c] = -1
               ELSE /\ map.distance[c] - 1 \in onward
                    /\ \A distance \in onward : map.distance[c] - 1 <= distance
          /\ \A d \in Directions :
               LET further == 1 + Ray(map.blocked, Moved(c, d), d)
               IN  Ray(map.blocked, c, d) =
                     IF Moved(c, d) = c THEN 0
                     ELSE IF further < RayMaxRange THEN further ELSE RayMaxRange

\* What an environment that follows the rules reports next of an agent.
LawfulReports(agent, f) ==
  IF f = 0 THEN {[cell |-> map.start, reason |-> "ACTIVE", blocked |-> FALSE]}
  ELSE {LET cell == Moved(agent.cell, action)
        IN  [cell |-> cell,
             reason |-> IF cell = map.goal THEN "GOAL_REACHED"
                        ELSE IF f = MaxSteps THEN "TIME_LIMIT" ELSE "ACTIVE",
             blocked |-> action # 0 /\ cell = agent.cell] : action \in 0 .. 8}

\* An environment that follows the rules is never refused and never degrades the
\* service, up to the last frame of the horizon, and the finished episode passes
\* the checks of its outcome (DecodeFrame, Calculate, BuildRawRolloutTransition,
\* ProjectProcessedSegment, PrepareOutcome).
LawfulIsAccepted ==
  /\ phase = "RUNNING" /\ ~degraded =>
       \A a \in Active : \A r \in LawfulReports(agents[a], frame + 1) :
         LET finished == Finished(a, r, frame + 1)
             done == IsEnvironmentTerminal(r.reason)
         IN  /\ Decodes(agents[a], r, frame + 1)
             /\ Finishes(Applied(agents[a], r, frame + 1))
             /\ Closes(finished, done) =>
                  Closable(finished, Bootstrap(finished, done))
  /\ phase = "TERMINAL" => \A a \in Agents : OutcomeIsValid(agents[a])

\* A segment is closed before it outgrows tmax, and its envelopes hold every one
\* of its transitions once and in order, with the advantage and target of the
\* lambda return, and none is empty or over a limit (PrepareFrame,
\* EstimateRolloutSegment, PrepareAgentSegmentClose).
EnvelopesExact ==
  \A closing \in output :
    /\ Len(closing.segment) <= TMax
    /\ HoldExactly(closing.envelopes, closing.segment, closing.bootstrap)
=============================================================================
