------------------------- MODULE MazeEpisodeProofs -------------------------
(***************************************************************************)
(* Machine-checked proofs about MazeEpisode, for a grid of any size, any   *)
(* set of maps and agents, any horizon, tmax and model.                    *)
(*                                                                         *)
(* The account of an agent assumes nothing about the distances of the map: *)
(* the checks of a report let only cells with a distance into the reward.  *)
(* That lawful reports pass these checks rests on what the search finds    *)
(* (MazeOperatorProofs).                                                   *)
(***************************************************************************)
EXTENDS MazeEpisode, MazeOperatorProofs, TLAPS, FiniteSetTheorems

AnyCell == Cells \cup {Nowhere}
Observations == [cell : AnyCell, frame : Int, blocked : BOOLEAN]
Transitions == [observation : Observations, next : Observations,
                reward : Int, value : Int, step : Int]
Rewards == [terminal : Int, progress : Int, firstVisit : Int, wasted : Int]

AgentRecords ==
  [done : BOOLEAN, pending : BOOLEAN, pendingObservation : Observations,
   open : BOOLEAN, segment : Seq(Transitions),
   observed : Int, terminalFrame : Int, reason : Reasons \cup {"UNSPECIFIED"},
   return : Int, transitions : Nat, sums : Rewards,
   prev : AnyCell, cell : AnyCell, visited : SUBSET Cells,
   firstVisit : BOOLEAN, bonusTotal : Int, startDistance : Int,
   blockedMoves : Nat, stays : Nat]

-----------------------------------------------------------------------------
\* The inductive invariant: what is true of every agent after every command.

\* An agent that has not been observed in this episode starts from nothing.
Unseen(agent) ==
  /\ ~agent.pending /\ ~agent.open /\ agent.segment = <<>>
  /\ agent.return = 0 /\ agent.transitions = 0 /\ agent.sums = NoRewards
  /\ agent.bonusTotal = 0 /\ agent.blockedMoves = 0 /\ agent.stays = 0

\* An agent that has been: it is on a cell it has visited, and acts from there.
Seen(agent) ==
  /\ agent.cell \in agent.visited /\ agent.cell \in Cells
  /\ agent.startDistance \in Nat \ {0}
  /\ agent.pending =>
       /\ agent.prev = agent.cell
       /\ agent.pendingObservation.cell = agent.cell
       /\ agent.pendingObservation.frame = agent.observed
       /\ agent.open = Collect
  /\ agent.blockedMoves <= agent.transitions

\* An agent is done when its outcome is known, and then nothing is left open.
Ends(agent) ==
  /\ ~agent.done => agent.reason = "UNSPECIFIED"
  /\ agent.done =>
       /\ IsEnvironmentTerminal(agent.reason)
       /\ agent.observed >= 0 /\ agent.terminalFrame >= 0
       /\ agent.transitions > 0
       /\ ~agent.pending /\ ~agent.open

\* The cells the agent came to after its first, up to the budget.
Fresh(agent) == Cardinality(agent.visited) - 1
Paid(agent) == IF Fresh(agent) < agent.startDistance
               THEN Fresh(agent) ELSE agent.startDistance

TerminalReward(reason) ==
  CASE reason = "GOAL_REACHED" -> kGoalReward
    [] reason = "TIME_LIMIT" -> kTimeoutPenalty
    [] OTHER -> 0

\* What the agent has been given for its path, which ended so.
Earned(agent, reason) ==
  /\ map.distance[agent.cell] \in Nat
  /\ agent.return = Total(agent.sums)
  /\ agent.sums.progress =
       kProgressBudget * (agent.startDistance - map.distance[agent.cell])
  /\ agent.sums.firstVisit = kFirstVisitBudget * Paid(agent)
  /\ agent.bonusTotal = agent.sums.firstVisit
  /\ agent.sums.wasted = kWastedActionPenalty * agent.startDistance * agent.stays
  /\ agent.sums.terminal = agent.startDistance * TerminalReward(reason)

Accounts(agent) == Earned(agent, agent.reason)

\* The open segment: chained, shorter than tmax, and continued by the pending
\* action.
Collects(agent) ==
  /\ Chained(agent.segment)
  /\ Len(agent.segment) < TMax
  /\ ~agent.open => agent.segment = <<>>
  /\ agent.pending /\ agent.segment # <<>> =>
       /\ agent.segment[Len(agent.segment)].next = agent.pendingObservation
       /\ agent.pendingObservation.frame =
            agent.segment[Len(agent.segment)].step + 1

AgentInv(agent) ==
  /\ agent \in AgentRecords /\ IsFiniteSet(agent.visited)
  /\ agent.observed < 0 => Unseen(agent)
  /\ agent.observed >= 0 => Seen(agent)
  /\ Ends(agent)
  /\ Collects(agent)
  /\ Collect /\ agent.observed >= 0 => Accounts(agent)

IInv ==
  /\ mode \in {"training", "evaluation"}
  /\ frame \in Nat \cup {-1}
  /\ DOMAIN agents = Agents
  /\ \A a \in Agents : AgentInv(agents[a])
  /\ phase = "TERMINAL" => Active = {}
  /\ \A closing \in output :
       Chained(closing.segment) /\ Len(closing.segment) <= TMax

-----------------------------------------------------------------------------
\* What the steps of a frame do to an agent.

\* A new episode starts from nothing.
LEMMA ResetIsInv == AgentInv(ResetAgent)
<1> DEFINE agent == ResetAgent
<1>1. agent \in AgentRecords
  <2>1. NoObservation \in Observations
    BY DEF NoObservation, Observation, Observations, AnyCell
  <2>2. NoRewards \in Rewards
    BY DEF NoRewards, Rewards
  <2>3. <<>> \in Seq(Transitions) /\ Nowhere \in AnyCell
    BY DEF AnyCell
  <2> QED BY <2>1, <2>2, <2>3 DEF ResetAgent, AgentRecords
<1>2. /\ agent.observed = -1 /\ ~agent.done /\ ~agent.pending /\ ~agent.open
      /\ agent.segment = <<>> /\ agent.return = 0 /\ agent.transitions = 0
      /\ agent.sums = NoRewards /\ agent.bonusTotal = 0
      /\ agent.blockedMoves = 0 /\ agent.stays = 0 /\ agent.visited = {}
      /\ agent.reason = "UNSPECIFIED"
  BY DEF ResetAgent
<1>3. Collects(agent)
  BY <1>2, SegmentConstantsAssumption DEF Collects, Chained
<1> QED
  BY <1>1, <1>2, <1>3, FS_EmptySet DEF AgentInv, Unseen, Ends


\* Two agents that differ only in what a report says of them.
SameBut(agent, seen) ==
  /\ seen.done = agent.done /\ seen.pending = agent.pending
  /\ seen.pendingObservation = agent.pendingObservation
  /\ seen.open = agent.open /\ seen.segment = agent.segment
  /\ seen.terminalFrame = agent.terminalFrame /\ seen.reason = agent.reason
  /\ seen.return = agent.return /\ seen.transitions = agent.transitions
  /\ seen.sums = agent.sums /\ seen.prev = agent.prev
  /\ seen.bonusTotal = agent.bonusTotal

LEMMA FirstRecord ==
  ASSUME NEW agent \in AgentRecords, NEW cell \in AnyCell, NEW f \in Int,
         NEW visited \in SUBSET Cells, NEW first \in BOOLEAN,
         NEW distance \in Int
  PROVE  [agent EXCEPT !.cell = cell, !.observed = f, !.visited = visited,
                       !.firstVisit = first, !.startDistance = distance]
           \in AgentRecords
BY DEF AgentRecords

LEMMA LaterRecord ==
  ASSUME NEW agent \in AgentRecords, NEW cell \in AnyCell, NEW f \in Int,
         NEW visited \in SUBSET Cells, NEW first \in BOOLEAN,
         NEW blocked \in Nat, NEW stays \in Nat
  PROVE  [agent EXCEPT !.cell = cell, !.observed = f, !.visited = visited,
                       !.firstVisit = first, !.blockedMoves = blocked,
                       !.stays = stays]
           \in AgentRecords
BY DEF AgentRecords

\* The first report of an episode.
LEMMA AppliedFirst ==
  ASSUME NEW agent \in AgentRecords, NEW report \in Reports,
         agent.observed < 0, Reachable(report.cell)
  PROVE  LET seen == Applied(agent, report, 0)
         IN  /\ seen \in AgentRecords /\ SameBut(agent, seen)
             /\ seen.cell = report.cell /\ seen.observed = 0
             /\ seen.visited = {report.cell}
             /\ seen.startDistance = map.distance[report.cell]
             /\ seen.blockedMoves = agent.blockedMoves
             /\ seen.stays = agent.stays
<1> DEFINE seen == Applied(agent, report, 0)
           cell == report.cell
           distance == map.distance[cell]
           after == [agent EXCEPT !.cell = cell, !.observed = 0,
                                  !.visited = {cell}, !.firstVisit = FALSE,
                                  !.startDistance = distance]
<1>1. seen = after
  BY DEF Applied, AgentRecords
<1>2. /\ cell \in AnyCell /\ {cell} \in SUBSET Cells /\ distance \in Int
      /\ 0 \in Int /\ FALSE \in BOOLEAN
  BY DEF Reports, Reachable, AnyCell
<1> HIDE DEF seen, cell, distance
<1>3. after \in AgentRecords
  BY <1>2, FirstRecord, Zenon
<1>4. /\ SameBut(agent, after)
      /\ after.cell = cell /\ after.observed = 0 /\ after.visited = {cell}
      /\ after.startDistance = distance
      /\ after.blockedMoves = agent.blockedMoves
      /\ after.stays = agent.stays
  BY DEF SameBut, AgentRecords
<1> QED BY <1>1, <1>3, <1>4 DEF seen, cell, distance

\* A later one.
LEMMA AppliedLater ==
  ASSUME NEW agent \in AgentRecords, NEW report \in Reports, NEW f \in Nat,
         agent.observed >= 0
  PROVE  LET seen == Applied(agent, report, f)
             moved == report.cell # agent.cell
         IN  /\ seen \in AgentRecords /\ SameBut(agent, seen)
             /\ seen.cell = report.cell /\ seen.observed = f
             /\ seen.visited = IF moved THEN agent.visited \cup {report.cell}
                               ELSE agent.visited
             /\ seen.firstVisit = (moved /\ report.cell \notin agent.visited)
             /\ seen.startDistance = agent.startDistance
             /\ seen.blockedMoves = IF report.blocked
                                    THEN agent.blockedMoves + 1
                                    ELSE agent.blockedMoves
             /\ seen.stays = IF moved THEN agent.stays ELSE agent.stays + 1
<1> DEFINE seen == Applied(agent, report, f)
           cell == report.cell
           moved == cell # agent.cell
           visited == IF moved THEN agent.visited \cup {cell} ELSE agent.visited
           first == moved /\ cell \notin agent.visited
           blocked == IF report.blocked THEN agent.blockedMoves + 1
                      ELSE agent.blockedMoves
           stays == IF moved THEN agent.stays ELSE agent.stays + 1
           after == [agent EXCEPT !.cell = cell, !.observed = f,
                                  !.visited = visited, !.firstVisit = first,
                                  !.blockedMoves = blocked, !.stays = stays]
<1>1. seen = after
  BY DEF Applied, AgentRecords
<1>2. /\ cell \in AnyCell /\ visited \in SUBSET Cells
      /\ first \in BOOLEAN /\ blocked \in Nat /\ stays \in Nat /\ f \in Int
  BY DEF Reports, AgentRecords, AnyCell
<1> HIDE DEF seen, cell, visited, first, blocked, stays
<1>3. after \in AgentRecords
  BY <1>2, LaterRecord, Zenon
<1>4. /\ SameBut(agent, after)
      /\ after.cell = cell /\ after.observed = f /\ after.visited = visited
      /\ after.firstVisit = first /\ after.blockedMoves = blocked
      /\ after.stays = stays
      /\ after.startDistance = agent.startDistance
  BY DEF SameBut, AgentRecords
<1> QED
  BY <1>1, <1>3, <1>4 DEF seen, cell, visited, first, blocked, stays

LEMMA FinalizedRecord ==
  ASSUME NEW agent \in AgentRecords, NEW bonus \in Int, NEW steps \in Nat,
         NEW return \in Int, NEW sums \in Rewards,
         NEW segment \in Seq(Transitions)
  PROVE  [agent EXCEPT !.bonusTotal = bonus, !.transitions = steps,
                       !.return = return, !.sums = sums, !.segment = segment,
                       !.pending = FALSE] \in AgentRecords
BY DEF AgentRecords

\* What a finished transition leaves alone.
StaysInPlace(agent, after) ==
  /\ after.open = agent.open /\ after.observed = agent.observed
  /\ after.cell = agent.cell /\ after.visited = agent.visited
  /\ after.startDistance = agent.startDistance
  /\ after.blockedMoves = agent.blockedMoves
  /\ after.stays = agent.stays

\* The sums and the return of a transition are those of its rewards.
LEMMA SumsAdd ==
  ASSUME NEW sums \in Rewards, NEW rewards \in Rewards
  PROVE  /\ Summed(sums, rewards) \in Rewards
         /\ Total(sums) \in Int /\ Total(rewards) \in Int
         /\ Total(Summed(sums, rewards)) = Total(sums) + Total(rewards)
         /\ Summed(sums, rewards).terminal = sums.terminal + rewards.terminal
         /\ Summed(sums, rewards).progress = sums.progress + rewards.progress
         /\ Summed(sums, rewards).firstVisit
              = sums.firstVisit + rewards.firstVisit
         /\ Summed(sums, rewards).wasted = sums.wasted + rewards.wasted
<1> DEFINE after == Summed(sums, rewards)
<1>1. /\ after.terminal = sums.terminal + rewards.terminal
      /\ after.progress = sums.progress + rewards.progress
      /\ after.firstVisit = sums.firstVisit + rewards.firstVisit
      /\ after.wasted = sums.wasted + rewards.wasted
  BY DEF Summed, Rewards
<1>2. /\ sums.terminal \in Int /\ sums.progress \in Int
      /\ sums.firstVisit \in Int /\ sums.wasted \in Int
      /\ rewards.terminal \in Int /\ rewards.progress \in Int
      /\ rewards.firstVisit \in Int /\ rewards.wasted \in Int
  BY DEF Rewards
<1>3. after \in Rewards
  BY <1>2 DEF Summed, Rewards
<1> HIDE DEF after
<1>4. Total(after) = Total(sums) + Total(rewards)
  BY <1>1, <1>2 DEF Total
<1>5. Total(sums) \in Int /\ Total(rewards) \in Int
  BY <1>2 DEF Total
<1> QED BY <1>1, <1>3, <1>4, <1>5 DEF after

\* A finished transition in training mode.
LEMMA FinalizedCollecting ==
  ASSUME NEW agent \in AgentRecords, NEW rewards \in Rewards,
         NEW next \in Observations,
         Collect, agent.pending, agent.pendingObservation.cell \in Cells
  PROVE  LET after == FinalizePendingTransition(agent, rewards, next)
             transition == [observation |-> agent.pendingObservation,
                            next |-> next, reward |-> Total(rewards),
                            value |-> Value(agent.pendingObservation.cell),
                            step |-> agent.pendingObservation.frame]
         IN  /\ after \in AgentRecords /\ StaysInPlace(agent, after)
             /\ after.done = agent.done /\ after.reason = agent.reason
             /\ ~after.pending
             /\ after.transitions = agent.transitions + 1
             /\ after.return = agent.return + Total(rewards)
             /\ after.sums = Summed(agent.sums, rewards)
             /\ after.bonusTotal = agent.bonusTotal + rewards.firstVisit
             /\ transition \in Transitions
             /\ after.segment = Append(agent.segment, transition)
<1> DEFINE after == FinalizePendingTransition(agent, rewards, next)
           transition == [observation |-> agent.pendingObservation,
                          next |-> next, reward |-> Total(rewards),
                          value |-> Value(agent.pendingObservation.cell),
                          step |-> agent.pendingObservation.frame]
           bonus == agent.bonusTotal + rewards.firstVisit
           steps == agent.transitions + 1
           return == agent.return + Total(rewards)
           sums == Summed(agent.sums, rewards)
           segment == Append(agent.segment, transition)
           result == [agent EXCEPT !.bonusTotal = bonus, !.transitions = steps,
                                   !.return = return, !.sums = sums,
                                   !.segment = segment, !.pending = FALSE]
<1>1. after = result
  BY DEF FinalizePendingTransition, AgentRecords
<1>2. /\ agent.sums \in Rewards /\ agent.pendingObservation \in Observations
      /\ agent.bonusTotal \in Int /\ agent.transitions \in Nat
      /\ agent.return \in Int /\ agent.segment \in Seq(Transitions)
  BY DEF AgentRecords
<1>3. transition \in Transitions
  <2>1. agent.pendingObservation.frame \in Int
    BY <1>2 DEF Observations
  <2>2. Value(agent.pendingObservation.cell) \in Int
    BY EpisodeConstantsAssumption
  <2>3. Total(rewards) \in Int
    BY <1>2, SumsAdd
  <2> QED BY <1>2, <2>1, <2>2, <2>3 DEF Transitions
<1>4. /\ bonus \in Int /\ steps \in Nat /\ return \in Int /\ sums \in Rewards
      /\ segment \in Seq(Transitions)
  <2>1. rewards.firstVisit \in Int
    BY DEF Rewards
  <2>2. sums \in Rewards /\ Total(rewards) \in Int
    BY <1>2, SumsAdd
  <2> HIDE DEF transition
  <2>3. segment \in Seq(Transitions)
    BY <1>2, <1>3
  <2> QED BY <1>2, <2>1, <2>2, <2>3
<1> HIDE DEF after, bonus, steps, return, sums, segment, transition
<1>5. result \in AgentRecords
  BY <1>4, FinalizedRecord, Zenon
<1>6. /\ StaysInPlace(agent, result)
      /\ result.done = agent.done /\ result.reason = agent.reason
      /\ ~result.pending /\ result.transitions = steps
      /\ result.return = return /\ result.sums = sums
      /\ result.bonusTotal = bonus /\ result.segment = segment
  BY DEF StaysInPlace, AgentRecords
<1> QED
  BY <1>1, <1>3, <1>5, <1>6
     DEF after, bonus, steps, return, sums, segment, transition

\* One that is only counted, in evaluation mode.
LEMMA FinalizedCounting ==
  ASSUME NEW agent \in AgentRecords, NEW rewards, NEW next,
         ~Collect, agent.pending
  PROVE  LET after == FinalizePendingTransition(agent, rewards, next)
         IN  /\ after \in AgentRecords /\ StaysInPlace(agent, after)
             /\ after.done = agent.done /\ after.reason = agent.reason
             /\ ~after.pending
             /\ after.transitions = agent.transitions + 1
             /\ after.segment = agent.segment
<1> DEFINE after == FinalizePendingTransition(agent, rewards, next)
           steps == agent.transitions + 1
           result == [agent EXCEPT !.transitions = steps, !.pending = FALSE]
<1>1. after = result
  BY DEF FinalizePendingTransition, AgentRecords
<1>2. steps \in Nat
  BY DEF AgentRecords
<1> HIDE DEF after, steps
<1>3. result \in AgentRecords
  BY <1>2 DEF AgentRecords
<1>4. /\ StaysInPlace(agent, result)
      /\ result.done = agent.done /\ result.reason = agent.reason
      /\ ~result.pending /\ result.transitions = steps
      /\ result.segment = agent.segment
  BY DEF StaysInPlace, AgentRecords
<1> QED BY <1>1, <1>3, <1>4 DEF after, steps

\* An agent whose outcome is recorded.
LEMMA FinishedRecord ==
  ASSUME NEW agent \in AgentRecords, NEW reason \in Reasons, NEW f \in Nat
  PROVE  LET after == Finish(agent, reason, f)
         IN  /\ after \in AgentRecords /\ StaysInPlace(agent, after)
             /\ after.done /\ after.terminalFrame = f /\ after.reason = reason
             /\ after.pending = agent.pending
             /\ after.transitions = agent.transitions
             /\ after.return = agent.return /\ after.sums = agent.sums
             /\ after.bonusTotal = agent.bonusTotal
             /\ after.segment = agent.segment
<1> DEFINE after == [agent EXCEPT !.done = TRUE, !.terminalFrame = f,
                                 !.reason = reason]
<1>1. Finish(agent, reason, f) = after
  BY DEF Finish
<1>2. reason \in Reasons \cup {"UNSPECIFIED"} /\ f \in Int
  OBVIOUS
<1>3. after \in AgentRecords
  BY <1>2 DEF AgentRecords
<1>4. /\ StaysInPlace(agent, after)
      /\ after.done /\ after.terminalFrame = f /\ after.reason = reason
      /\ after.pending = agent.pending
      /\ after.transitions = agent.transitions
      /\ after.return = agent.return /\ after.sums = agent.sums
      /\ after.bonusTotal = agent.bonusTotal
      /\ after.segment = agent.segment
  BY DEF StaysInPlace, AgentRecords
<1> QED BY <1>1, <1>3, <1>4

\* A segment that has been closed is gone.
LEMMA ClearedRecord ==
  ASSUME NEW agent \in AgentRecords
  PROVE  LET after == Cleared(agent)
         IN  /\ after \in AgentRecords
             /\ ~after.open /\ after.segment = <<>>
             /\ after.observed = agent.observed /\ after.cell = agent.cell
             /\ after.visited = agent.visited
             /\ after.startDistance = agent.startDistance
             /\ after.blockedMoves = agent.blockedMoves
             /\ after.stays = agent.stays
             /\ after.done = agent.done /\ after.reason = agent.reason
             /\ after.terminalFrame = agent.terminalFrame
             /\ after.pending = agent.pending
             /\ after.pendingObservation = agent.pendingObservation
             /\ after.prev = agent.prev
             /\ after.transitions = agent.transitions
             /\ after.return = agent.return /\ after.sums = agent.sums
             /\ after.bonusTotal = agent.bonusTotal
<1> DEFINE after == [agent EXCEPT !.open = FALSE, !.segment = <<>>]
<1>1. Cleared(agent) = after
  BY DEF Cleared
<1>2. <<>> \in Seq(Transitions)
  OBVIOUS
<1>3. after \in AgentRecords
  BY <1>2 DEF AgentRecords
<1>4. /\ ~after.open /\ after.segment = <<>>
      /\ after.observed = agent.observed /\ after.cell = agent.cell
      /\ after.visited = agent.visited
      /\ after.startDistance = agent.startDistance
      /\ after.blockedMoves = agent.blockedMoves
      /\ after.stays = agent.stays
      /\ after.done = agent.done /\ after.reason = agent.reason
      /\ after.terminalFrame = agent.terminalFrame
      /\ after.pending = agent.pending
      /\ after.pendingObservation = agent.pendingObservation
      /\ after.prev = agent.prev
      /\ after.transitions = agent.transitions
      /\ after.return = agent.return /\ after.sums = agent.sums
      /\ after.bonusTotal = agent.bonusTotal
  BY DEF AgentRecords
<1> QED BY <1>1, <1>3, <1>4

\* An agent that acts again.
LEMMA ActingRecord ==
  ASSUME NEW agent \in AgentRecords, NEW observation \in Observations
  PROVE  LET after == Act(agent, observation)
         IN  /\ after \in AgentRecords
             /\ after.open = (agent.open \/ Collect)
             /\ after.segment = agent.segment
             /\ after.observed = agent.observed /\ after.cell = agent.cell
             /\ after.visited = agent.visited
             /\ after.startDistance = agent.startDistance
             /\ after.blockedMoves = agent.blockedMoves
             /\ after.stays = agent.stays
             /\ after.done = agent.done /\ after.reason = agent.reason
             /\ after.pending /\ after.pendingObservation = observation
             /\ after.prev = agent.cell
             /\ after.transitions = agent.transitions
             /\ after.return = agent.return /\ after.sums = agent.sums
             /\ after.bonusTotal = agent.bonusTotal
<1> DEFINE open == agent.open \/ Collect
           cell == agent.cell
           after == [agent EXCEPT !.open = open, !.pending = TRUE,
                                  !.pendingObservation = observation,
                                  !.prev = cell]
<1>1. Act(agent, observation) = after
  BY DEF Act, AgentRecords
<1>2. open \in BOOLEAN /\ cell \in AnyCell
  BY DEF AgentRecords
<1> HIDE DEF open, cell
<1>3. after \in AgentRecords
  BY <1>2 DEF AgentRecords
<1>4. /\ after.open = open /\ after.segment = agent.segment
      /\ after.observed = agent.observed /\ after.cell = agent.cell
      /\ after.visited = agent.visited
      /\ after.startDistance = agent.startDistance
      /\ after.blockedMoves = agent.blockedMoves
      /\ after.stays = agent.stays
      /\ after.done = agent.done /\ after.reason = agent.reason
      /\ after.pending /\ after.pendingObservation = observation
      /\ after.prev = cell
      /\ after.transitions = agent.transitions
      /\ after.return = agent.return /\ after.sums = agent.sums
      /\ after.bonusTotal = agent.bonusTotal
  BY DEF AgentRecords
<1> QED BY <1>1, <1>3, <1>4 DEF open, cell

-----------------------------------------------------------------------------
\* The arithmetic of the reward.

\* The bonus of a new cell keeps to the budget.
LEMMA BonusKeepsBudget ==
  ASSUME NEW distance \in Nat \ {0}, NEW fresh \in Nat, NEW total,
         total = kFirstVisitBudget
                   * (IF fresh < distance THEN fresh ELSE distance)
  PROVE  LET left == kFirstVisitBudget * distance - total
             bonus == IF kFirstVisitBudget <= left THEN kFirstVisitBudget
                      ELSE IF left > 0 THEN left ELSE 0
         IN  total + bonus =
               kFirstVisitBudget
                 * (IF fresh + 1 < distance THEN fresh + 1 ELSE distance)
BY DEF kFirstVisitBudget

\* The penalties for not moving, and one more.
LEMMA WastedAdds ==
  ASSUME NEW distance \in Nat, NEW stays \in Nat
  PROVE  LET penalty == kWastedActionPenalty * distance
         IN  /\ penalty * stays \in Int /\ penalty * stays <= 0
             /\ penalty * (stays + 1) = penalty * stays + penalty
<1> DEFINE penalty == kWastedActionPenalty * distance
<1>1. penalty \in Int /\ penalty <= 0
  BY DEF kWastedActionPenalty
<1> HIDE DEF penalty
<1>2. penalty * stays \in Int /\ penalty * stays <= 0
  BY <1>1
<1>3. penalty * (stays + 1) = penalty * stays + penalty
  BY <1>1
<1> QED BY <1>2, <1>3 DEF penalty

-----------------------------------------------------------------------------
\* An agent after its report, before its segment is closed and it acts again.

Reported(agent, report, f) ==
  /\ agent \in AgentRecords /\ IsFiniteSet(agent.visited)
  /\ agent.observed = f /\ agent.cell = report.cell
  /\ agent.cell \in agent.visited /\ agent.startDistance \in Nat \ {0}
  /\ agent.blockedMoves <= agent.transitions
  /\ ~agent.pending
  /\ agent.done = IsEnvironmentTerminal(report.reason)
  /\ agent.done => /\ f > 0 /\ agent.terminalFrame = f
                   /\ agent.reason = report.reason
  /\ ~agent.done => agent.reason = "UNSPECIFIED"
  /\ f = 0 => ~agent.open
  /\ f > 0 => /\ agent.transitions > 0 /\ agent.open = Collect
              /\ Collect => agent.segment # <<>>
  /\ ~agent.open => agent.segment = <<>>
  /\ Chained(agent.segment) /\ Len(agent.segment) <= TMax
  /\ agent.segment # <<>> =>
       /\ agent.segment[Len(agent.segment)].next =
            Observation(report.cell, f, report.blocked)
       /\ f = agent.segment[Len(agent.segment)].step + 1
  /\ Collect => Accounts(agent)

\* The first report of an agent begins its account.
LEMMA FirstReport ==
  ASSUME NEW a \in Agents, NEW report \in Reports,
         AgentInv(agents[a]), ~agents[a].done, agents[a].observed < 0,
         Decodes(agents[a], report, 0)
  PROVE  Reported(Finished(a, report, 0), report, 0)
<1> DEFINE agent == agents[a]
           seen == Applied(agent, report, 0)
<1>2. agent \in AgentRecords /\ Unseen(agent) /\ agent.reason = "UNSPECIFIED"
  BY DEF AgentInv, Ends
<1>0. agent.observed \in Int
  BY <1>2 DEF AgentRecords
<1>3. /\ Reachable(report.cell) /\ map.distance[report.cell] > 0
      /\ ~IsEnvironmentTerminal(report.reason)
  BY <1>2, <1>0 DEF Decodes, Applies, Unseen
<1>4. /\ seen \in AgentRecords /\ SameBut(agent, seen)
      /\ seen.cell = report.cell /\ seen.observed = 0
      /\ seen.visited = {report.cell}
      /\ seen.startDistance = map.distance[report.cell]
      /\ seen.blockedMoves = agent.blockedMoves
      /\ seen.stays = agent.stays
  BY <1>2, <1>3, AppliedFirst
<1>5. Finished(a, report, 0) = seen
  BY <1>2, <1>3, <1>4
     DEF Finished, FinalizePendingTransition, SameBut, Unseen
<1> HIDE DEF seen
<1>6. /\ seen.startDistance \in Nat \ {0}
      /\ map.distance[seen.cell] \in Nat
      /\ map.distance[seen.cell] = seen.startDistance
  BY <1>3, <1>4 DEF Reachable
<1>7. IsFiniteSet(seen.visited) /\ Cardinality(seen.visited) = 1
  BY <1>4, FS_Singleton
<1>8. Accounts(seen)
  <2>1. /\ seen.return = 0 /\ seen.sums = NoRewards /\ seen.bonusTotal = 0
        /\ seen.transitions = 0 /\ seen.reason = "UNSPECIFIED"
        /\ seen.stays = 0
    BY <1>2, <1>4 DEF SameBut, Unseen
  <2>2. Fresh(seen) = 0 /\ Paid(seen) = 0
    BY <1>6, <1>7 DEF Fresh, Paid
  <2>3. TerminalReward(seen.reason) = 0
    BY <2>1 DEF TerminalReward
  <2>4. /\ seen.sums.terminal = 0 /\ seen.sums.progress = 0
        /\ seen.sums.firstVisit = 0 /\ seen.sums.wasted = 0
        /\ Total(seen.sums) = 0
    BY <2>1 DEF NoRewards, Total
  <2> QED
    BY <1>6, <2>1, <2>2, <2>3, <2>4
       DEF Accounts, Earned, kProgressBudget, kFirstVisitBudget, kWastedActionPenalty
<1>9. /\ Chained(seen.segment) /\ Len(seen.segment) <= TMax
      /\ seen.segment = <<>>
  BY <1>2, <1>4, SegmentConstantsAssumption DEF SameBut, Unseen, Chained
<1>10. /\ seen.blockedMoves <= seen.transitions
       /\ ~seen.pending /\ ~seen.open /\ ~seen.done
       /\ seen.done = IsEnvironmentTerminal(report.reason)
       /\ seen.reason = "UNSPECIFIED"
  <2>1. seen.done = FALSE /\ IsEnvironmentTerminal(report.reason) = FALSE
    BY <1>2, <1>3, <1>4 DEF SameBut, AgentRecords, IsEnvironmentTerminal
  <2>2. ~seen.pending /\ ~seen.open /\ seen.reason = "UNSPECIFIED"
    BY <1>2, <1>4 DEF SameBut, Unseen
  <2>3. seen.blockedMoves <= seen.transitions
    BY <1>2, <1>4 DEF SameBut, Unseen
  <2>4. ~seen.done /\ seen.done = IsEnvironmentTerminal(report.reason)
    BY <2>1, Zenon
  <2> QED BY <2>2, <2>3, <2>4
<1>11. seen.cell \in seen.visited
  BY <1>4
<1>12. Reported(seen, report, 0)
  BY <1>4, <1>6, <1>7, <1>8, <1>9, <1>10, <1>11 DEF Reported
<1> QED BY <1>5, <1>12

\* The reward of a transition is a record of integers.
LEMMA CalculateType ==
  ASSUME NEW agent \in AgentRecords, NEW reason, RewardIsDefined(agent)
  PROVE  LET rewards == Calculate(agent, reason)
         IN  /\ rewards \in Rewards
             /\ rewards.terminal = agent.startDistance * TerminalReward(reason)
             /\ rewards.progress =
                  kProgressBudget * (map.distance[agent.prev]
                                       - map.distance[agent.cell])
             /\ rewards.firstVisit = FirstVisitBonus(agent)
             /\ rewards.wasted = IF agent.cell = agent.prev
                                 THEN kWastedActionPenalty * agent.startDistance
                                 ELSE 0
<1> DEFINE rewards == Calculate(agent, reason)
<1>1. /\ rewards.terminal = agent.startDistance * TerminalReward(reason)
      /\ rewards.progress =
           kProgressBudget * (map.distance[agent.prev]
                                - map.distance[agent.cell])
      /\ rewards.firstVisit = FirstVisitBonus(agent)
      /\ rewards.wasted = IF agent.cell = agent.prev
                          THEN kWastedActionPenalty * agent.startDistance
                          ELSE 0
  BY DEF Calculate, TerminalReward
<1>2. /\ agent.startDistance \in Int /\ agent.bonusTotal \in Int
      /\ map.distance[agent.prev] \in Int /\ map.distance[agent.cell] \in Int
  BY DEF AgentRecords, RewardIsDefined, Reachable
<1>3. agent.startDistance * TerminalReward(reason) \in Int
  BY <1>2 DEF TerminalReward, kGoalReward, kTimeoutPenalty
<1>4. /\ kProgressBudget * (map.distance[agent.prev]
                              - map.distance[agent.cell]) \in Int
      /\ kWastedActionPenalty * agent.startDistance \in Int
  BY <1>2 DEF kProgressBudget, kWastedActionPenalty
<1>5. FirstVisitBonus(agent) \in Int
  BY <1>2 DEF FirstVisitBonus, kFirstVisitBudget
<1>6. rewards = [terminal |-> rewards.terminal, progress |-> rewards.progress,
                 firstVisit |-> rewards.firstVisit, wasted |-> rewards.wasted]
  BY DEF Calculate
<1> HIDE DEF rewards
<1>7. /\ rewards.terminal \in Int /\ rewards.progress \in Int
      /\ rewards.firstVisit \in Int /\ rewards.wasted \in Int
  BY <1>1, <1>3, <1>4, <1>5
<1>8. rewards \in Rewards
  BY <1>6, <1>7 DEF Rewards
<1> QED BY <1>1, <1>8 DEF rewards

\* A later report of a training agent, once its transition is finished: every
\* part of the account follows.
LEMMA TransitionEarns ==
  ASSUME NEW agent \in AgentRecords, NEW seen \in AgentRecords,
         NEW after \in AgentRecords, NEW reason \in Reasons,
         IsFiniteSet(agent.visited), agent.cell \in agent.visited,
         agent.startDistance \in Nat \ {0},
         Earned(agent, "UNSPECIFIED"),
         SameBut(agent, seen), agent.prev = agent.cell,
         seen.startDistance = agent.startDistance,
         seen.visited = IF seen.cell # agent.cell
                        THEN agent.visited \cup {seen.cell} ELSE agent.visited,
         seen.firstVisit = (/\ seen.cell # agent.cell
                            /\ seen.cell \notin agent.visited),
         seen.stays = IF seen.cell # agent.cell THEN agent.stays
                      ELSE agent.stays + 1,
         RewardIsDefined(seen), StaysInPlace(seen, after),
         after.transitions = seen.transitions + 1,
         after.return = seen.return + Total(Calculate(seen, reason)),
         after.sums = Summed(seen.sums, Calculate(seen, reason)),
         after.bonusTotal = seen.bonusTotal + Calculate(seen, reason).firstVisit
  PROVE  Earned(after, reason)
<1> DEFINE rewards == Calculate(seen, reason)
           distance == agent.startDistance
           new == seen.cell # agent.cell /\ seen.cell \notin agent.visited
           sums == agent.sums
<1>1. /\ rewards \in Rewards
      /\ rewards.terminal = distance * TerminalReward(reason)
      /\ rewards.progress =
           kProgressBudget * (map.distance[agent.cell] - map.distance[seen.cell])
      /\ rewards.firstVisit = FirstVisitBonus(seen)
      /\ rewards.wasted = IF seen.cell = agent.cell
                          THEN kWastedActionPenalty * distance ELSE 0
  BY CalculateType DEF SameBut
<1>2. /\ seen.sums = sums /\ seen.return = agent.return
      /\ seen.transitions = agent.transitions
      /\ seen.bonusTotal = agent.bonusTotal /\ seen.prev = agent.cell
      /\ after.cell = seen.cell /\ after.visited = seen.visited
      /\ after.startDistance = distance /\ after.stays = seen.stays
  BY DEF SameBut, StaysInPlace
<1>3. /\ sums \in Rewards /\ agent.transitions \in Nat
      /\ sums.terminal \in Int /\ sums.progress \in Int
      /\ sums.firstVisit \in Int /\ sums.wasted \in Int
      /\ agent.return \in Int
  BY DEF AgentRecords, Rewards
<1> HIDE DEF rewards
<1>4. /\ Total(after.sums) = Total(sums) + Total(rewards)
      /\ Total(sums) \in Int /\ Total(rewards) \in Int
      /\ after.sums.terminal = sums.terminal + rewards.terminal
      /\ after.sums.progress = sums.progress + rewards.progress
      /\ after.sums.firstVisit = sums.firstVisit + rewards.firstVisit
      /\ after.sums.wasted = sums.wasted + rewards.wasted
  <2>1. after.sums = Summed(sums, rewards)
    BY <1>2 DEF rewards
  <2>2. sums \in Rewards /\ rewards \in Rewards
    BY <1>1, <1>3
  <2> HIDE DEF sums
  <2> DEFINE summed == Summed(sums, rewards)
  <2>3. /\ Total(summed) = Total(sums) + Total(rewards)
        /\ Total(sums) \in Int /\ Total(rewards) \in Int
        /\ summed.terminal = sums.terminal + rewards.terminal
        /\ summed.progress = sums.progress + rewards.progress
        /\ summed.firstVisit = sums.firstVisit + rewards.firstVisit
        /\ summed.wasted = sums.wasted + rewards.wasted
    BY <2>2, SumsAdd
  <2> QED BY <2>1, <2>3
<1>5. map.distance[seen.cell] \in Nat /\ map.distance[agent.cell] \in Nat
  BY <1>2 DEF RewardIsDefined, Reachable
<1>6. after.return = Total(after.sums)
  <2>1. after.return = agent.return + Total(rewards)
    BY <1>2 DEF rewards
  <2>2. agent.return = Total(sums)
    BY DEF Earned
  <2> QED BY <1>4, <2>1, <2>2
<1>7. after.sums.progress =
        kProgressBudget * (distance - map.distance[seen.cell])
  <2>1. sums.progress =
          kProgressBudget * (distance - map.distance[agent.cell])
    BY DEF Earned
  <2> QED BY <1>1, <1>4, <1>5, <2>1 DEF kProgressBudget
<1>8. after.sums.terminal = distance * TerminalReward(reason)
  <2>1. sums.terminal = distance * TerminalReward("UNSPECIFIED")
    BY DEF Earned
  <2>2. TerminalReward("UNSPECIFIED") = 0 /\ TerminalReward(reason) \in Int
    BY DEF TerminalReward, kGoalReward, kTimeoutPenalty
  <2>3. distance * TerminalReward(reason) \in Int
    BY <2>2
  <2>4. sums.terminal = 0
    BY <2>1, <2>2
  <2>5. rewards.terminal \in Int
    BY <1>1, <2>3
  <2>6. after.sums.terminal = rewards.terminal
    BY <1>4, <2>4, <2>5
  <2> QED BY <1>1, <2>6
<1>9. /\ Fresh(agent) \in Nat
      /\ Fresh(after) = IF new THEN Fresh(agent) + 1 ELSE Fresh(agent)
  <2>1. Cardinality(agent.visited) \in Nat \ {0}
    BY FS_CardinalityType, FS_EmptySet
  <2>2. CASE new
    <3>1. after.visited = agent.visited \cup {seen.cell}
      BY <1>2, <2>2
    <3>2. Cardinality(after.visited) = Cardinality(agent.visited) + 1
      BY <2>2, <3>1, FS_AddElement
    <3> QED BY <2>1, <2>2, <3>2 DEF Fresh
  <2>3. CASE ~new
    <3>1. after.visited = agent.visited
      BY <1>2, <2>3
    <3> QED BY <2>1, <2>3, <3>1 DEF Fresh
  <2> QED BY <2>2, <2>3
<1>10. /\ after.sums.firstVisit = kFirstVisitBudget * Paid(after)
       /\ after.bonusTotal = after.sums.firstVisit
  <2>1. /\ sums.firstVisit = kFirstVisitBudget * Paid(agent)
        /\ agent.bonusTotal = sums.firstVisit
    BY DEF Earned
  <2>2. after.bonusTotal = agent.bonusTotal + rewards.firstVisit
    BY <1>2 DEF rewards
  <2>3. CASE ~new
    <3>1. rewards.firstVisit = 0
      BY <1>1, <1>2, <2>3 DEF FirstVisitBonus
    <3>2. Paid(after) = Paid(agent)
      BY <1>2, <1>9, <2>3 DEF Paid
    <3> QED BY <1>3, <1>4, <2>1, <2>2, <3>1, <3>2
  <2>4. CASE new
    <3> DEFINE left == kFirstVisitBudget * distance - agent.bonusTotal
               bonus == IF kFirstVisitBudget <= left THEN kFirstVisitBudget
                        ELSE IF left > 0 THEN left ELSE 0
               fresh == Fresh(agent)
    <3>1. rewards.firstVisit = bonus
      BY <1>1, <1>2, <2>4 DEF FirstVisitBonus
    <3>2. Paid(after) = IF fresh + 1 < distance THEN fresh + 1 ELSE distance
      BY <1>2, <1>9, <2>4 DEF Paid
    <3>3. agent.bonusTotal = kFirstVisitBudget
            * (IF fresh < distance THEN fresh ELSE distance)
      BY <2>1 DEF Paid
    <3>4. agent.bonusTotal + bonus = kFirstVisitBudget
            * (IF fresh + 1 < distance THEN fresh + 1 ELSE distance)
      <4> HIDE DEF fresh, distance
      <4> QED BY <1>9, <3>3, BonusKeepsBudget DEF fresh, distance
    <3> QED BY <1>4, <2>1, <2>2, <3>1, <3>2, <3>4
  <2> QED BY <2>3, <2>4
<1>11. after.sums.wasted = kWastedActionPenalty * distance * after.stays
  <2> DEFINE penalty == kWastedActionPenalty * distance
             stays == agent.stays
  <2>1. sums.wasted = penalty * stays
    BY DEF Earned
  <2>2. stays \in Nat
    BY DEF AgentRecords
  <2>3. penalty * (stays + 1) = penalty * stays + penalty
    BY <2>2, WastedAdds
  <2>4. CASE seen.cell = agent.cell
    <3>1. rewards.wasted = penalty /\ after.stays = stays + 1
      BY <1>1, <1>2, <2>4
    <3> QED BY <1>4, <2>1, <2>3, <3>1
  <2>5. CASE seen.cell # agent.cell
    <3>1. rewards.wasted = 0 /\ after.stays = stays
      BY <1>1, <1>2, <2>5
    <3> QED BY <1>3, <1>4, <2>1, <3>1
  <2> QED BY <2>4, <2>5
<1> QED
  BY <1>2, <1>5, <1>6, <1>7, <1>8, <1>10, <1>11 DEF Earned

\* A transition that starts where the last one ended keeps the chain.
LEMMA ChainedAppend ==
  ASSUME NEW segment \in Seq(Transitions), NEW transition \in Transitions,
         Chained(segment),
         segment # <<>> =>
           /\ segment[Len(segment)].next = transition.observation
           /\ transition.step = segment[Len(segment)].step + 1
  PROVE  Chained(Append(segment, transition))
<1> DEFINE longer == Append(segment, transition)
<1>1. Len(longer) = Len(segment) + 1 /\ Len(segment) \in Nat
  OBVIOUS
<1>2. /\ \A i \in 1 .. Len(segment) : longer[i] = segment[i]
      /\ longer[Len(segment) + 1] = transition
  OBVIOUS
<1> HIDE DEF longer
<1> SUFFICES ASSUME NEW i \in 1 .. Len(longer) - 1
             PROVE  /\ longer[i].next = longer[i + 1].observation
                    /\ longer[i + 1].step = longer[i].step + 1
  BY DEF Chained, longer
<1>3. i \in 1 .. Len(segment) /\ i \in Int
  BY <1>1
<1>4. CASE i = Len(segment)
  <2>1. segment # <<>>
    BY <1>3
  <2> QED BY <1>2, <1>3, <1>4, <2>1
<1>5. CASE i # Len(segment)
  <2>1. i \in 1 .. Len(segment) - 1 /\ i + 1 \in 1 .. Len(segment)
    BY <1>1, <1>3, <1>5
  <2>2. /\ segment[i].next = segment[i + 1].observation
        /\ segment[i + 1].step = segment[i].step + 1
    BY <2>1 DEF Chained
  <2> QED BY <1>2, <1>3, <2>1, <2>2
<1> QED BY <1>4, <1>5

\* A pending transition continues the segment: what BuildRawRolloutTransition
\* and ProjectProcessedSegment check of the chain always holds.
LEMMA ChainHolds ==
  ASSUME NEW agent \in AgentRecords, NEW transition \in Transitions,
         Seen(agent), Collects(agent), agent.pending, Collect,
         transition.observation = agent.pendingObservation,
         transition.step = agent.pendingObservation.frame
  PROVE  LET segment == Append(agent.segment, transition)
         IN  /\ Continues(agent)
             /\ Chained(segment) /\ Len(segment) <= TMax /\ segment # <<>>
             /\ segment[Len(segment)] = transition
<1> DEFINE segment == Append(agent.segment, transition)
<1>1. agent.segment \in Seq(Transitions) /\ Len(agent.segment) < TMax
  BY DEF AgentRecords, Collects
<1>2. agent.segment # <<>> =>
        /\ agent.segment[Len(agent.segment)].next = transition.observation
        /\ transition.step = agent.segment[Len(agent.segment)].step + 1
  BY DEF Collects
<1>3. Chained(segment)
  BY <1>1, <1>2, ChainedAppend DEF Collects
<1>4. /\ Len(segment) = Len(agent.segment) + 1
      /\ segment[Len(agent.segment) + 1] = transition
      /\ Len(agent.segment) \in Nat
  BY <1>1
<1>5. Len(segment) <= TMax /\ segment # <<>>
  BY <1>1, <1>4, SegmentConstantsAssumption
<1>6. Continues(agent)
  BY DEF Continues, Seen, Collects
<1> QED BY <1>3, <1>4, <1>5, <1>6

\* What a later report finds, and what it makes of the agent.
Follows(agent, report, f, seen) ==
  /\ report \in Reports /\ agent \in AgentRecords
  /\ Seen(agent) /\ Collects(agent) /\ agent.reason = "UNSPECIFIED"
  /\ f = agent.observed + 1 /\ f > 0 /\ agent.pending
  /\ seen \in AgentRecords /\ SameBut(agent, seen)
  /\ seen.cell = report.cell /\ seen.observed = f
  /\ seen.visited = IF seen.cell # agent.cell
                    THEN agent.visited \cup {seen.cell} ELSE agent.visited
  /\ seen.firstVisit = (/\ seen.cell # agent.cell
                        /\ seen.cell \notin agent.visited)
  /\ seen.startDistance = agent.startDistance
  /\ seen.blockedMoves <= agent.blockedMoves + 1
  /\ seen.stays = IF seen.cell # agent.cell THEN agent.stays ELSE agent.stays + 1
  /\ IsFiniteSet(seen.visited) /\ seen.cell \in seen.visited
  /\ Observation(report.cell, f, report.blocked) \in Observations

LEMMA LaterFacts ==
  ASSUME NEW agent, NEW report \in Reports, NEW f \in Nat,
         AgentInv(agent), ~agent.done, agent.observed >= 0,
         Decodes(agent, report, f)
  PROVE  Follows(agent, report, f, Applied(agent, report, f))
<1> DEFINE seen == Applied(agent, report, f)
<1>1. agent \in AgentRecords /\ Seen(agent)
  BY DEF AgentInv
<1>2. Collects(agent) /\ agent.reason = "UNSPECIFIED"
  BY DEF AgentInv, Ends
<1>3. agent.observed \in Int /\ agent.blockedMoves \in Nat
  BY <1>1 DEF AgentRecords
<1>4. f = agent.observed + 1 /\ f > 0
  BY <1>3 DEF Decodes, Applies
<1>5. agent.pending
  BY <1>4 DEF Decodes
<1>6. /\ seen \in AgentRecords /\ SameBut(agent, seen)
      /\ seen.cell = report.cell /\ seen.observed = f
      /\ seen.visited = IF report.cell # agent.cell
                        THEN agent.visited \cup {report.cell}
                        ELSE agent.visited
      /\ seen.firstVisit = (/\ report.cell # agent.cell
                            /\ report.cell \notin agent.visited)
      /\ seen.startDistance = agent.startDistance
      /\ seen.blockedMoves = IF report.blocked THEN agent.blockedMoves + 1
                             ELSE agent.blockedMoves
      /\ seen.stays = IF report.cell # agent.cell THEN agent.stays
                      ELSE agent.stays + 1
  BY <1>1, AppliedLater
<1> HIDE DEF seen
<1>7. seen.blockedMoves <= agent.blockedMoves + 1
  BY <1>3, <1>6
<1>8. seen.cell \in seen.visited
  BY <1>1, <1>6 DEF Seen
<1>9. IsFiniteSet(seen.visited)
  <2>1. IsFiniteSet(agent.visited)
    BY DEF AgentInv
  <2>2. IsFiniteSet(agent.visited \cup {report.cell})
    BY <2>1, FS_AddElement
  <2> QED BY <1>6, <2>1, <2>2
<1>10. Observation(report.cell, f, report.blocked) \in Observations
  BY <1>1 DEF Observation, Observations, Reports, AnyCell
<1> QED
  BY <1>1, <1>2, <1>4, <1>5, <1>6, <1>7, <1>8, <1>9, <1>10 DEF seen, Follows

\* The transition of a later report, with the account and the segment it leaves.
LEMMA LaterTransition ==
  ASSUME NEW agent, NEW report \in Reports, NEW f \in Nat,
         AgentInv(agent), ~agent.done, agent.observed >= 0,
         Decodes(agent, report, f),
         Collect => RewardIsDefined(Applied(agent, report, f))
  PROVE  LET seen == Applied(agent, report, f)
             rewards == IF Collect /\ seen.pending
                        THEN Calculate(seen, report.reason) ELSE NoRewards
             next == Observation(report.cell, f, report.blocked)
             after == FinalizePendingTransition(seen, rewards, next)
         IN  /\ after \in AgentRecords /\ StaysInPlace(seen, after)
             /\ ~after.done /\ after.reason = "UNSPECIFIED" /\ ~after.pending
             /\ after.transitions = agent.transitions + 1
             /\ after.open = Collect
             /\ Chained(after.segment) /\ Len(after.segment) <= TMax
             /\ Collect =>
                  /\ after.segment # <<>>
                  /\ after.segment[Len(after.segment)].next = next
                  /\ f = after.segment[Len(after.segment)].step + 1
                  /\ Earned(after, report.reason)
             /\ ~Collect => after.segment = <<>>
<1> DEFINE seen == Applied(agent, report, f)
           rewards == IF Collect /\ seen.pending
                      THEN Calculate(seen, report.reason) ELSE NoRewards
           next == Observation(report.cell, f, report.blocked)
           after == FinalizePendingTransition(seen, rewards, next)
<1>1. /\ report \in Reports /\ agent \in AgentRecords
      /\ Seen(agent) /\ Collects(agent) /\ agent.reason = "UNSPECIFIED"
      /\ f = agent.observed + 1 /\ f > 0 /\ agent.pending
      /\ seen \in AgentRecords /\ SameBut(agent, seen)
      /\ seen.visited = IF seen.cell # agent.cell
                        THEN agent.visited \cup {seen.cell} ELSE agent.visited
      /\ seen.firstVisit = (/\ seen.cell # agent.cell
                            /\ seen.cell \notin agent.visited)
      /\ seen.startDistance = agent.startDistance
      /\ seen.stays = IF seen.cell # agent.cell THEN agent.stays
                      ELSE agent.stays + 1
      /\ next \in Observations
  <2>1. Follows(agent, report, f, seen)
    BY LaterFacts
  <2> QED BY <2>1 DEF Follows
<1>2. /\ ~seen.done /\ seen.pending /\ seen.open = Collect
      /\ seen.reason = "UNSPECIFIED" /\ seen.segment = agent.segment
      /\ seen.transitions = agent.transitions
      /\ seen.pendingObservation = agent.pendingObservation
      /\ seen.pendingObservation.cell \in Cells
      /\ seen.pendingObservation.frame = agent.observed
  BY <1>1 DEF SameBut, Seen
<1> HIDE DEF seen, next
<1>3. CASE Collect
  <2>1. rewards = Calculate(seen, report.reason) /\ RewardIsDefined(seen)
    BY <1>2, <1>3 DEF seen
  <2>2. rewards \in Rewards
    BY <1>1, <2>1, CalculateType
  <2> HIDE DEF rewards
  <2> DEFINE transition == [observation |-> seen.pendingObservation,
                            next |-> next, reward |-> Total(rewards),
                            value |-> Value(seen.pendingObservation.cell),
                            step |-> seen.pendingObservation.frame]
  <2>3. /\ after \in AgentRecords /\ StaysInPlace(seen, after)
        /\ after.done = seen.done /\ after.reason = seen.reason
        /\ ~after.pending
        /\ after.transitions = seen.transitions + 1
        /\ after.return = seen.return + Total(rewards)
        /\ after.sums = Summed(seen.sums, rewards)
        /\ after.bonusTotal = seen.bonusTotal + rewards.firstVisit
        /\ transition \in Transitions
        /\ after.segment = Append(seen.segment, transition)
    BY <1>1, <1>2, <1>3, <2>2, FinalizedCollecting
  <2>4. /\ transition.observation = agent.pendingObservation
        /\ transition.next = next
        /\ transition.step = agent.observed
        /\ transition.step = agent.pendingObservation.frame
    BY <1>2
  <2> HIDE DEF after, transition
  <2>5. /\ Chained(after.segment) /\ Len(after.segment) <= TMax
        /\ after.segment # <<>>
        /\ after.segment[Len(after.segment)] = transition
    BY <1>1, <1>2, <1>3, <2>3, <2>4, ChainHolds
  <2>6. Earned(after, report.reason)
    <3>1. /\ report.reason \in Reasons /\ IsFiniteSet(agent.visited)
          /\ agent.cell \in agent.visited
          /\ agent.startDistance \in Nat \ {0} /\ agent.prev = agent.cell
      BY <1>1 DEF Reports, AgentInv, Seen
    <3>2. Earned(agent, "UNSPECIFIED")
      BY <1>1, <1>3 DEF AgentInv, Accounts
    <3> QED BY <1>1, <2>1, <2>3, <3>1, <3>2, TransitionEarns
  <2>7. /\ ~after.done /\ after.reason = "UNSPECIFIED"
        /\ after.transitions = agent.transitions + 1
        /\ after.open = Collect
    BY <1>2, <2>3 DEF StaysInPlace
  <2> QED
    BY <1>1, <1>3, <2>3, <2>4, <2>5, <2>6, <2>7
       DEF after, rewards, seen, next
<1>4. CASE ~Collect
  <2> HIDE DEF rewards
  <2>1. /\ after \in AgentRecords /\ StaysInPlace(seen, after)
        /\ after.done = seen.done /\ after.reason = seen.reason
        /\ ~after.pending /\ after.transitions = seen.transitions + 1
        /\ after.segment = seen.segment
    BY <1>1, <1>2, <1>4, FinalizedCounting
  <2> HIDE DEF after
  <2>2. after.segment = <<>> /\ Chained(after.segment)
    BY <1>1, <1>2, <1>4, <2>1 DEF Collects, Seen
  <2>3. Len(after.segment) <= TMax
    BY <2>2, SegmentConstantsAssumption
  <2>4. /\ ~after.done /\ after.reason = "UNSPECIFIED"
        /\ after.transitions = agent.transitions + 1
        /\ after.open = Collect
    BY <1>2, <2>1 DEF StaysInPlace
  <2> QED
    BY <1>4, <2>1, <2>2, <2>3, <2>4 DEF after, rewards, seen, next
<1> QED BY <1>3, <1>4

\* A later report continues the account.
LEMMA LaterReport ==
  ASSUME NEW a \in Agents, NEW report \in Reports, NEW f \in Nat,
         AgentInv(agents[a]), ~agents[a].done, agents[a].observed >= 0,
         Decodes(agents[a], report, f),
         Collect => RewardIsDefined(Applied(agents[a], report, f))
  PROVE  Reported(Finished(a, report, f), report, f)
<1> DEFINE agent == agents[a]
           seen == Applied(agent, report, f)
           rewards == IF Collect /\ seen.pending
                      THEN Calculate(seen, report.reason) ELSE NoRewards
           next == Observation(report.cell, f, report.blocked)
           after == FinalizePendingTransition(seen, rewards, next)
           done == IsEnvironmentTerminal(report.reason)
           result == Finished(a, report, f)
<1>1. /\ report \in Reports /\ agent \in AgentRecords /\ Seen(agent)
      /\ f > 0 /\ seen \in AgentRecords
      /\ seen.cell = report.cell /\ seen.observed = f
      /\ seen.startDistance = agent.startDistance
      /\ seen.blockedMoves <= agent.blockedMoves + 1
      /\ IsFiniteSet(seen.visited) /\ seen.cell \in seen.visited
  <2>1. Follows(agent, report, f, seen)
    BY LaterFacts
  <2> HIDE DEF seen
  <2> QED BY <2>1 DEF Follows
<1>2. /\ after \in AgentRecords /\ StaysInPlace(seen, after)
      /\ ~after.done /\ after.reason = "UNSPECIFIED" /\ ~after.pending
      /\ after.transitions = agent.transitions + 1
      /\ after.open = Collect
      /\ Chained(after.segment) /\ Len(after.segment) <= TMax
      /\ Collect =>
           /\ after.segment # <<>>
           /\ after.segment[Len(after.segment)].next = next
           /\ f = after.segment[Len(after.segment)].step + 1
           /\ Earned(after, report.reason)
      /\ ~Collect => after.segment = <<>>
  BY LaterTransition
<1>3. result = IF done THEN Finish(after, report.reason, f) ELSE after
  BY DEF Finished
<1> HIDE DEF seen, rewards, after, result
<1>4. /\ report.reason \in Reasons /\ done \in BOOLEAN
  BY <1>1 DEF Reports, IsEnvironmentTerminal
<1>5. /\ result \in AgentRecords /\ StaysInPlace(after, result)
      /\ result.done = done /\ ~result.pending
      /\ result.reason = IF done THEN report.reason ELSE "UNSPECIFIED"
      /\ done => result.terminalFrame = f
      /\ result.transitions = after.transitions
      /\ result.return = after.return /\ result.sums = after.sums
      /\ result.bonusTotal = after.bonusTotal
      /\ result.segment = after.segment
  <2>1. CASE done
    <3> DEFINE finished == Finish(after, report.reason, f)
    <3>0. after \in AgentRecords /\ report.reason \in Reasons
      BY <1>2, <1>4
    <3>1. /\ finished \in AgentRecords /\ StaysInPlace(after, finished)
          /\ finished.done /\ finished.terminalFrame = f
          /\ finished.reason = report.reason
          /\ finished.pending = after.pending
          /\ finished.transitions = after.transitions
          /\ finished.return = after.return /\ finished.sums = after.sums
          /\ finished.bonusTotal = after.bonusTotal
          /\ finished.segment = after.segment
      BY <3>0, FinishedRecord
    <3> HIDE DEF finished
    <3>2. result = finished
      BY <1>3, <2>1 DEF finished
    <3>3. finished.done = done
      <4>1. finished.done \in BOOLEAN
        BY <3>1 DEF AgentRecords
      <4> QED BY <1>4, <2>1, <3>1, <4>1
    <3> QED BY <1>2, <2>1, <3>1, <3>2, <3>3
  <2>2. CASE ~done
    <3>1. result = after
      BY <1>3, <2>2
    <3>2. after.done = done
      <4>1. after.done \in BOOLEAN
        BY <1>2 DEF AgentRecords
      <4> QED BY <1>2, <1>4, <2>2, <4>1
    <3> QED BY <1>2, <2>2, <3>1, <3>2 DEF StaysInPlace
  <2> QED BY <2>1, <2>2
<1>6. /\ result.observed = f /\ result.cell = report.cell
      /\ result.visited = seen.visited
      /\ result.startDistance = agent.startDistance
      /\ result.blockedMoves = seen.blockedMoves
      /\ result.stays = seen.stays
      /\ result.open = Collect
  BY <1>1, <1>2, <1>5 DEF StaysInPlace
<1>7. /\ agent.transitions \in Nat /\ agent.blockedMoves \in Nat
      /\ seen.blockedMoves \in Nat /\ agent.blockedMoves <= agent.transitions
      /\ agent.startDistance \in Nat \ {0}
  BY <1>1 DEF AgentRecords, Seen
<1>8. result.transitions > 0 /\ result.blockedMoves <= result.transitions
  BY <1>1, <1>2, <1>5, <1>6, <1>7
<1>9. Collect => Accounts(result)
  <2> SUFFICES ASSUME Collect PROVE Accounts(result)
    OBVIOUS
  <2>1. Earned(after, report.reason)
    BY <1>2
  <2>2. TerminalReward(result.reason) = TerminalReward(report.reason)
    <3>1. CASE done
      BY <1>5, <3>1
    <3>2. CASE ~done
      <4>1. TerminalReward(report.reason) = 0
        BY <3>2 DEF TerminalReward, IsEnvironmentTerminal
      <4>2. TerminalReward("UNSPECIFIED") = 0
        BY DEF TerminalReward
      <4> QED BY <1>5, <3>2, <4>1, <4>2
    <3> QED BY <3>1, <3>2
  <2>3. /\ result.cell = after.cell /\ result.visited = after.visited
        /\ result.startDistance = after.startDistance
        /\ result.stays = after.stays
    BY <1>5 DEF StaysInPlace
  <2>4. Fresh(result) = Fresh(after) /\ Paid(result) = Paid(after)
    BY <2>3 DEF Fresh, Paid
  <2> QED BY <1>5, <2>1, <2>2, <2>3, <2>4 DEF Accounts, Earned
<1>10. /\ Chained(result.segment) /\ Len(result.segment) <= TMax
       /\ ~result.open => result.segment = <<>>
       /\ Collect => result.segment # <<>>
       /\ result.segment # <<>> =>
            /\ result.segment[Len(result.segment)].next = next
            /\ f = result.segment[Len(result.segment)].step + 1
  BY <1>2, <1>5, <1>6
<1> QED
  BY <1>1, <1>5, <1>6, <1>7, <1>8, <1>9, <1>10 DEF Reported, result

\* Any report of a frame that the checks let through.
LEMMA ReportIsReported ==
  ASSUME NEW a \in Agents, NEW report \in Reports, NEW f \in Nat,
         AgentInv(agents[a]), ~agents[a].done,
         Decodes(agents[a], report, f),
         Finishes(Applied(agents[a], report, f))
  PROVE  Reported(Finished(a, report, f), report, f)
<1>1. agents[a].observed \in Int
  BY DEF AgentInv, AgentRecords
<1>2. CASE agents[a].observed < 0
  <2>1. f = 0
    BY <1>1, <1>2 DEF Decodes, Applies
  <2> QED BY <1>2, <2>1, FirstReport
<1>3. CASE agents[a].observed >= 0
  <2>1. Collect => RewardIsDefined(Applied(agents[a], report, f))
    <3>1. Follows(agents[a], report, f, Applied(agents[a], report, f))
      BY <1>3, LaterFacts
    <3>2. Applied(agents[a], report, f).pending
      BY <3>1 DEF Follows, SameBut
    <3> QED BY <3>2 DEF Finishes
  <2> QED BY <1>3, <2>1, LaterReport
<1> QED BY <1>1, <1>2, <1>3

\* The rest of a frame: a full or final segment is closed, and an agent that is
\* not done acts from the cell of its report.
Kept(agent, done) == IF Closes(agent, done) THEN Cleared(agent) ELSE agent

LEMMA KeptFacts ==
  ASSUME NEW report \in Reports, NEW f \in Nat, NEW agent,
         Reported(agent, report, f)
  PROVE  LET done == IsEnvironmentTerminal(report.reason)
             kept == Kept(agent, done)
         IN  /\ kept \in AgentRecords /\ kept.observed = f
             /\ kept.cell = agent.cell /\ kept.visited = agent.visited
             /\ kept.startDistance = agent.startDistance
             /\ kept.blockedMoves = agent.blockedMoves
             /\ kept.stays = agent.stays
             /\ kept.done = agent.done /\ kept.reason = agent.reason
             /\ kept.terminalFrame = agent.terminalFrame /\ ~kept.pending
             /\ kept.transitions = agent.transitions
             /\ kept.return = agent.return /\ kept.sums = agent.sums
             /\ kept.bonusTotal = agent.bonusTotal
             /\ Chained(kept.segment) /\ Len(kept.segment) < TMax
             /\ ~kept.open => kept.segment = <<>>
             /\ done => ~kept.open
             /\ kept.segment # <<>> => kept.segment = agent.segment
             /\ kept.open => Collect
<1> DEFINE done == IsEnvironmentTerminal(report.reason)
           kept == Kept(agent, done)
<1>1. /\ agent \in AgentRecords /\ agent.observed = f /\ ~agent.pending
      /\ agent.done = done /\ (agent.done => f > 0)
      /\ (f = 0 => ~agent.open) /\ (f > 0 => agent.open = Collect)
      /\ (f > 0 => (Collect => agent.segment # <<>>))
      /\ ~agent.open => agent.segment = <<>>
      /\ Chained(agent.segment) /\ Len(agent.segment) <= TMax
  BY Zenon DEF Reported
<1>2. agent.segment \in Seq(Transitions) /\ Len(agent.segment) \in Nat
  BY <1>1 DEF AgentRecords
<1>3. agent.open => Collect
  <2>1. f = 0 \/ f > 0
    OBVIOUS
  <2> QED BY <1>1, <2>1, Zenon
<1>4. CASE Closes(agent, done)
  <2> DEFINE after == Cleared(agent)
  <2>1. /\ after \in AgentRecords /\ ~after.open /\ after.segment = <<>>
        /\ after.observed = agent.observed /\ after.cell = agent.cell
        /\ after.visited = agent.visited
        /\ after.startDistance = agent.startDistance
        /\ after.blockedMoves = agent.blockedMoves
        /\ after.stays = agent.stays
        /\ after.done = agent.done /\ after.reason = agent.reason
        /\ after.terminalFrame = agent.terminalFrame
        /\ after.pending = agent.pending
        /\ after.transitions = agent.transitions
        /\ after.return = agent.return /\ after.sums = agent.sums
        /\ after.bonusTotal = agent.bonusTotal
    BY <1>1, ClearedRecord
  <2>2. kept = after
    BY <1>4 DEF Kept
  <2> HIDE DEF after, kept
  <2>3. Chained(after.segment) /\ Len(after.segment) < TMax
    BY <2>1, SegmentConstantsAssumption DEF Chained
  <2> QED BY <1>1, <2>1, <2>2, <2>3 DEF kept
<1>5. CASE ~Closes(agent, done)
  <2>1. kept = agent
    BY <1>5 DEF Kept
  <2>2. Len(agent.segment) < TMax
    <3>1. CASE agent.segment = <<>>
      BY <3>1, SegmentConstantsAssumption
    <3>2. CASE agent.segment # <<>>
      <4>1. Len(agent.segment) # TMax
        BY <1>1, <1>3, <1>5, <3>2 DEF Closes
      <4> QED BY <1>1, <1>2, <4>1, SegmentConstantsAssumption
    <3> QED BY <3>1, <3>2
  <2>3. done => ~agent.open
    BY <1>1, <1>3, <1>5 DEF Closes
  <2> QED BY <1>1, <1>3, <2>1, <2>2, <2>3
<1> QED BY <1>4, <1>5

LEMMA FrameKeepsAgent ==
  ASSUME NEW report \in Reports, NEW f \in Nat, NEW agent,
         Reported(agent, report, f)
  PROVE  LET done == IsEnvironmentTerminal(report.reason)
             kept == Kept(agent, done)
             observation == Observation(report.cell, f, report.blocked)
         IN  /\ done => AgentInv(kept) /\ kept.done
             /\ ~done => AgentInv(Act(kept, observation))
<1> DEFINE done == IsEnvironmentTerminal(report.reason)
           kept == Kept(agent, done)
           observation == Observation(report.cell, f, report.blocked)
           acting == Act(kept, observation)
<1>1. /\ kept \in AgentRecords /\ kept.observed = f
      /\ kept.cell = agent.cell /\ kept.visited = agent.visited
      /\ kept.startDistance = agent.startDistance
      /\ kept.blockedMoves = agent.blockedMoves
      /\ kept.stays = agent.stays
      /\ kept.done = agent.done /\ kept.reason = agent.reason
      /\ kept.terminalFrame = agent.terminalFrame /\ ~kept.pending
      /\ kept.transitions = agent.transitions
      /\ kept.return = agent.return /\ kept.sums = agent.sums
      /\ kept.bonusTotal = agent.bonusTotal
      /\ Chained(kept.segment) /\ Len(kept.segment) < TMax
      /\ ~kept.open => kept.segment = <<>>
      /\ done => ~kept.open
      /\ kept.segment # <<>> => kept.segment = agent.segment
      /\ kept.open => Collect
  BY KeptFacts
<1> HIDE DEF kept
<1>2. /\ IsFiniteSet(agent.visited) /\ agent.cell = report.cell
      /\ agent.cell \in agent.visited /\ agent.startDistance \in Nat \ {0}
      /\ agent.blockedMoves <= agent.transitions
      /\ agent.done = done
      /\ agent.done => /\ f > 0 /\ agent.terminalFrame = f
                       /\ agent.reason = report.reason
      /\ ~agent.done => agent.reason = "UNSPECIFIED"
      /\ f > 0 => agent.transitions > 0
      /\ agent.segment # <<>> =>
           /\ agent.segment[Len(agent.segment)].next = observation
           /\ f = agent.segment[Len(agent.segment)].step + 1
      /\ Collect => Accounts(agent)
  BY DEF Reported
<1>3. report.cell \in Cells /\ observation \in Observations
  BY DEF Reports, Observation, Observations, AnyCell
<1>4. CASE done
  <2>1. Ends(kept)
    BY <1>1, <1>2, <1>4 DEF Ends
  <2>2. Seen(kept)
    BY <1>1, <1>2, <1>3 DEF Seen
  <2>3. Collects(kept)
    BY <1>1 DEF Collects
  <2>4. Collect => Accounts(kept)
    BY <1>1, <1>2 DEF Accounts, Earned, Fresh, Paid
  <2>5. IsFiniteSet(kept.visited) /\ ~(kept.observed < 0)
    BY <1>1, <1>2
  <2>6. kept.done
    BY <1>1, <1>2, <1>4
  <2>7. AgentInv(kept)
    BY <1>1, <2>1, <2>2, <2>3, <2>4, <2>5 DEF AgentInv
  <2> QED BY <1>4, <2>6, <2>7 DEF kept
<1>5. CASE ~done
  <2>1. /\ acting \in AgentRecords
        /\ acting.open = (kept.open \/ Collect)
        /\ acting.segment = kept.segment
        /\ acting.observed = kept.observed /\ acting.cell = kept.cell
        /\ acting.visited = kept.visited
        /\ acting.startDistance = kept.startDistance
        /\ acting.blockedMoves = kept.blockedMoves
        /\ acting.stays = kept.stays
        /\ acting.done = kept.done /\ acting.reason = kept.reason
        /\ acting.pending /\ acting.pendingObservation = observation
        /\ acting.prev = kept.cell
        /\ acting.transitions = kept.transitions
        /\ acting.return = kept.return /\ acting.sums = kept.sums
        /\ acting.bonusTotal = kept.bonusTotal
    BY <1>1, <1>3, ActingRecord
  <2>2. observation.cell = report.cell /\ observation.frame = f
    BY DEF Observation
  <2> HIDE DEF acting, observation
  <2>3. Ends(acting)
    BY <1>1, <1>2, <1>5, <2>1 DEF Ends
  <2>4. acting.open = Collect
    <3>1. Collect \in BOOLEAN
      BY DEF Collect
    <3> QED BY <1>1, <2>1, <3>1
  <2>5. Seen(acting)
    BY <1>1, <1>2, <1>3, <2>1, <2>2, <2>4 DEF Seen
  <2>6. Collects(acting)
    <3>1. Chained(acting.segment) /\ Len(acting.segment) < TMax
      BY <1>1, <2>1
    <3>2. ~acting.open => acting.segment = <<>>
      BY <1>1, <2>1
    <3>3. acting.segment # <<>> =>
            /\ acting.segment[Len(acting.segment)].next = observation
            /\ f = acting.segment[Len(acting.segment)].step + 1
      BY <1>1, <1>2, <2>1
    <3> QED BY <2>1, <2>2, <3>1, <3>2, <3>3 DEF Collects
  <2>7. Collect => Accounts(acting)
    BY <1>1, <1>2, <2>1 DEF Accounts, Earned, Fresh, Paid
  <2>8. IsFiniteSet(acting.visited) /\ ~(acting.observed < 0)
    BY <1>1, <1>2, <2>1
  <2>9. AgentInv(acting)
    BY <2>1, <2>3, <2>5, <2>6, <2>7, <2>8 DEF AgentInv
  <2> QED BY <1>5, <2>9 DEF kept, acting, observation
<1> QED BY <1>4, <1>5

-----------------------------------------------------------------------------
\* The invariant is kept by every command.

LEMMA AgentInvNext ==
  ASSUME NEW a \in Agents, mode' = mode, map' = map, AgentInv(agents'[a])
  PROVE  AgentInv(agents[a])'
BY DEF AgentInv, Seen, Unseen, Ends, Collects, Accounts, Earned, Fresh, Paid,
       Collect

LEMMA ResetNext ==
  ASSUME NEW a \in Agents, agents'[a] = ResetAgent
  PROVE  AgentInv(agents[a])'
<1>1. ResetAgent.observed = -1
  BY DEF ResetAgent
<1>2. /\ ResetAgent \in AgentRecords /\ IsFiniteSet(ResetAgent.visited)
      /\ Unseen(ResetAgent) /\ Ends(ResetAgent) /\ Collects(ResetAgent)
  BY <1>1, ResetIsInv DEF AgentInv
<1> QED BY <1>1, <1>2 DEF AgentInv

LEMMA InitInv ==
  ASSUME Init
  PROVE  IInv
<1>1. \A a \in Agents : AgentInv(agents[a])
  BY ResetIsInv DEF Init
<1> QED BY <1>1, EpisodeConstantsAssumption DEF Init, IInv

LEMMA InitializeTaskInv ==
  ASSUME IInv, InitializeTask
  PROVE  IInv'
<1>1. \A a \in Agents : AgentInv(agents[a])'
  BY ResetNext DEF InitializeTask
<1> QED BY <1>1 DEF InitializeTask, IInv

LEMMA BeginEpisodeInv ==
  ASSUME IInv, BeginEpisode
  PROVE  IInv'
<1>1. \A a \in Agents : AgentInv(agents[a])'
  BY ResetNext DEF BeginEpisode
<1> QED BY <1>1 DEF BeginEpisode, IInv

\* Nothing but the phase, the output and the degradation changes.
LEMMA SameAgentsInv ==
  ASSUME IInv, UNCHANGED <<mode, map, frame, agents>>, output' = {},
         phase' = phase \/ phase' # "TERMINAL"
  PROVE  IInv'
<1>1. \A a \in Agents : AgentInv(agents[a])'
  BY AgentInvNext DEF IInv
<1>2. (phase = "TERMINAL" => Active = {})'
  BY DEF IInv, Active
<1> QED BY <1>1, <1>2 DEF IInv

LEMMA AbortEpisodeInv ==
  ASSUME IInv, AbortEpisode
  PROVE  IInv'
<1>1. ASSUME NEW a \in Agents PROVE AgentInv(agents[a])'
  <2> DEFINE agent == agents[a]
             cleared == Cleared(agent)
             after == [cleared EXCEPT !.pending = FALSE]
  <2>1. agents'[a] = after /\ mode' = mode /\ map' = map
    BY <1>1 DEF AbortEpisode
  <2>2. AgentInv(agent) /\ agent \in AgentRecords
    BY <1>1 DEF IInv, AgentInv
  <2>3. /\ cleared \in AgentRecords
        /\ ~cleared.open /\ cleared.segment = <<>>
        /\ cleared.observed = agent.observed /\ cleared.cell = agent.cell
        /\ cleared.visited = agent.visited
        /\ cleared.startDistance = agent.startDistance
        /\ cleared.blockedMoves = agent.blockedMoves
        /\ cleared.stays = agent.stays
        /\ cleared.done = agent.done /\ cleared.reason = agent.reason
        /\ cleared.terminalFrame = agent.terminalFrame
        /\ cleared.transitions = agent.transitions
        /\ cleared.return = agent.return /\ cleared.sums = agent.sums
        /\ cleared.bonusTotal = agent.bonusTotal
    BY <2>2, ClearedRecord
  <2> HIDE DEF cleared, agent
  <2>4. after \in AgentRecords
    BY <2>3 DEF AgentRecords
  <2>5. /\ ~after.open /\ after.segment = cleared.segment /\ ~after.pending
        /\ after.open = cleared.open
        /\ after.observed = cleared.observed /\ after.cell = cleared.cell
        /\ after.visited = cleared.visited
        /\ after.startDistance = cleared.startDistance
        /\ after.blockedMoves = cleared.blockedMoves
        /\ after.stays = cleared.stays
        /\ after.done = cleared.done /\ after.reason = cleared.reason
        /\ after.terminalFrame = cleared.terminalFrame
        /\ after.transitions = cleared.transitions
        /\ after.return = cleared.return /\ after.sums = cleared.sums
        /\ after.bonusTotal = cleared.bonusTotal
    BY <2>3 DEF AgentRecords
  <2> HIDE DEF after
  <2>6. Collects(after)
    BY <2>3, <2>5, SegmentConstantsAssumption DEF Collects, Chained
  <2>7. Ends(after)
    BY <2>2, <2>3, <2>5 DEF AgentInv, Ends
  <2>8. after.observed < 0 => Unseen(after)
    BY <2>2, <2>3, <2>5 DEF AgentInv, Unseen
  <2>9. after.observed >= 0 => Seen(after)
    BY <2>2, <2>3, <2>5 DEF AgentInv, Seen
  <2>10. Collect /\ after.observed >= 0 => Accounts(after)
    BY <2>2, <2>3, <2>5 DEF AgentInv, Accounts, Earned, Fresh, Paid
  <2>11. IsFiniteSet(after.visited)
    BY <2>2, <2>3, <2>5 DEF AgentInv
  <2>12. AgentInv(after)
    BY <2>4, <2>6, <2>7, <2>8, <2>9, <2>10, <2>11 DEF AgentInv
  <2> QED BY <1>1, <2>1, <2>12, AgentInvNext
<1>2. ASSUME NEW closing \in output'
      PROVE  Chained(closing.segment) /\ Len(closing.segment) <= TMax
  <2>1. PICK a \in Agents : closing.segment = agents[a].segment
    BY <1>2 DEF AbortEpisode, Closing
  <2>2. agents[a].segment \in Seq(Transitions) /\ Collects(agents[a])
    BY DEF IInv, AgentInv, AgentRecords
  <2> QED BY <2>1, <2>2, SegmentConstantsAssumption DEF Collects
<1>3. /\ mode' = mode /\ frame' = frame /\ phase' = "ABORTED"
      /\ DOMAIN agents' = Agents
  BY DEF AbortEpisode
<1> QED BY <1>1, <1>2, <1>3 DEF IInv

LEMMA UpdateInv ==
  ASSUME IInv, Update
  PROVE  IInv'
<1> DEFINE f == frame + 1
<1>1. PICK reports \in AcceptedReports(f) :
        LET Done(a) == IsEnvironmentTerminal(reports[a].reason)
            finished == [a \in Active |-> Finished(a, reports[a], f)]
            closing == {a \in Active : Closes(finished[a], Done(a))}
            kept == [a \in Active |-> IF a \in closing
                                      THEN Cleared(finished[a])
                                      ELSE finished[a]]
            acting == {a \in Active : ~Done(a)}
        IN  /\ \A a \in Active : Finishes(Applied(agents[a], reports[a], f))
            /\ agents' = [a \in Agents |->
                 IF a \in acting
                 THEN Act(kept[a],
                          Observation(reports[a].cell, f, reports[a].blocked))
                 ELSE IF a \in Active THEN kept[a] ELSE agents[a]]
            /\ phase' = IF acting = {} THEN "TERMINAL" ELSE "RUNNING"
            /\ output' = {Closing(a, finished[a],
                                  Bootstrap(finished[a], Done(a))) :
                            a \in closing}
  BY DEF Update
<1> DEFINE Done(a) == IsEnvironmentTerminal(reports[a].reason)
           finished(a) == Finished(a, reports[a], f)
           observation(a) == Observation(reports[a].cell, f, reports[a].blocked)
<1>2. f \in Nat
  BY DEF IInv
<1>3. ASSUME NEW a \in Active
      PROVE  /\ a \in Agents /\ reports[a] \in Reports
             /\ Reported(finished(a), reports[a], f)
  <2>1. a \in Agents /\ ~agents[a].done
    BY DEF Active
  <2>2. reports[a] \in Reports /\ Decodes(agents[a], reports[a], f)
    BY <1>1 DEF AcceptedReports
  <2>3. Finishes(Applied(agents[a], reports[a], f)) /\ AgentInv(agents[a])
    BY <1>1, <2>1 DEF IInv
  <2> QED BY <1>2, <2>1, <2>2, <2>3, ReportIsReported
<1>4. ASSUME NEW a \in Active
      PROVE  agents'[a] = IF Done(a) THEN Kept(finished(a), Done(a))
                          ELSE Act(Kept(finished(a), Done(a)), observation(a))
  BY <1>1, <1>4 DEF Kept, Active
<1>5. ASSUME NEW a \in Active
      PROVE  AgentInv(agents'[a]) /\ (Done(a) => agents'[a].done)
  <2>1. /\ Done(a) => /\ AgentInv(Kept(finished(a), Done(a)))
                      /\ Kept(finished(a), Done(a)).done
        /\ ~Done(a) =>
             AgentInv(Act(Kept(finished(a), Done(a)), observation(a)))
    BY <1>2, <1>3, FrameKeepsAgent
  <2> QED BY <1>4, <2>1
<1>6. ASSUME NEW a \in Agents \ Active
      PROVE  agents'[a] = agents[a]
  BY <1>1
<1>7. mode' = mode /\ map' = map /\ frame' = f
  BY DEF Update
<1>8. \A a \in Agents : AgentInv(agents[a])'
  <2> SUFFICES ASSUME NEW a \in Agents PROVE AgentInv(agents[a])'
    OBVIOUS
  <2>1. AgentInv(agents'[a])
    BY <1>5, <1>6 DEF IInv
  <2> QED BY <1>7, <2>1, AgentInvNext
<1>9. phase' = "TERMINAL" => \A a \in Agents : agents'[a].done
  <2> SUFFICES ASSUME phase' = "TERMINAL", NEW a \in Agents
               PROVE  agents'[a].done
    OBVIOUS
  <2>1. CASE a \in Active
    <3>1. Done(a)
      BY <1>1, <2>1
    <3> QED BY <1>5, <2>1, <3>1
  <2>2. CASE a \notin Active
    <3>1. agents[a].done
      BY <2>2 DEF Active
    <3> QED BY <1>6, <2>2, <3>1
  <2> QED BY <2>1, <2>2
<1>10. ASSUME NEW closing \in output'
       PROVE  Chained(closing.segment) /\ Len(closing.segment) <= TMax
  <2>1. PICK a \in Active :
          closing = Closing(a, finished(a), Bootstrap(finished(a), Done(a)))
    BY <1>1, <1>10
  <2>2. closing.segment = finished(a).segment
    BY <2>1 DEF Closing
  <2> QED BY <1>3, <2>2 DEF Reported
<1>11. DOMAIN agents' = Agents
  BY <1>1
<1> QED
  BY <1>2, <1>7, <1>8, <1>9, <1>10, <1>11 DEF IInv, Active

LEMMA NextInv ==
  ASSUME IInv, [Next]_vars
  PROVE  IInv'
<1>1. CASE InitializeTask
  BY <1>1, InitializeTaskInv
<1>2. CASE BeginEpisode
  BY <1>2, BeginEpisodeInv
<1>3. CASE Update
  BY <1>3, UpdateInv
<1>4. CASE UpdateDegrades
  BY <1>4, SameAgentsInv DEF UpdateDegrades
<1>5. CASE EndEpisode
  BY <1>5, SameAgentsInv DEF EndEpisode
<1>6. CASE AbortEpisode
  BY <1>6, AbortEpisodeInv
<1>7. CASE CloseSession
  BY <1>7, SameAgentsInv DEF CloseSession
<1>8. CASE UNCHANGED vars
  <2>1. \A a \in Agents : AgentInv(agents[a])'
    BY <1>8, AgentInvNext DEF IInv, vars
  <2> QED BY <1>8, <2>1 DEF IInv, vars, Active
<1> QED
  BY <1>1, <1>2, <1>3, <1>4, <1>5, <1>6, <1>7, <1>8 DEF Next

-----------------------------------------------------------------------------
\* The account and the segment of every agent are as IInv says after any
\* sequence of commands and reports (DecodeFrame, PrepareFrame, PrepareAbort,
\* ResetEpisodeState).
THEOREM EpisodeInvariant == Spec => []IInv
<1>1. Init => IInv
  BY InitInv
<1>2. IInv /\ [Next]_vars => IInv'
  BY NextInv
<1> QED BY <1>1, <1>2, PTL DEF Spec

\* The return of an agent is what its path earns, on any map and whatever cells
\* the client reports (Calculate, FinalizePendingTransition).
THEOREM RewardIsAccountedHolds == Spec => []RewardIsAccounted
<1>1. IInv => RewardIsAccounted
  <2> SUFFICES ASSUME IInv, NEW a \in Agents, Collect,
                      agents[a].transitions > 0
               PROVE  /\ agents[a].return = Total(agents[a].sums)
                      /\ agents[a].sums.progress = kProgressBudget
                           * (agents[a].startDistance
                                - map.distance[agents[a].cell])
                      /\ agents[a].sums.firstVisit = kFirstVisitBudget
                           * (IF Cardinality(agents[a].visited) - 1
                                   < agents[a].startDistance
                              THEN Cardinality(agents[a].visited) - 1
                              ELSE agents[a].startDistance)
                      /\ agents[a].sums.wasted = kWastedActionPenalty
                           * agents[a].startDistance * agents[a].stays
                      /\ agents[a].sums.terminal = agents[a].startDistance
                           * TerminalReward(agents[a].reason)
    BY DEF RewardIsAccounted, TerminalReward
  <2>1. AgentInv(agents[a]) /\ agents[a].observed \in Int
    BY DEF IInv, AgentInv, AgentRecords
  <2>2. agents[a].observed >= 0
    BY <2>1 DEF AgentInv, Unseen
  <2>3. Earned(agents[a], agents[a].reason)
    BY <2>1, <2>2 DEF AgentInv, Accounts
  <2> QED BY <2>3 DEF Earned, Fresh, Paid
<1> QED BY <1>1, EpisodeInvariant, PTL

\* An episode that ends at its time limit has a negative return, on any map, for
\* any horizon and however the agent moved: what the static_assert of reward.cpp
\* claims of the budgets (Calculate).
THEOREM FailureIsNegativeHolds == Spec => []FailureIsNegative
<1>1. IInv => FailureIsNegative
  <2> SUFFICES ASSUME IInv, NEW a \in Agents, Collect,
                      agents[a].reason = "TIME_LIMIT"
               PROVE  agents[a].return < 0
    BY DEF FailureIsNegative
  <2> DEFINE agent == agents[a]
             distance == agent.startDistance
  <2>1. AgentInv(agent) /\ agent \in AgentRecords
    BY DEF IInv, AgentInv
  <2>2. agent.observed >= 0
    BY <2>1 DEF AgentInv, Ends
  <2>3. distance \in Nat \ {0}
    BY <2>1, <2>2 DEF AgentInv, Seen
  <2>4. Earned(agent, "TIME_LIMIT")
    BY <2>1, <2>2 DEF AgentInv, Accounts
  <2>5. agent.sums.terminal = kTimeoutPenalty * distance
    BY <2>3, <2>4 DEF Earned, TerminalReward, kTimeoutPenalty
  <2>6. /\ map.distance[agent.cell] \in Nat
        /\ agent.sums.progress =
             kProgressBudget * (distance - map.distance[agent.cell])
    BY <2>4 DEF Earned
  <2>7. agent.sums.firstVisit <= kFirstVisitBudget * distance
    <3>1. Cardinality(agent.visited) \in Nat
      BY <2>1, FS_CardinalityType DEF AgentInv
    <3>2. Paid(agent) \in Int /\ Paid(agent) <= distance
      BY <2>3, <3>1 DEF Paid, Fresh
    <3>3. agent.sums.firstVisit = kFirstVisitBudget * Paid(agent)
      BY <2>4 DEF Earned
    <3> QED BY <2>3, <3>2, <3>3 DEF kFirstVisitBudget
  <2>8. agent.sums.wasted <= 0 /\ agent.return = Total(agent.sums)
    <3>1. agent.stays \in Nat
      BY <2>1 DEF AgentRecords
    <3>2. kWastedActionPenalty * distance * agent.stays <= 0
      BY <2>3, <3>1, WastedAdds
    <3> QED BY <2>4, <3>2 DEF Earned
  <2>9. /\ agent.sums.firstVisit \in Int /\ agent.sums.wasted \in Int
    BY <2>1 DEF AgentRecords, Rewards
  <2> QED
    BY <2>3, <2>5, <2>6, <2>7, <2>8, <2>9
       DEF Total, kTimeoutPenalty, kProgressBudget, kFirstVisitBudget
<1> QED BY <1>1, EpisodeInvariant, PTL

\* Every agent of a finished episode passes the checks of its outcome.
EndIsAccepted ==
  phase = "TERMINAL" => \A a \in Agents : OutcomeIsValid(agents[a])

LEMMA IInvEnds ==
  ASSUME IInv
  PROVE  EndIsAccepted
<1> SUFFICES ASSUME phase = "TERMINAL", NEW a \in Agents
             PROVE  OutcomeIsValid(agents[a])
  BY DEF EndIsAccepted
<1> DEFINE agent == agents[a]
<1>1. AgentInv(agent) /\ agent.done
  BY DEF IInv, Active
<1>2. /\ ~agent.pending /\ ~agent.open /\ agent.observed >= 0
      /\ IsEnvironmentTerminal(agent.reason) /\ agent.terminalFrame >= 0
      /\ agent.transitions > 0
  BY <1>1 DEF AgentInv, Ends
<1>3. agent.segment = <<>>
  BY <1>1, <1>2 DEF AgentInv, Collects
<1>4. agent.visited # {} /\ agent.blockedMoves <= agent.transitions
  BY <1>1, <1>2 DEF AgentInv, Seen
<1>5. Collect => agent.return = Total(agent.sums)
  BY <1>1, <1>2 DEF AgentInv, Accounts, Earned
<1> QED BY <1>2, <1>3, <1>4, <1>5 DEF OutcomeIsValid

\* EndEpisode never refuses or fails an episode whose agents are all done: no
\* action is pending, every segment has been closed, and the return is the sum
\* of its components (PrepareOutcome).
THEOREM EndIsAcceptedHolds == Spec => []EndIsAccepted
<1>1. IInv => EndIsAccepted
  BY IInvEnds
<1> QED BY <1>1, EpisodeInvariant, PTL

\* A report that is let through continues the segment of its agent.
ChainIsKept ==
  \A a \in Active : \A r \in Reports :
    LET seen == Applied(agents[a], r, frame + 1)
        finished == Finished(a, r, frame + 1)
    IN  Decodes(agents[a], r, frame + 1) /\ Collect /\ agents[a].pending =>
          /\ Continues(seen)
          /\ RewardIsDefined(seen) =>
               Chained(finished.segment) /\ Len(finished.segment) <= TMax

\* Whatever the client reports, a transition always continues the open segment
\* and the segment is closed in time: only a cell without a distance, or a
\* sample larger than an envelope, can degrade the service
\* (BuildRawRolloutTransition, ProjectProcessedSegment).
THEOREM ChainIsKeptHolds == Spec => []ChainIsKept
<1>1. IInv => ChainIsKept
  <2> SUFFICES ASSUME IInv, NEW a \in Active, NEW r \in Reports,
                      Decodes(agents[a], r, frame + 1), Collect,
                      agents[a].pending
               PROVE  /\ Continues(Applied(agents[a], r, frame + 1))
                      /\ RewardIsDefined(Applied(agents[a], r, frame + 1)) =>
                           LET finished == Finished(a, r, frame + 1)
                           IN  /\ Chained(finished.segment)
                               /\ Len(finished.segment) <= TMax
    BY DEF ChainIsKept
  <2> DEFINE f == frame + 1
             agent == agents[a]
             seen == Applied(agent, r, f)
  <2>1. f \in Nat /\ a \in Agents /\ AgentInv(agent) /\ ~agent.done
    BY DEF IInv, Active
  <2>2. agent.observed \in Int
    BY <2>1 DEF AgentInv, AgentRecords
  <2>3. agent.observed >= 0
    BY <2>1, <2>2 DEF AgentInv, Unseen
  <2>4. Follows(agent, r, f, seen)
    BY <2>1, <2>3, LaterFacts
  <2> HIDE DEF seen
  <2>5. Continues(seen)
    BY <2>4 DEF Follows, SameBut, Continues, Seen, Collects
  <2>6. ASSUME RewardIsDefined(seen)
        PROVE  Reported(Finished(a, r, f), r, f)
    BY <2>1, <2>3, <2>6, LaterReport DEF seen
  <2> QED BY <2>5, <2>6 DEF Reported, seen
<1> QED BY <1>1, EpisodeInvariant, PTL

\* The segments the last command has closed can be turned into samples.
ClosedSegmentsFit ==
  \A closing \in output :
    Chained(closing.segment) /\ Len(closing.segment) <= TMax

\* A closed segment is a chain of at most tmax transitions, whether it was full,
\* its agent was done or the episode was aborted (PrepareFrame, PrepareAbort).
THEOREM ClosedSegmentsFitHolds == Spec => []ClosedSegmentsFit
<1>1. IInv => ClosedSegmentsFit
  BY DEF IInv, ClosedSegmentsFit
<1> QED BY <1>1, EpisodeInvariant, PTL

-----------------------------------------------------------------------------
\* The map of a session.

\* A map that ValidateMazeMapDescriptor has let through.
IsValidMap(m) ==
  /\ m.start \in Cells \ m.blocked /\ m.goal \in Cells \ m.blocked
  /\ IsGeodesic(m.blocked, m.goal, m.distance)
  /\ m.distance[m.start] > 0

MapInv == phase \in {"READY", "RUNNING", "TERMINAL", "ABORTED"} => IsValidMap(map)

LEMMA ValidatedIsValid ==
  ASSUME NEW descriptor \in Maps, ValidateMazeMapDescriptor(descriptor)
  PROVE  IsValidMap(ValidatedMap(descriptor))
<1> DEFINE m == ValidatedMap(descriptor)
<1>1. /\ m.blocked = descriptor.blocked /\ m.goal = descriptor.goal
      /\ m.start = descriptor.start
      /\ m.distance = GeodesicDistance(descriptor.blocked, descriptor.goal)
  BY DEF ValidatedMap
<1>2. m.start \in Cells \ m.blocked /\ m.goal \in Cells \ m.blocked
  BY <1>1 DEF ValidateMazeMapDescriptor, IsWalkable
<1>3. m.distance[m.start] > 0
  BY DEF ValidateMazeMapDescriptor, ShortestActionSteps
<1> HIDE DEF m
<1>4. IsGeodesic(m.blocked, m.goal, m.distance)
  BY <1>1, <1>2, SearchIsGeodesic
<1>5. IsValidMap(m) BY <1>2, <1>3, <1>4 DEF IsValidMap
<1> QED BY <1>5 DEF m

\* A session plays on a map that has been validated, with its geodesic distances,
\* from InitTask until it is closed.
THEOREM MapInvariant == Spec => []MapInv
<1>1. Init => MapInv BY DEF Init, MapInv
<1>2. MapInv /\ [Next]_vars => MapInv'
  <2> SUFFICES ASSUME MapInv, [Next]_vars PROVE MapInv' OBVIOUS
  <2>1. CASE InitializeTask
    <3>1. PICK descriptor \in Maps : /\ ValidateMazeMapDescriptor(descriptor)
                                     /\ map' = ValidatedMap(descriptor)
      BY <2>1 DEF InitializeTask
    <3>2. IsValidMap(map') BY <3>1, ValidatedIsValid
    <3>3. IsValidMap(map)' BY <3>2 DEF IsValidMap
    <3> QED BY <3>3 DEF MapInv
  <2>2. ASSUME map' = map,
               phase' \in {"READY", "RUNNING", "TERMINAL", "ABORTED"} =>
                 phase \in {"READY", "RUNNING", "TERMINAL", "ABORTED"}
        PROVE  MapInv'
    BY <2>2 DEF MapInv, IsValidMap
  <2>3. CASE BeginEpisode BY <2>2, <2>3 DEF BeginEpisode
  <2>4. CASE Update BY <2>2, <2>4 DEF Update
  <2>5. CASE UpdateDegrades BY <2>2, <2>5 DEF UpdateDegrades
  <2>6. CASE EndEpisode BY <2>2, <2>6 DEF EndEpisode
  <2>7. CASE AbortEpisode BY <2>2, <2>7 DEF AbortEpisode
  <2>8. CASE CloseSession BY <2>2, <2>8 DEF CloseSession
  <2>9. CASE UNCHANGED vars BY <2>2, <2>9 DEF vars
  <2> QED
    BY <2>1, <2>3, <2>4, <2>5, <2>6, <2>7, <2>8, <2>9 DEF Next
<1> QED BY <1>1, <1>2, PTL DEF Spec

\* The environment's rule and the server's are the same.
LEMMA MovedEnters ==
  ASSUME NEW c \in Cells \ map.blocked, NEW d \in Directions
  PROVE  /\ Moved(c, d) = IF Enters(map.blocked, c, d) THEN Neighbour(c, d) ELSE c
         /\ Neighbour(c, d) # c
<1> DEFINE to == Neighbour(c, d)
           x == kDirections[d][1]
           y == kDirections[d][2]
           free == Cells \ map.blocked
<1>1. x \in Int /\ y \in Int /\ (x # 0 \/ y # 0)
  <2>1. x \in Int /\ y \in Int BY OppositeTurns
  <2>2. x # 0 \/ y # 0
    <3>1. d \in {1, 2, 3, 4, 5, 6, 7, 8} BY DEF Directions
    <3> QED BY <3>1 DEF kDirections
  <2> QED BY <2>1, <2>2
<1>2. c = <<c[1], c[2]>> /\ c[1] \in Int /\ c[2] \in Int BY DEF Cells
<1>3. to = <<c[1] + x, c[2] + y>> BY DEF Neighbour
<1> HIDE DEF x, y
<1>4. to[1] = c[1] + x /\ to[2] = c[2] + y /\ to = <<to[1], to[2]>> BY <1>3
<1> HIDE DEF to
<1>5. to # c BY <1>1, <1>2, <1>4
<1>6. Enters(map.blocked, c, d) <=>
        /\ to \in free
        /\ x # 0 /\ y # 0 => <<to[1], c[2]>> \in free /\ <<c[1], to[2]>> \in free
  BY DEF Enters, IsWalkable, to, x, y
<1>7. {c[1], to[1]} \X {c[2], to[2]} \subseteq free <=>
        /\ <<c[1], c[2]>> \in free /\ <<to[1], to[2]>> \in free
        /\ <<to[1], c[2]>> \in free /\ <<c[1], to[2]>> \in free
  <2> HIDE DEF free
  <2> QED OBVIOUS
<1>8. x = 0 => <<to[1], c[2]>> = c /\ <<c[1], to[2]>> = to BY <1>2, <1>4
<1>9. y = 0 => <<to[1], c[2]>> = to /\ <<c[1], to[2]>> = c BY <1>2, <1>4
<1>10. Enters(map.blocked, c, d) <=> {c[1], to[1]} \X {c[2], to[2]} \subseteq free
  <2> HIDE DEF free
  <2>1. c \in free BY DEF free
  <2> QED BY <1>2, <1>4, <1>6, <1>7, <1>8, <1>9, <2>1
<1>11. d # 0 BY DEF Directions
<1>12. Moved(c, d) = IF Enters(map.blocked, c, d) THEN to ELSE c
  BY <1>10, <1>11 DEF Moved, to
<1> QED BY <1>5, <1>12 DEF to

\* The facts of the map are exact on every grid and for every map a session may
\* be given: the distance of a cell is one more than that of the best cell a move
\* leads to, -1 where no moves lead to the goal, and a ray is as long as the walk
\* (ValidateMazeMapDescriptor, MazeObservation::Build).
THEOREM MapFactsExactHolds == Spec => []MapFactsExact
<1>1. MapInv => MapFactsExact
  <2> SUFFICES ASSUME MapInv, phase = "READY", NEW c \in Cells \ map.blocked
               PROVE  LET onward == {map.distance[Moved(c, d)] : d \in Directions}
                                      \cap Nat
                      IN  /\ map.distance[c] = 0 <=> c = map.goal
                          /\ c # map.goal =>
                               IF onward = {} THEN map.distance[c] = -1
                               ELSE /\ map.distance[c] - 1 \in onward
                                    /\ \A distance \in onward :
                                         map.distance[c] - 1 <= distance
                          /\ \A d \in Directions :
                               LET further == 1 + Ray(map.blocked, Moved(c, d), d)
                               IN  Ray(map.blocked, c, d) =
                                     IF Moved(c, d) = c THEN 0
                                     ELSE IF further < RayMaxRange THEN further
                                     ELSE RayMaxRange
    BY DEF MapFactsExact
  <2> DEFINE onward == {map.distance[Moved(c, d)] : d \in Directions} \cap Nat
  <2>1. IsGeodesic(map.blocked, map.goal, map.distance)
    BY DEF MapInv, IsValidMap
  <2>2. map.distance[c] \in Nat \cup {-1} BY <2>1 DEF IsGeodesic
  <2>3. ASSUME NEW d \in Directions
        PROVE  \/ Moved(c, d) = c
               \/ /\ Enters(map.blocked, c, d) /\ Moved(c, d) = Neighbour(c, d)
                  /\ map.distance[Moved(c, d)] \in Nat \cup {-1}
                  /\ map.distance[c] >= 0 <=> map.distance[Moved(c, d)] >= 0
                  /\ map.distance[c] <= map.distance[Moved(c, d)] + 1
    <3>1. CASE Enters(map.blocked, c, d)
      <4>1. Moved(c, d) = Neighbour(c, d) BY <3>1, MovedEnters
      <4>2. Moved(c, d) \in Cells BY <3>1, <4>1, NeighbourIsCell
      <4> QED BY <3>1, <4>1, <4>2, <2>1 DEF IsGeodesic
    <3>2. CASE ~Enters(map.blocked, c, d) BY <3>2, MovedEnters
    <3> QED BY <3>1, <3>2
  <2>4. ASSUME map.distance[c] >= 0, c # map.goal
        PROVE  \E d \in Directions :
                 /\ map.distance[Moved(c, d)] = map.distance[c] - 1
                 /\ map.distance[Moved(c, d)] \in Nat
    <3>1. PICK d \in Directions :
            /\ Enters(map.blocked, c, d)
            /\ map.distance[Neighbour(c, d)] = map.distance[c] - 1
      BY <2>1, <2>4 DEF IsGeodesic
    <3>2. Moved(c, d) = Neighbour(c, d) /\ Moved(c, d) # c BY <3>1, MovedEnters
    <3>3. map.distance[Moved(c, d)] \in Nat BY <2>3, <2>4, <3>2
    <3> QED BY <3>1, <3>2, <3>3
  <2>5. map.distance[c] = 0 <=> c = map.goal
    <3>1. map.distance[map.goal] = 0 BY <2>1 DEF IsGeodesic
    <3>2. ASSUME map.distance[c] = 0, c # map.goal PROVE FALSE
      BY <2>4, <3>2
    <3> QED BY <3>1, <3>2
  <2>6. ASSUME c # map.goal
        PROVE  IF onward = {} THEN map.distance[c] = -1
               ELSE /\ map.distance[c] - 1 \in onward
                    /\ \A distance \in onward : map.distance[c] - 1 <= distance
    <3>1. CASE map.distance[c] >= 0
      <4>1. map.distance[c] - 1 \in onward BY <2>4, <2>6, <3>1
      <4>2. \A distance \in onward : map.distance[c] - 1 <= distance
        BY <2>2, <2>3
      <4> QED BY <4>1, <4>2
    <3>2. CASE map.distance[c] = -1
      <4>1. \A d \in Directions : map.distance[Moved(c, d)] \notin Nat
        BY <2>3, <3>2
      <4>2. onward = {} BY <4>1
      <4> QED BY <3>2, <4>2
    <3> QED BY <2>2, <3>1, <3>2
  <2>7. ASSUME NEW d \in Directions
        PROVE  LET further == 1 + Ray(map.blocked, Moved(c, d), d)
               IN  Ray(map.blocked, c, d) =
                     IF Moved(c, d) = c THEN 0
                     ELSE IF further < RayMaxRange THEN further ELSE RayMaxRange
    BY MovedEnters, RayIsWalk
  <2> QED BY <2>5, <2>6, <2>7
<1> QED BY <1>1, MapInvariant, PTL

-----------------------------------------------------------------------------
\* An environment that follows the rules.

\* While an episode runs, every agent that is not done has reported the last
\* frame from a walkable cell, below the horizon, and has been told to act.
Acts(agent) ==
  /\ agent.observed = frame
  /\ frame >= 0 => /\ agent.pending /\ frame < MaxSteps
                   /\ agent.cell \in Cells \ map.blocked

RunInv == phase = "RUNNING" => \A a \in Active : Acts(agents[a])

LEMMA UpdateRuns ==
  ASSUME IInv, Update
  PROVE  RunInv'
<1> DEFINE f == frame + 1
<1>1. PICK reports \in AcceptedReports(f) :
        LET Done(a) == IsEnvironmentTerminal(reports[a].reason)
            finished == [a \in Active |-> Finished(a, reports[a], f)]
            closing == {a \in Active : Closes(finished[a], Done(a))}
            kept == [a \in Active |-> IF a \in closing
                                      THEN Cleared(finished[a])
                                      ELSE finished[a]]
            acting == {a \in Active : ~Done(a)}
        IN  /\ \A a \in Active : Finishes(Applied(agents[a], reports[a], f))
            /\ agents' = [a \in Agents |->
                 IF a \in acting
                 THEN Act(kept[a],
                          Observation(reports[a].cell, f, reports[a].blocked))
                 ELSE IF a \in Active THEN kept[a] ELSE agents[a]]
  BY DEF Update
<1> DEFINE Done(a) == IsEnvironmentTerminal(reports[a].reason)
           finished(a) == Finished(a, reports[a], f)
           kept(a) == Kept(finished(a), Done(a))
           observation(a) == Observation(reports[a].cell, f, reports[a].blocked)
<1>2. f \in Nat /\ frame' = f /\ map' = map
  BY DEF IInv, Update
<1> SUFFICES ASSUME NEW a \in Agents, ~agents'[a].done
             PROVE  /\ agents'[a].observed = f /\ agents'[a].pending
                    /\ f < MaxSteps /\ agents'[a].cell \in Cells \ map.blocked
  BY <1>2 DEF RunInv, Acts, Active
<1>3. a \in Active /\ ~agents[a].done
  <2>1. a \notin Active => agents'[a] = agents[a] BY <1>1
  <2> QED BY <2>1 DEF Active
<1>4. /\ reports[a] \in Reports /\ Decodes(agents[a], reports[a], f)
      /\ Finishes(Applied(agents[a], reports[a], f)) /\ AgentInv(agents[a])
  BY <1>1, <1>3 DEF AcceptedReports, IInv
<1>5. Reported(finished(a), reports[a], f)
  BY <1>2, <1>3, <1>4, ReportIsReported
<1>7. agents'[a] = IF Done(a) THEN kept(a) ELSE Act(kept(a), observation(a))
  BY <1>1, <1>3 DEF Kept, Active
<1>8. /\ kept(a) \in AgentRecords /\ kept(a).observed = f
      /\ kept(a).cell = finished(a).cell /\ kept(a).done = finished(a).done
  BY <1>2, <1>4, <1>5, KeptFacts
<1>9. finished(a).done = Done(a) /\ finished(a).cell = reports[a].cell
  BY <1>5 DEF Reported
<1>10. ~Done(a)
  BY <1>7, <1>8, <1>9
<1>11. observation(a) \in Observations
  BY <1>2, <1>4 DEF Reports, Observation, Observations, AnyCell
<1>12. /\ Act(kept(a), observation(a)).observed = kept(a).observed
       /\ Act(kept(a), observation(a)).cell = kept(a).cell
       /\ Act(kept(a), observation(a)).pending
  <2> HIDE DEF kept, observation
  <2> QED BY <1>8, <1>11, ActingRecord
<1>13. f < MaxSteps /\ reports[a].cell \in Cells \ map.blocked
  BY <1>4, <1>10 DEF Decodes, IsWalkable
<1> HIDE DEF kept, finished, observation
<1> QED BY <1>7, <1>8, <1>9, <1>10, <1>12, <1>13

\* The agents of a running episode are in step with its frame (PrepareFrame).
THEOREM RunInvariant == Spec => []RunInv
<1>1. Init => RunInv BY DEF Init, RunInv
<1>2. IInv /\ RunInv /\ [Next]_vars => RunInv'
  <2> SUFFICES ASSUME IInv, RunInv, [Next]_vars PROVE RunInv' OBVIOUS
  <2>1. ASSUME phase' # "RUNNING" PROVE RunInv' BY <2>1 DEF RunInv
  <2>2. CASE InitializeTask
    BY <2>1, <2>2 DEF InitializeTask
  <2>3. CASE BeginEpisode
    <3>1. frame' = -1 /\ agents' = [a \in Agents |-> ResetAgent]
      BY <2>3 DEF BeginEpisode
    <3>2. ResetAgent.observed = -1 BY DEF ResetAgent
    <3> HIDE DEF ResetAgent
    <3> QED BY <3>1, <3>2 DEF RunInv, Acts, Active
  <2>4. CASE Update BY <2>4, UpdateRuns
  <2>5. ASSUME UNCHANGED <<phase, frame, map, agents>> PROVE RunInv'
    BY <2>5 DEF RunInv, Acts, Active
  <2>6. CASE UpdateDegrades BY <2>5, <2>6 DEF UpdateDegrades
  <2>7. CASE EndEpisode BY <2>1, <2>7 DEF EndEpisode
  <2>8. CASE AbortEpisode BY <2>1, <2>8 DEF AbortEpisode
  <2>9. CASE CloseSession BY <2>1, <2>9 DEF CloseSession
  <2>10. CASE UNCHANGED vars BY <2>5, <2>10 DEF vars
  <2> QED
    BY <2>2, <2>3, <2>4, <2>6, <2>7, <2>8, <2>9, <2>10 DEF Next
<1> QED BY <1>1, <1>2, EpisodeInvariant, PTL DEF Spec

\* A lawful move stays on walkable cells, and where the goal can be reached.
LEMMA MovedStays ==
  ASSUME IsValidMap(map), NEW c \in Cells \ map.blocked, NEW action \in 0 .. 8
  PROVE  /\ Moved(c, action) \in Cells \ map.blocked
         /\ map.distance[c] \in Nat => map.distance[Moved(c, action)] \in Nat
<1>1. CASE action = 0
  BY <1>1 DEF Moved
<1>2. CASE action # 0
  <2>1. action \in Directions BY <1>2 DEF Directions
  <2>2. CASE Enters(map.blocked, c, action)
    <3> DEFINE to == Neighbour(c, action)
    <3>1. Moved(c, action) = to BY <2>1, <2>2, MovedEnters
    <3>2. to \in Cells \ map.blocked BY <2>2, NeighbourIsCell
    <3> HIDE DEF to
    <3>3. map.distance[to] \in Int
      BY <3>2 DEF IsValidMap, IsGeodesic
    <3>4. map.distance[c] >= 0 <=> map.distance[to] >= 0
      BY <2>1, <2>2 DEF IsValidMap, IsGeodesic, to
    <3> QED BY <3>1, <3>2, <3>3, <3>4
  <2>3. CASE ~Enters(map.blocked, c, action)
    BY <2>1, <2>3, MovedEnters
  <2> QED BY <2>2, <2>3
<1> QED BY <1>1, <1>2

\* Where one sample fits into an envelope, every segment can be divided.
LEMMA AllDivisible ==
  ASSUME EnvelopeMaxBytes >= 3, NEW processed
  PROVE  Divisible(processed)
<1> SUFFICES ASSUME NEW sample PROVE Fits(<<sample>>)
  BY DEF Divisible
<1>1. Len(<<sample>>) = 1 OBVIOUS
<1>2. Bytes(<<sample>>) \in 2 .. 3 BY BytesOfOne, SampleBytesType
<1> QED BY <1>1, <1>2, SegmentConstantsAssumption DEF Fits

\* The first report of an agent, at the start.
LEMMA LawfulFirst ==
  ASSUME IInv, MapInv, RunInv, phase = "RUNNING", frame = -1,
         NEW a \in Active, NEW r \in LawfulReports(agents[a], frame + 1)
  PROVE  /\ r \in Reports /\ Decodes(agents[a], r, 0)
         /\ Finishes(Applied(agents[a], r, 0))
<1> DEFINE agent == agents[a]
<1>1. r = [cell |-> map.start, reason |-> "ACTIVE", blocked |-> FALSE]
  BY DEF LawfulReports
<1>2. r.cell = map.start /\ r.reason = "ACTIVE" /\ r.blocked = FALSE BY <1>1
<1>3. /\ map.start \in Cells \ map.blocked /\ map.distance[map.start] > 0
      /\ map.distance[map.start] \in Int
  BY DEF MapInv, IsValidMap, IsGeodesic
<1>4. r \in Reports BY <1>1, <1>3 DEF Reports, Reasons
<1>5. agent.observed = -1 /\ AgentInv(agent) /\ agent \in AgentRecords
  BY DEF RunInv, Acts, IInv, Active, AgentInv
<1>6. ~agent.pending BY <1>5 DEF AgentInv, Unseen
<1>7. Decodes(agent, r, 0)
  BY <1>2, <1>3, <1>5, EpisodeConstantsAssumption
     DEF Decodes, IsWalkable, IsEnvironmentTerminal, Applies, Reachable
<1>8. SameBut(agent, Applied(agent, r, 0))
  BY <1>2, <1>3, <1>4, <1>5, AppliedFirst DEF Reachable
<1>9. Finishes(Applied(agent, r, 0))
  BY <1>6, <1>8 DEF Finishes, SameBut
<1> QED BY <1>4, <1>7, <1>9

\* A later report, of a lawful move.
LEMMA LawfulLater ==
  ASSUME IInv, MapInv, RunInv, phase = "RUNNING", frame >= 0,
         NEW a \in Active, NEW r \in LawfulReports(agents[a], frame + 1)
  PROVE  /\ r \in Reports /\ Decodes(agents[a], r, frame + 1)
         /\ Finishes(Applied(agents[a], r, frame + 1))
<1> DEFINE agent == agents[a]
           f == frame + 1
           seen == Applied(agent, r, f)
<1>1. frame \in Nat /\ f \in Nat /\ f > 0 BY DEF IInv
<1>2. PICK action \in 0 .. 8 :
        r = LET cell == Moved(agent.cell, action)
            IN  [cell |-> cell,
                 reason |-> IF cell = map.goal THEN "GOAL_REACHED"
                            ELSE IF f = MaxSteps THEN "TIME_LIMIT" ELSE "ACTIVE",
                 blocked |-> action # 0 /\ cell = agent.cell]
  BY <1>1 DEF LawfulReports
<1>3. /\ agent.observed = frame /\ agent.pending /\ frame < MaxSteps
      /\ agent.cell \in Cells \ map.blocked
      /\ AgentInv(agent) /\ ~agent.done /\ a \in Agents
  BY DEF RunInv, Acts, IInv, Active
<1>4. /\ r.cell = Moved(agent.cell, action)
      /\ r.reason \in Reasons /\ r.blocked \in BOOLEAN
      /\ r.reason = "ACTIVE" => f # MaxSteps
      /\ r.reason = "TIME_LIMIT" => f = MaxSteps
  BY <1>2 DEF Reasons
<1>5. IsValidMap(map) BY DEF MapInv
<1>6. /\ r.cell \in Cells \ map.blocked
      /\ map.distance[agent.cell] \in Nat => map.distance[r.cell] \in Nat
  BY <1>3, <1>4, <1>5, MovedStays
<1>7. r \in Reports
  BY <1>2, <1>4, <1>6 DEF Reports
<1>8. Decodes(agent, r, f)
  <2>1. ~IsEnvironmentTerminal(r.reason) => r.reason = "ACTIVE"
    BY <1>4 DEF IsEnvironmentTerminal, Reasons
  <2>2. Applies(agent, r, f) BY <1>1, <1>3 DEF Applies
  <2> QED
    BY <1>1, <1>3, <1>4, <1>6, <2>1, <2>2, EpisodeConstantsAssumption
       DEF Decodes, IsWalkable
<1>9. Follows(agent, r, f, seen)
  BY <1>1, <1>3, <1>7, <1>8, LaterFacts
<1> HIDE DEF seen
<1>10. ASSUME Collect PROVE RewardIsDefined(seen)
  <2>1. Seen(agent) /\ map.distance[agent.cell] \in Nat
    BY <1>1, <1>3, <1>10 DEF AgentInv, Accounts, Earned
  <2>2. /\ seen.prev = agent.cell /\ seen.cell = r.cell
        /\ seen.startDistance \in Nat \ {0}
    BY <1>3, <1>9, <2>1 DEF Follows, SameBut, Seen
  <2>3. agent.cell # Nowhere BY <1>3 DEF Cells, Nowhere
  <2>4. ShortestActionSteps(map) > 0 BY <1>5 DEF ShortestActionSteps, IsValidMap
  <2> QED
    BY <1>3, <1>6, <2>1, <2>2, <2>3, <2>4 DEF RewardIsDefined, Reachable
<1>11. Collect => Continues(seen)
  BY <1>3, <1>9 DEF Follows, SameBut, Continues, Seen, Collects
<1>12. Finishes(seen) BY <1>10, <1>11 DEF Finishes
<1> QED BY <1>7, <1>8, <1>12 DEF seen

\* The server never refuses an environment that follows the rules, whatever the
\* map, the horizon and the moves, if only one sample fits into an envelope
\* (DecodeFrame, Calculate, BuildRawRolloutTransition, ProjectProcessedSegment,
\* PrepareOutcome).
THEOREM LawfulIsAcceptedHolds ==
  ASSUME EnvelopeMaxBytes >= 3
  PROVE  Spec => []LawfulIsAccepted
<1>1. IInv /\ MapInv /\ RunInv => LawfulIsAccepted
  <2> SUFFICES ASSUME IInv, MapInv, RunInv PROVE LawfulIsAccepted OBVIOUS
  <2>1. ASSUME phase = "RUNNING", NEW a \in Active,
               NEW r \in LawfulReports(agents[a], frame + 1)
        PROVE  LET finished == Finished(a, r, frame + 1)
                   done == IsEnvironmentTerminal(r.reason)
               IN  /\ Decodes(agents[a], r, frame + 1)
                   /\ Finishes(Applied(agents[a], r, frame + 1))
                   /\ Closes(finished, done) =>
                        Closable(finished, Bootstrap(finished, done))
    <3>1. frame + 1 \in Nat /\ a \in Agents /\ AgentInv(agents[a])
      BY DEF IInv, Active
    <3>2. /\ r \in Reports /\ Decodes(agents[a], r, frame + 1)
          /\ Finishes(Applied(agents[a], r, frame + 1))
      <4>1. CASE frame = -1
        <5>1. frame + 1 = 0 BY <4>1
        <5> QED BY <2>1, <4>1, <5>1, LawfulFirst
      <4>2. CASE frame >= 0 BY <2>1, <4>2, LawfulLater
      <4> QED BY <4>1, <4>2 DEF IInv
    <3>3. Reported(Finished(a, r, frame + 1), r, frame + 1)
      BY <2>1, <3>1, <3>2, ReportIsReported DEF Active
    <3>4. Chained(Finished(a, r, frame + 1).segment)
      BY <3>3 DEF Reported
    <3> QED BY <3>2, <3>4, AllDivisible DEF Closable
  <2>2. phase = "TERMINAL" => \A a \in Agents : OutcomeIsValid(agents[a])
    BY IInvEnds DEF EndIsAccepted
  <2> QED BY <2>1, <2>2 DEF LawfulIsAccepted
<1> QED BY <1>1, EpisodeInvariant, MapInvariant, RunInvariant, PTL

-----------------------------------------------------------------------------
\* The envelopes of the closed segments.

IsExact(closing) ==
  /\ Len(closing.segment) <= TMax
  /\ HoldExactly(closing.envelopes, closing.segment, closing.bootstrap)

LEMMA ClosingIsExact ==
  ASSUME NEW a, NEW agent, agent.segment \in Seq(Transitions),
         Len(agent.segment) <= TMax, NEW bootstrap \in Int,
         Closable(agent, bootstrap)
  PROVE  IsExact(Closing(a, agent, bootstrap))
<1> DEFINE segment == agent.segment
           closing == Closing(a, agent, bootstrap)
<1>1. Len(segment) \in 0 .. TMax
  BY SegmentConstantsAssumption
<1>2. ASSUME NEW i \in 1 .. Len(segment)
      PROVE  segment[i].reward \in Int /\ segment[i].value \in Int
  <2>1. segment[i] \in Transitions OBVIOUS
  <2> HIDE DEF segment
  <2> QED BY <2>1 DEF Transitions
<1>3. IsSegment(segment, bootstrap) BY <1>1, <1>2 DEF IsSegment
<1>4. Divisible(ProjectProcessedSegment(segment, bootstrap)) BY DEF Closable
<1> DEFINE envelopes == FillEnvelopes(ProjectProcessedSegment(segment, bootstrap))
<1>5. HoldExactly(envelopes, segment, bootstrap)
  <2> HIDE DEF segment
  <2> QED BY <1>3, <1>4, EnvelopesHoldExactly
<1>6. /\ closing.segment = segment /\ closing.bootstrap = bootstrap
      /\ closing.envelopes = envelopes
  BY DEF Closing
<1> HIDE DEF closing, envelopes, segment
<1>7. IsExact(closing) BY <1>1, <1>5, <1>6 DEF IsExact
<1> QED BY <1>7 DEF closing

LEMMA UpdateIsExact ==
  ASSUME IInv, Update
  PROVE  \A closing \in output' : IsExact(closing)
<1> DEFINE f == frame + 1
<1>1. PICK reports \in AcceptedReports(f) :
        LET Done(a) == IsEnvironmentTerminal(reports[a].reason)
            finished == [a \in Active |-> Finished(a, reports[a], f)]
            closing == {a \in Active : Closes(finished[a], Done(a))}
        IN  /\ \A a \in Active : Finishes(Applied(agents[a], reports[a], f))
            /\ \A a \in closing :
                 Closable(finished[a], Bootstrap(finished[a], Done(a)))
            /\ output' = {Closing(a, finished[a],
                                  Bootstrap(finished[a], Done(a))) :
                            a \in closing}
  BY DEF Update
<1> DEFINE Done(a) == IsEnvironmentTerminal(reports[a].reason)
           finished(a) == Finished(a, reports[a], f)
           bootstrap(a) == Bootstrap(finished(a), Done(a))
<1> TAKE closing \in output'
<1>2. PICK a \in Active : /\ Closable(finished(a), bootstrap(a))
                          /\ closing = Closing(a, finished(a), bootstrap(a))
  BY <1>1
<1>3. f \in Nat /\ a \in Agents /\ ~agents[a].done
  BY DEF IInv, Active
<1>4. /\ reports[a] \in Reports /\ Decodes(agents[a], reports[a], f)
      /\ Finishes(Applied(agents[a], reports[a], f)) /\ AgentInv(agents[a])
  BY <1>1, <1>3 DEF AcceptedReports, IInv
<1>5. Reported(finished(a), reports[a], f)
  BY <1>3, <1>4, ReportIsReported
<1>6. reports[a].cell \in Cells
  BY <1>4 DEF Reports
<1>7. /\ finished(a) \in AgentRecords /\ Len(finished(a).segment) <= TMax
      /\ finished(a).cell \in Cells
  BY <1>5, <1>6 DEF Reported
<1>8. finished(a).segment \in Seq(Transitions)
  <2> HIDE DEF finished
  <2> QED BY <1>7 DEF AgentRecords
<1> HIDE DEF finished
<1>9. bootstrap(a) \in Int
  BY <1>7, EpisodeConstantsAssumption DEF Bootstrap
<1> HIDE DEF bootstrap
<1> QED BY <1>2, <1>7, <1>8, <1>9, ClosingIsExact

LEMMA AbortIsExact ==
  ASSUME IInv, AbortEpisode
  PROVE  \A closing \in output' : IsExact(closing)
<1> DEFINE bootstrap(a) == IF agents[a].pending
                           THEN Value(agents[a].pendingObservation.cell)
                           ELSE Value(agents[a].cell)
<1> TAKE closing \in output'
<1>1. PICK a \in Agents : /\ agents[a].segment # <<>>
                          /\ Closable(agents[a], bootstrap(a))
                          /\ closing = Closing(a, agents[a], bootstrap(a))
  BY DEF AbortEpisode
<1>2. /\ AgentInv(agents[a]) /\ agents[a].segment \in Seq(Transitions)
      /\ agents[a].observed \in Int /\ Len(agents[a].segment) < TMax
  BY DEF IInv, AgentInv, AgentRecords, Collects
<1>3. Seen(agents[a])
  BY <1>1, <1>2 DEF AgentInv, Unseen
<1>4. bootstrap(a) \in Int
  BY <1>3, EpisodeConstantsAssumption DEF Seen
<1>5. Len(agents[a].segment) <= TMax
  BY <1>2, SegmentConstantsAssumption
<1> HIDE DEF bootstrap
<1> QED BY <1>1, <1>2, <1>4, <1>5, ClosingIsExact

\* Whatever the client reports and however an episode ends, what leaves an agent
\* is its segments, transition by transition, with the lambda returns, in
\* envelopes that keep the limits (PrepareFrame, PrepareAbort,
\* EstimateRolloutSegment, PrepareAgentSegmentClose).
THEOREM EnvelopesExactHolds == Spec => []EnvelopesExact
<1> DEFINE Exact == \A closing \in output : IsExact(closing)
<1>1. Init => Exact BY DEF Init
<1>2. IInv /\ Exact /\ [Next]_vars => Exact'
  <2> SUFFICES ASSUME IInv, Exact, [Next]_vars
               PROVE  \A closing \in output' : IsExact(closing)
    BY DEF IsExact
  <2>1. CASE output' = {} BY <2>1
  <2>2. CASE InitializeTask
    BY <2>1, <2>2 DEF InitializeTask
  <2>3. CASE BeginEpisode BY <2>1, <2>3 DEF BeginEpisode
  <2>4. CASE Update BY <2>4, UpdateIsExact
  <2>5. CASE UpdateDegrades BY <2>1, <2>5 DEF UpdateDegrades
  <2>6. CASE EndEpisode BY <2>1, <2>6 DEF EndEpisode
  <2>7. CASE AbortEpisode BY <2>7, AbortIsExact
  <2>8. CASE CloseSession BY <2>1, <2>8 DEF CloseSession
  <2>9. CASE UNCHANGED vars BY <2>9 DEF vars
  <2> QED
    BY <2>2, <2>3, <2>4, <2>5, <2>6, <2>7, <2>8, <2>9 DEF Next
<1>3. Exact => EnvelopesExact BY DEF IsExact, EnvelopesExact
<1> HIDE DEF Exact
<1> QED BY <1>1, <1>2, <1>3, EpisodeInvariant, PTL DEF Spec
=============================================================================
