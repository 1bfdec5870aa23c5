----------------------- MODULE TrainingRuntimeProofs -----------------------
(***************************************************************************)
(* Machine-checked proofs about TrainingRuntime, for any number of         *)
(* sessions, agents, transitions and models.                               *)
(***************************************************************************)
EXTENDS TrainingRuntime, TLAPS, FiniteSetTheorems

\* The state of one agent: a segment holds transitions of this agent that the
\* pinned model inferred, and an agent that is done has left nothing behind.
AgentShape(s, a, agent) ==
  /\ agent \in AgentStates
  /\ \A t \in agent.cached :
       t.session = s /\ t.agent = a /\ t.n < agent.steps /\ t.by = agent.pinned
  /\ agent.open \/ (agent.cached = {} /\ agent.pending = 0)
  /\ agent.open => agent.pinned # 0
  /\ agent.pending \in {0, agent.pinned}
  /\ agent.done => Settled(agent)

\* Only a running episode has segments.
SessionShape(s, session) ==
  /\ session \in SessionStates
  /\ \A a \in Agents : AgentShape(s, a, session.agents[a])
  /\ session.phase = "TERMINAL" => \A a \in Agents : session.agents[a].done
  /\ session.phase # "RUNNING" =>
       \A a \in Agents : /\ session.agents[a].cached = {}
                         /\ session.agents[a].pending = 0
  /\ \A t \in session.window : t.session = s

SessionsShape == /\ sessions \in [Sessions -> SessionStates]
                 /\ \A s \in Sessions : SessionShape(s, sessions[s])

\* Sessions that have been initialized and not been closed.
Trained(someSessions) ==
  {s \in Sessions :
     someSessions[s].phase \in {"READY", "RUNNING", "TERMINAL", "ABORTED"}}
AtMostOne(S) == \A s, r \in S : s = r

\* The ledger never runs ahead, and is initialized once.
LedgerShape ==
  /\ ledger \in [initialized : BOOLEAN, produced : Nat, model : 0..MaxModel]
  /\ model \in Models /\ produced \in Nat
  /\ ledger.produced <= produced /\ ledger.model <= model
  /\ AtMostOne(Trained(sessions))
  /\ ~ledger.initialized => Trained(sessions) = {}
  /\ shutdown \in {"closing", "admitted"} =>
       /\ AtMostOne(Trained(plan.sessions))
       /\ ~ledger.initialized => Trained(plan.sessions) = {}

\* What BeginShutdown has planned stays what there is to be done.
PlanShape ==
  /\ shutdown \in {"no", "closing", "admitted", "settling", "done"}
  /\ shutdown # "no" => state # "READY"
  /\ shutdown \in {"closing", "admitted"} =>
       /\ \A s \in Sessions :
            /\ SessionShape(s, plan.sessions[s])
            /\ plan.sessions[s].window = sessions[s].window
            /\ \A a \in Agents :
                 /\ plan.sessions[s].agents[a].steps = sessions[s].agents[a].steps
                 /\ plan.sessions[s].agents[a].cached = {}
       /\ plan.output = UNION {CutOutput(s) : s \in Sessions}

\* Transitions the agents have made, each with its reward in a window or in the
\* journal.
Made == reported \cup Windows(sessions)

\* They are numbered without gaps and repetitions.
Numbered ==
  /\ Made \subseteq Transitions /\ IsFiniteSet(Made)
  /\ \A s \in Sessions, a \in Agents : \A n \in 0 .. Steps(s, a) - 1 :
       \E t \in Made : t.session = s /\ t.agent = a /\ t.n = n
  /\ \A t \in Made : t.n < Steps(t.session, t.agent)
  /\ \A t, u \in Made :
       t.session = u.session /\ t.agent = u.agent /\ t.n = u.n => t = u

\* Each is in one place, and the counters count them.
Placed ==
  /\ Kept \cup Sent \cup discarded = Made
  /\ Kept \cap Sent = {} /\ Kept \cap discarded = {} /\ Sent \cap discarded = {}
  /\ emitted \subseteq [transition : Transitions, model : Models]
  /\ IsFiniteSet(emitted)
  /\ shutdown = "admitted" => plan.output \subseteq emitted
  /\ (IF shutdown = "admitted" THEN produced + Cardinality(plan.output)
      ELSE produced) = Cardinality(emitted)
  /\ quarantined = Cardinality(discarded)

\* Each reward is reported or waits for it, and the journal counts it once.
Rewarded ==
  /\ reportedCount = Cardinality(reported)
  /\ reported \cap Windows(sessions) = {}

Accounted == Placed /\ Rewarded

\* Success means that nothing was discarded or is left.
LossShape ==
  /\ shutdown = "no" /\ discarded # {} => state = "DEGRADED"
  /\ shutdown # "no" /\ discarded # {} => faultBefore \/ ~plan.ok
  /\ shutdown \in {"settling", "done"} => Windows(sessions) = {}
  /\ succeeded => /\ shutdown = "done" /\ ~faultBefore /\ plan.ok
                  /\ CachedIn(sessions, Sessions) = {}

IInv ==
  /\ SessionsShape /\ LedgerShape /\ PlanShape /\ Numbered /\ Accounted
  /\ LossShape /\ BehaviorModelExact

-----------------------------------------------------------------------------
\* Operations on the state of one agent.

LEMMA FinalizeShape ==
  ASSUME NEW s \in Sessions, NEW a \in Agents, NEW agent,
         AgentShape(s, a, agent), ~agent.done
  PROVE  LET acted == FinalizePendingTransition(s, a, agent) IN
         /\ AgentShape(s, a, acted) /\ acted.pending = 0 /\ ~acted.done
         /\ acted.open = agent.open /\ acted.pinned = agent.pinned
         /\ acted.cached = agent.cached \cup Finished(s, a, agent)
         /\ acted.steps = IF agent.pending = 0 THEN agent.steps
                          ELSE agent.steps + 1
         /\ Finished(s, a, agent) \subseteq Transitions
<1> DEFINE acted == FinalizePendingTransition(s, a, agent)
<1>1. /\ agent \in AgentStates /\ agent.steps \in Nat
      /\ agent.pending \in 0..MaxModel /\ agent.cached \subseteq Transitions
  BY DEF AgentShape, AgentStates
<1>2. Finished(s, a, agent) \subseteq Transitions
  BY <1>1, ConstantsAssumption DEF Finished, Transitions, Models
<1>3. \A t \in Finished(s, a, agent) :
        /\ t.session = s /\ t.agent = a /\ t.n = agent.steps
        /\ t.by = agent.pending /\ agent.pending # 0
  BY DEF Finished
<1>4. /\ acted.cached = agent.cached \cup Finished(s, a, agent)
      /\ acted.steps = IF agent.pending = 0 THEN agent.steps ELSE agent.steps + 1
      /\ acted.pending = 0 /\ acted.done = agent.done
      /\ acted.open = agent.open /\ acted.pinned = agent.pinned
  BY <1>1 DEF FinalizePendingTransition, AgentStates
<1>5. acted \in AgentStates
  <2>1. agent.steps + 1 \in Nat /\ 0 \in 0..MaxModel
    BY <1>1, ConstantsAssumption
  <2>2. agent.cached \cup Finished(s, a, agent) \in SUBSET Transitions
    BY <1>1, <1>2
  <2> QED BY <1>1, <2>1, <2>2 DEF FinalizePendingTransition, AgentStates
<1> HIDE DEF acted
<1>6. AgentShape(s, a, acted)
  <2>1. \A t \in agent.cached : t.n \in Nat
    BY <1>1 DEF Transitions
  <2>2. \A t \in acted.cached : /\ t.session = s /\ t.agent = a
                               /\ t.n < acted.steps /\ t.by = acted.pinned
    BY <1>1, <1>3, <1>4, <2>1 DEF AgentShape
  <2>3. acted.cached # {} => acted.open
    BY <1>3, <1>4 DEF AgentShape
  <2> QED BY <1>4, <1>5, <2>2, <2>3 DEF AgentShape
<1> QED BY <1>2, <1>4, <1>6 DEF acted

LEMMA ClearShape ==
  ASSUME NEW s, NEW a, NEW agent, AgentShape(s, a, agent)
  PROVE  LET cleared == [Cleared(agent) EXCEPT !.pending = 0] IN
         /\ AgentShape(s, a, cleared) /\ cleared.cached = {}
         /\ cleared.pending = 0 /\ ~cleared.open
         /\ cleared.steps = agent.steps /\ cleared.done = agent.done
<1> DEFINE cleared == [Cleared(agent) EXCEPT !.pending = 0]
<1>1. agent \in AgentStates
  BY DEF AgentShape
<1>2. /\ cleared.cached = {} /\ cleared.pending = 0 /\ cleared.open = FALSE
      /\ cleared.pinned = 0
      /\ cleared.steps = agent.steps /\ cleared.done = agent.done
  BY <1>1 DEF Cleared, AgentStates
<1>3. cleared \in AgentStates
  <2>1. 0 \in 0..MaxModel /\ {} \in SUBSET Transitions
    BY ConstantsAssumption
  <2>2. Cleared(agent) \in AgentStates
    BY <1>1, <2>1 DEF Cleared, AgentStates
  <2> QED BY <2>1, <2>2 DEF AgentStates
<1> HIDE DEF cleared
<1>4. AgentShape(s, a, cleared)
  BY <1>2, <1>3 DEF AgentShape, Settled
<1> QED BY <1>2, <1>4 DEF cleared

LEMMA ClearedShape ==
  ASSUME NEW s, NEW a, NEW agent, AgentShape(s, a, agent), agent.pending = 0
  PROVE  LET cleared == Cleared(agent) IN
         /\ AgentShape(s, a, cleared) /\ cleared.cached = {}
         /\ cleared.pending = 0 /\ ~cleared.open
         /\ cleared.steps = agent.steps /\ cleared.done = agent.done
<1> DEFINE cleared == Cleared(agent)
<1>1. agent \in AgentStates
  BY DEF AgentShape
<1>2. /\ cleared.cached = {} /\ cleared.pending = 0 /\ cleared.open = FALSE
      /\ cleared.pinned = 0
      /\ cleared.steps = agent.steps /\ cleared.done = agent.done
  BY <1>1 DEF Cleared, AgentStates
<1>3. cleared \in AgentStates
  BY <1>1, ConstantsAssumption DEF Cleared, AgentStates
<1> HIDE DEF cleared
<1>4. AgentShape(s, a, cleared)
  BY <1>2, <1>3 DEF AgentShape, Settled
<1> QED BY <1>2, <1>4 DEF cleared

LEMMA DoneShape ==
  ASSUME NEW s, NEW a, NEW agent, AgentShape(s, a, agent),
         agent.pending = 0, ~agent.open
  PROVE  LET after == [agent EXCEPT !.done = TRUE] IN
         /\ AgentShape(s, a, after) /\ after.done /\ after.cached = {}
         /\ after.pending = 0 /\ after.steps = agent.steps
<1> DEFINE after == [agent EXCEPT !.done = TRUE]
<1>1. agent \in AgentStates /\ agent.cached = {}
  BY DEF AgentShape
<1>2. /\ after.cached = {} /\ after.pending = 0 /\ after.open = agent.open
      /\ after.pinned = agent.pinned /\ after.steps = agent.steps
      /\ after.done = TRUE
  BY <1>1 DEF AgentStates
<1>3. after \in AgentStates
  BY <1>1 DEF AgentStates
<1> HIDE DEF after
<1>4. AgentShape(s, a, after)
  BY <1>2, <1>3 DEF AgentShape, Settled
<1> QED BY <1>2, <1>4 DEF after

LEMMA PrepareShape ==
  ASSUME NEW s, NEW a, NEW agent, AgentShape(s, a, agent),
         agent.pending = 0, ~agent.done, model \in Models
  PROVE  LET after == PrepareModelAction(agent) IN
         /\ AgentShape(s, a, after) /\ after.cached = agent.cached
         /\ after.steps = agent.steps /\ ~after.done
<1> DEFINE pinned == EnsureAgentSegmentPin(agent)
           after == PrepareModelAction(agent)
<1>1. /\ agent \in AgentStates
      /\ model \in 0..MaxModel /\ model # 0
  BY ConstantsAssumption DEF AgentShape, Models
<1>2. /\ pinned \in AgentStates
      /\ pinned.open = TRUE /\ pinned.cached = agent.cached
      /\ pinned.steps = agent.steps /\ pinned.done = agent.done
      /\ pinned.pinned = IF agent.open THEN agent.pinned ELSE model
  <2>1. CASE agent.open
    BY <1>1, <2>1 DEF EnsureAgentSegmentPin, AgentStates
  <2>2. CASE ~agent.open
    <3>1. agent.cached = {} /\ agent.open = FALSE
      BY <1>1, <2>2 DEF AgentShape, AgentStates
    <3>2. pinned = [agent EXCEPT !.open = TRUE, !.pinned = model, !.cached = {}]
      BY <2>2 DEF EnsureAgentSegmentPin
    <3>3. pinned \in AgentStates
      BY <1>1, <3>2 DEF AgentStates
    <3> QED BY <1>1, <2>2, <3>1, <3>2, <3>3 DEF AgentStates
  <2> QED BY <2>1, <2>2
<1> HIDE DEF pinned
<1>3. after = [pinned EXCEPT !.pending = pinned.pinned]
  BY DEF PrepareModelAction, pinned
<1>4. /\ after \in AgentStates
      /\ after.open = TRUE /\ after.cached = agent.cached
      /\ after.steps = agent.steps /\ after.done = agent.done
      /\ after.pinned = pinned.pinned /\ after.pending = pinned.pinned
  BY <1>2, <1>3 DEF AgentStates
<1> HIDE DEF after
<1>5. AgentShape(s, a, after)
  BY <1>1, <1>2, <1>4 DEF AgentShape, Settled
<1> QED BY <1>4, <1>5 DEF after

LEMMA ResetShape ==
  ASSUME NEW s, NEW a, NEW agent, AgentShape(s, a, agent)
  PROVE  LET after == ResetForEpisode(agent) IN
         /\ AgentShape(s, a, after) /\ after.cached = {}
         /\ after.pending = 0 /\ after.steps = agent.steps
<1> DEFINE after == ResetForEpisode(agent)
<1>1. agent.steps \in Nat
  BY DEF AgentShape, AgentStates
<1>2. /\ after.cached = {} /\ after.pending = 0 /\ after.open = FALSE
      /\ after.pinned = 0 /\ after.steps = agent.steps /\ after.done = FALSE
  BY DEF ResetForEpisode, NoSegment
<1>3. after \in AgentStates
  <2>1. NoSegment \in AgentStates
    BY ConstantsAssumption DEF NoSegment, AgentStates
  <2> QED BY <1>1, <2>1 DEF ResetForEpisode, AgentStates
<1> HIDE DEF after
<1>4. AgentShape(s, a, after)
  BY <1>2, <1>3 DEF AgentShape
<1> QED BY <1>2, <1>4 DEF after

-----------------------------------------------------------------------------
\* Sets of transitions and of envelopes, and how many there are.

LEMMA CachedInElements ==
  ASSUME NEW someSessions, NEW S, NEW t
  PROVE  t \in CachedIn(someSessions, S) <=>
           \E s \in S, a \in Agents : t \in someSessions[s].agents[a].cached
  BY DEF CachedIn

LEMMA WindowsElements ==
  ASSUME NEW someSessions, NEW t
  PROVE  t \in Windows(someSessions) <=>
           \E s \in Sessions : t \in someSessions[s].window
  BY DEF Windows

\* The envelopes of the segments of a session hold what its agents have cached.
LEMMA CutOutputElements ==
  ASSUME SessionsShape, NEW s \in Sessions
  PROVE  /\ CutOutput(s) \subseteq [transition : Transitions, model : Models]
         /\ \A e \in CutOutput(s) :
              /\ e.model = e.transition.by
              /\ \E a \in Agents : e.transition \in sessions[s].agents[a].cached
         /\ \A a \in Agents : \A t \in sessions[s].agents[a].cached :
              [transition |-> t, model |-> t.by] \in CutOutput(s)
<1>1. \A e \in CutOutput(s) :
        \E a \in Agents : \E t \in sessions[s].agents[a].cached :
          e = [transition |-> t, model |-> sessions[s].agents[a].pinned]
  BY DEF CutOutput, Envelopes
<1>2. ASSUME NEW a \in Agents, NEW t \in sessions[s].agents[a].cached
      PROVE  /\ t \in Transitions /\ t.by \in Models
             /\ t.by = sessions[s].agents[a].pinned
             /\ HasSegment(sessions[s].agents[a])
  <2>1. AgentShape(s, a, sessions[s].agents[a])
    BY DEF SessionsShape, SessionShape
  <2> QED BY <2>1 DEF AgentShape, AgentStates, HasSegment, Transitions
<1>3. \A a \in Agents : \A t \in sessions[s].agents[a].cached :
        [transition |-> t, model |-> t.by] \in CutOutput(s)
  BY <1>2 DEF CutOutput, Envelopes
<1> QED BY <1>1, <1>2, <1>3

LEMMA DisjointCount ==
  ASSUME NEW S, NEW T, IsFiniteSet(S), IsFiniteSet(T), S \cap T = {}
  PROVE  /\ IsFiniteSet(S \cup T)
         /\ Cardinality(S \cup T) = Cardinality(S) + Cardinality(T)
<1>1. Cardinality(S) \in Nat /\ Cardinality(T) \in Nat
  BY FS_CardinalityType
<1>2. Cardinality(S \cap T) = 0
  BY FS_EmptySet
<1>3. /\ IsFiniteSet(S \cup T)
      /\ Cardinality(S \cup T)
           = Cardinality(S) + Cardinality(T) - Cardinality(S \cap T)
  BY FS_Union
<1> QED BY <1>1, <1>2, <1>3

\* Envelopes that name the behaviour model of their transition are as few as
\* the transitions.
LEMMA EnvelopesFinite ==
  ASSUME NEW E, E \subseteq [transition : Transitions, model : Models],
         \A e \in E : e.model = e.transition.by,
         NEW T, IsFiniteSet(T), \A e \in E : e.transition \in T
  PROVE  IsFiniteSet(E)
<1> DEFINE f == [e \in E |-> e.transition]
<1>1. f \in Injection(E, T)
  <2>1. f \in [E -> T]
    OBVIOUS
  <2>2. ASSUME NEW e \in E, NEW d \in E, f[e] = f[d] PROVE e = d
    BY <2>2
  <2> QED BY <2>1, <2>2 DEF Injection, IsInjective
<1> HIDE DEF f
<1> QED BY <1>1, FS_Injection

\* Numbering without gaps and repetitions: an agent has made as many transitions
\* as it counts.
LEMMA NumberedCount ==
  ASSUME SessionsShape, Numbered, NEW s \in Sessions, NEW a \in Agents
  PROVE  Cardinality({t \in Made : t.session = s /\ t.agent = a}) = Steps(s, a)
<1> DEFINE T == {t \in Made : t.session = s /\ t.agent = a}
           N == 0 .. Steps(s, a) - 1
           f == [t \in T |-> t.n]
<1>1. Steps(s, a) \in Nat
  BY DEF SessionsShape, SessionShape, AgentShape, AgentStates, Steps
<1>2. \A t \in T : t.n \in N
  BY <1>1 DEF Numbered, Transitions
<1>3. \A n \in N : \E t \in T : t.n = n
  BY DEF Numbered
<1>4. \A t, u \in T : t.n = u.n => t = u
  BY DEF Numbered
<1>5. IsFiniteSet(T)
  BY FS_Subset DEF Numbered
<1> HIDE DEF T, N
<1>6. f \in Bijection(T, N)
  BY <1>2, <1>3, <1>4 DEF Bijection, Injection, Surjection, IsInjective
<1>7. ExistsBijection(T, N)
  BY <1>6 DEF ExistsBijection
<1>8. Cardinality(N) = Cardinality(T)
  BY <1>5, <1>7, FS_Bijection
<1>9. Cardinality(N) = Steps(s, a)
  BY <1>1, FS_Interval DEF N
<1> QED BY <1>8, <1>9 DEF T

-----------------------------------------------------------------------------
\* Steps that move no transition.

\* Every agent keeps its transitions and every session its window.
SameHoldings ==
  \A s \in Sessions :
    /\ sessions'[s].window = sessions[s].window
    /\ \A a \in Agents :
         /\ sessions'[s].agents[a].cached = sessions[s].agents[a].cached
         /\ sessions'[s].agents[a].steps = sessions[s].agents[a].steps

LEMMA NumberedFrame ==
  ASSUME Numbered, Made' = Made,
         \A s \in Sessions, a \in Agents : Steps(s, a)' = Steps(s, a)
  PROVE  Numbered'
<1>1. \A t \in Made : t.session \in Sessions /\ t.agent \in Agents
  BY DEF Numbered, Transitions
<1> QED BY <1>1 DEF Numbered

LEMMA HoldingsFrame ==
  ASSUME Numbered, Accounted, BehaviorModelExact, SameHoldings,
         UNCHANGED <<shutdown, plan, produced, quarantined, historyVars>>
  PROVE  Numbered' /\ Accounted' /\ BehaviorModelExact'
<1> USE DEF historyVars
<1>1. Windows(sessions)' = Windows(sessions)
  BY WindowsElements DEF SameHoldings, Windows
<1>2. CachedIn(sessions, Sessions)' = CachedIn(sessions, Sessions)
  BY DEF SameHoldings, CachedIn
<1>3. Made' = Made /\ Kept' = Kept /\ Sent' = Sent
  BY <1>1, <1>2 DEF Made, Kept, Sent, CachedIn
<1>4. Numbered'
  BY <1>3, NumberedFrame DEF SameHoldings, Steps
<1>5. Accounted' /\ BehaviorModelExact'
  BY <1>1, <1>3 DEF Accounted, Placed, Rewarded, BehaviorModelExact
<1> QED BY <1>4, <1>5

\* One session changes its phase, and its agents are reset when they have
\* nothing to lose.
LEMMA PhasePreserves ==
  ASSUME IInv, NEW s \in Sessions,
         OpenSession(s) \/ InitTask(s) \/ BeginEpisode(s) \/ CloseSession(s)
  PROVE  SessionsShape' /\ SameHoldings
<1> USE DEF OpenSession, InitTask, BeginEpisode, CloseSession
<1>1. /\ sessions \in [Sessions -> SessionStates]
      /\ SessionShape(s, sessions[s]) /\ sessions[s].phase # "RUNNING"
      /\ sessions[s] \in SessionStates
  BY DEF IInv, SessionsShape
<1>2. PICK phase \in Phases \ {"TERMINAL"}, agents \in [Agents -> AgentStates] :
        /\ sessions' = [sessions EXCEPT ![s] =
             [sessions[s] EXCEPT !.phase = phase, !.agents = agents]]
        /\ \/ agents = sessions[s].agents
           \/ agents = [a \in Agents |-> ResetForEpisode(sessions[s].agents[a])]
  <2>1. sessions[s].agents \in [Agents -> AgentStates]
    BY <1>1 DEF SessionStates
  <2>2. [a \in Agents |-> ResetForEpisode(sessions[s].agents[a])]
           \in [Agents -> AgentStates]
    BY <1>1, ResetShape DEF SessionShape, AgentShape
  <2>3. CASE OpenSession(s) \/ CloseSession(s)
    <3>1. PICK p \in {"OPEN", "CLOSED"} :
            sessions' = [sessions EXCEPT ![s].phase = p]
      BY <2>3
    <3>2. sessions' = [sessions EXCEPT ![s] =
            [sessions[s] EXCEPT !.phase = p, !.agents = sessions[s].agents]]
      BY <1>1, <3>1 DEF SessionStates
    <3>3. p \in Phases \ {"TERMINAL"}
      BY DEF Phases
    <3> QED BY <2>1, <3>2, <3>3
  <2>5. CASE InitTask(s)
    BY <1>1, <2>2, <2>5 DEF Phases, SessionStates
  <2>6. CASE BeginEpisode(s)
    BY <1>1, <2>2, <2>6 DEF Phases, SessionStates
  <2> QED BY <2>3, <2>5, <2>6
<1> HIDE DEF OpenSession, InitTask, BeginEpisode, CloseSession
<1>3. /\ sessions'[s].phase = phase /\ sessions'[s].agents = agents
      /\ sessions'[s].window = sessions[s].window
      /\ sessions'[s] \in SessionStates
      /\ sessions' \in [Sessions -> SessionStates]
      /\ \A r \in Sessions \ {s} : sessions'[r] = sessions[r]
  BY <1>1, <1>2 DEF SessionStates
<1>4. ASSUME NEW a \in Agents
      PROVE  /\ AgentShape(s, a, agents[a])
             /\ agents[a].cached = {} /\ agents[a].pending = 0
             /\ agents[a].steps = sessions[s].agents[a].steps
             /\ sessions[s].agents[a].cached = {}
  <2> DEFINE agent == sessions[s].agents[a]
  <2>1. AgentShape(s, a, agent) /\ agent.cached = {} /\ agent.pending = 0
    BY <1>1 DEF SessionShape
  <2>2. agents[a] = agent \/ agents[a] = ResetForEpisode(agent)
    BY <1>2
  <2> HIDE DEF agent
  <2>3. /\ AgentShape(s, a, ResetForEpisode(agent))
        /\ ResetForEpisode(agent).cached = {}
        /\ ResetForEpisode(agent).pending = 0
        /\ ResetForEpisode(agent).steps = agent.steps
    BY <2>1, ResetShape
  <2> QED BY <2>1, <2>2, <2>3 DEF agent
<1>5. SessionShape(s, sessions'[s])
  BY <1>1, <1>3, <1>4 DEF SessionShape
<1>6. SessionsShape'
  BY <1>3, <1>5 DEF IInv, SessionsShape
<1>7. SameHoldings
  BY <1>3, <1>4 DEF SameHoldings
<1> QED BY <1>6, <1>7

LEMMA LossFrame ==
  ASSUME LossShape, SameHoldings, UNCHANGED <<shutdownVars, discarded>>,
         state' = state \/ (shutdown = "no" /\ state' = "DEGRADED")
  PROVE  LossShape'
<1>1. Windows(sessions)' = Windows(sessions)
  BY DEF SameHoldings, Windows
<1>2. CachedIn(sessions, Sessions)' = CachedIn(sessions, Sessions)
  BY DEF SameHoldings, CachedIn
<1> QED BY <1>1, <1>2 DEF LossShape, shutdownVars

\* The controller is initialized once, so that no second session gets ready.
LEMMA CommandPreserves ==
  ASSUME IInv, NEW s \in Sessions,
         OpenSession(s) \/ InitTask(s) \/ BeginEpisode(s)
  PROVE  IInv'
<1> USE DEF OpenSession, InitTask, BeginEpisode, CoreReady, shutdownVars,
            historyVars
<1>1. SessionsShape' /\ SameHoldings
  BY PhasePreserves
<1>2. shutdown = "no" /\ shutdown' = "no" /\ state' = state
  BY DEF IInv, PlanShape
<1>3. Numbered' /\ Accounted' /\ BehaviorModelExact'
  BY <1>1, HoldingsFrame DEF IInv
<1>4. LossShape'
  BY <1>1, LossFrame DEF IInv
<1>5. PlanShape'
  BY <1>2 DEF PlanShape
<1>6. /\ \A r \in Sessions \ {s} : sessions'[r].phase = sessions[r].phase
      /\ OpenSession(s) => sessions'[s].phase = "OPEN"
      /\ InitTask(s) => sessions'[s].phase = "READY"
      /\ BeginEpisode(s) => sessions'[s].phase = "RUNNING"
  BY DEF IInv, SessionsShape, SessionStates
<1>7. LedgerShape'
  <2>1. /\ ledger \in [initialized : BOOLEAN, produced : Nat, model : 0..MaxModel]
        /\ model \in Models /\ model \in 0..MaxModel /\ produced \in Nat
        /\ model' = model /\ produced' = produced
    BY ConstantsAssumption DEF IInv, LedgerShape, Models
  <2>2. CASE OpenSession(s)
    <3>1. Trained(sessions') = Trained(sessions)
      BY <1>6, <2>2 DEF Trained
    <3> QED BY <1>2, <2>1, <2>2, <3>1 DEF IInv, LedgerShape, AtMostOne, Trained
  <2>3. CASE InitTask(s)
    <3>1. ledger' = [initialized |-> TRUE, produced |-> 0, model |-> model]
      BY <2>3 DEF Initialize
    <3>2. ledger.initialized = FALSE
      BY <2>1, <2>3 DEF Initialize
    <3>3. Trained(sessions) = {}
      BY <3>2 DEF IInv, LedgerShape
    <3>4. Trained(sessions') \subseteq {s}
      BY <1>6, <3>3 DEF Trained
    <3>5. /\ ledger' \in [initialized : BOOLEAN, produced : Nat,
                           model : 0..MaxModel]
          /\ ledger'.initialized /\ ledger'.produced = 0
          /\ ledger'.model = model
      BY <2>1, <3>1
    <3>6. model <= model /\ 0 <= produced
      BY <2>1 DEF Models
    <3> HIDE DEF InitTask
    <3>7. AtMostOne(Trained(sessions'))
      BY <3>4 DEF AtMostOne
    <3> QED BY <1>2, <2>1, <3>5, <3>6, <3>7 DEF LedgerShape
  <2>4. CASE BeginEpisode(s)
    <3>1. /\ ledger' = [ledger EXCEPT !.produced = produced, !.model = model]
          /\ ledger.initialized
      BY <2>4 DEF Observe
    <3>2. s \in Trained(sessions)
      BY <2>4 DEF Trained
    <3>3. Trained(sessions') = Trained(sessions)
      BY <1>6, <2>4, <3>2 DEF Trained
    <3>4. /\ ledger' \in [initialized : BOOLEAN, produced : Nat,
                           model : 0..MaxModel]
          /\ ledger'.initialized /\ ledger'.produced = produced
          /\ ledger'.model = model
      BY <2>1, <3>1
    <3>5. model <= model /\ produced <= produced
      BY <2>1 DEF Models
    <3> HIDE DEF BeginEpisode
    <3>6. AtMostOne(Trained(sessions'))
      BY <3>3 DEF IInv, LedgerShape
    <3> QED BY <1>2, <2>1, <3>4, <3>5, <3>6 DEF LedgerShape
  <2> QED BY <2>2, <2>3, <2>4
<1> QED BY <1>1, <1>3, <1>4, <1>5, <1>7 DEF IInv

\* A session may also be closed while the shutdown works on its copy.
LEMMA ClosePreserves ==
  ASSUME IInv, NEW s \in Sessions, CloseSession(s)
  PROVE  IInv'
<1> USE DEF CloseSession, shutdownVars, historyVars
<1>1. SessionsShape' /\ SameHoldings
  BY PhasePreserves
<1>2. Numbered' /\ Accounted' /\ BehaviorModelExact'
  BY <1>1, HoldingsFrame DEF IInv
<1>3. LossShape'
  BY <1>1, LossFrame DEF IInv
<1>4. /\ \A r \in Sessions : sessions'[r].agents = sessions[r].agents
      /\ \A r \in Sessions \ {s} : sessions'[r].phase = sessions[r].phase
      /\ sessions'[s].phase = "CLOSED"
  BY DEF IInv, SessionsShape, SessionStates
<1>5. \A r \in Sessions : CutOutput(r)' = CutOutput(r)
  BY <1>4 DEF CutOutput
<1>6. PlanShape'
  BY <1>1, <1>5 DEF IInv, PlanShape, SameHoldings
<1>7. Trained(sessions') \subseteq Trained(sessions)
  BY <1>4 DEF Trained
<1>8. LedgerShape'
  BY <1>7 DEF IInv, LedgerShape, AtMostOne
<1> QED BY <1>1, <1>2, <1>3, <1>6, <1>8 DEF IInv

LEMMA StatePreserves ==
  ASSUME IInv, MarkDegraded \/ ActivateStagedModel
  PROVE  IInv'
<1> USE DEF MarkDegraded, ActivateStagedModel, shutdownVars, historyVars
<1>1. SessionsShape' /\ SameHoldings
  BY DEF IInv, SessionsShape, SameHoldings
<1>2. Numbered' /\ Accounted' /\ BehaviorModelExact'
  BY <1>1, HoldingsFrame DEF IInv
<1>3. LossShape'
  BY <1>1, LossFrame DEF IInv
<1>4. PlanShape'
  BY DEF IInv, PlanShape
<1>5. /\ model \in Nat /\ ledger.model \in Nat
      /\ model' \in Models /\ model <= model'
  BY ConstantsAssumption DEF IInv, LedgerShape, Models
<1>6. LedgerShape'
  BY <1>5 DEF IInv, LedgerShape
<1> QED BY <1>1, <1>2, <1>3, <1>4, <1>6 DEF IInv

-----------------------------------------------------------------------------
\* Steps that report rewards.

\* The part W of the windows goes to the journal, and the rest stays.
LEMMA RewardMoves ==
  ASSUME Numbered, Rewarded, NEW W, W \subseteq Windows(sessions),
         Windows(sessions)' = Windows(sessions) \ W,
         reported' = reported \cup W,
         reportedCount' = reportedCount + Cardinality(W)
  PROVE  Made' = Made /\ Rewarded'
<1>1. Made' = Made
  BY DEF Made
<1>2. IsFiniteSet(reported) /\ IsFiniteSet(W) /\ reported \cap W = {}
  BY FS_Subset DEF Numbered, Made, Rewarded
<1>3. Cardinality(reported \cup W) = Cardinality(reported) + Cardinality(W)
  BY <1>2, DisjointCount
<1> QED BY <1>1, <1>3 DEF Rewarded

\* Agents keep what they have.
SameAgents ==
  \A s \in Sessions : sessions'[s].agents = sessions[s].agents

LEMMA ReportPreserves ==
  ASSUME IInv, shutdown = "no", SessionsShape', SameAgents,
         UNCHANGED <<model, state, ledger, produced, quarantined, shutdownVars,
                     emitted, discarded>>,
         Trained(sessions') = Trained(sessions),
         NEW W, W \subseteq Windows(sessions),
         Windows(sessions)' = Windows(sessions) \ W,
         reported' = reported \cup W,
         reportedCount' = reportedCount + Cardinality(W)
  PROVE  IInv'
<1> USE DEF shutdownVars
<1>1. Made' = Made /\ Rewarded'
  BY RewardMoves DEF IInv, Accounted
<1>2. Numbered'
  BY <1>1, NumberedFrame DEF IInv, SameAgents, Steps
<1>3. Kept' = Kept /\ Sent' = Sent
  BY DEF Kept, CachedIn, SameAgents, Sent
<1>4. Placed'
  BY <1>1, <1>3 DEF IInv, Accounted, Placed
<1>5. LossShape' /\ PlanShape' /\ BehaviorModelExact'
  BY DEF IInv, LossShape, PlanShape, BehaviorModelExact
<1>6. LedgerShape'
  BY DEF IInv, LedgerShape
<1> QED BY <1>1, <1>2, <1>4, <1>5, <1>6 DEF IInv, Accounted

LEMMA EndEpisodePreserves ==
  ASSUME IInv, NEW s \in Sessions, EndEpisode(s)
  PROVE  IInv'
<1> USE DEF EndEpisode
<1>1. /\ sessions \in [Sessions -> SessionStates]
      /\ \A r \in Sessions : SessionShape(r, sessions[r])
      /\ sessions[s].phase = "TERMINAL" /\ shutdown = "no"
  BY DEF IInv, SessionsShape
<1>2. /\ sessions' \in [Sessions -> SessionStates]
      /\ \A r \in Sessions \ {s} : sessions'[r] = sessions[r]
      /\ sessions'[s].phase = "READY" /\ sessions'[s].window = {}
      /\ sessions'[s].agents = sessions[s].agents
  BY <1>1 DEF SessionStates, Phases
<1>3. SessionShape(s, sessions'[s])
  BY <1>1, <1>2 DEF SessionShape
<1>4. SessionsShape' /\ SameAgents
  BY <1>1, <1>2, <1>3 DEF SessionsShape, SameAgents
<1>5. Trained(sessions') = Trained(sessions)
  BY <1>1, <1>2 DEF Trained
<1>6. sessions[s].window \subseteq Windows(sessions)
  BY DEF Windows
<1>7. Windows(sessions)' = Windows(sessions) \ sessions[s].window
  <2>1. \A r \in Sessions \ {s} : sessions[r].window \cap sessions[s].window = {}
    BY <1>1 DEF SessionShape
  <2>2. Windows(sessions') = Windows(sessions) \ sessions[s].window
    <3>1. ASSUME NEW t PROVE t \in Windows(sessions') <=>
            t \in Windows(sessions) /\ t \notin sessions[s].window
      <4>1. t \in Windows(sessions') <=>
              \E r \in Sessions \ {s} : t \in sessions[r].window
        BY <1>2, WindowsElements
      <4>2. t \in Windows(sessions) <=>
              \E r \in Sessions : t \in sessions[r].window
        BY WindowsElements
      <4> QED BY <2>1, <4>1, <4>2
    <3> QED BY <3>1
  <2> QED BY <2>2 DEF Windows
<1> QED BY <1>1, <1>4, <1>5, <1>6, <1>7, ReportPreserves DEF Report

LEMMA FlushPreserves ==
  ASSUME IInv, FlushRewardMetrics
  PROVE  IInv'
<1> USE DEF FlushRewardMetrics, Flushed
<1>1. /\ sessions \in [Sessions -> SessionStates]
      /\ \A r \in Sessions : SessionShape(r, sessions[r])
  BY DEF IInv, SessionsShape
<1>2. ASSUME NEW s \in Sessions
      PROVE  /\ sessions'[s] \in SessionStates /\ sessions'[s].window = {}
             /\ sessions'[s].phase = sessions[s].phase
             /\ sessions'[s].agents = sessions[s].agents
  BY <1>1 DEF SessionStates
<1>3. \A s \in Sessions : SessionShape(s, sessions'[s])
  BY <1>1, <1>2 DEF SessionShape
<1>4. sessions' \in [Sessions -> SessionStates]
  BY <1>2
<1>5. SessionsShape' /\ SameAgents /\ Trained(sessions') = Trained(sessions)
  BY <1>2, <1>3, <1>4 DEF SessionsShape, SameAgents, Trained
<1>6. Windows(sessions)' = Windows(sessions) \ Windows(sessions)
  <2>1. Windows(sessions') = {}
    BY <1>2, WindowsElements
  <2> QED BY <2>1 DEF Windows
<1> QED BY <1>5, <1>6, ReportPreserves DEF ReportAll

-----------------------------------------------------------------------------
\* Steps that cut an episode short.

CutTo(s, phase) ==
  [sessions[s] EXCEPT !.phase = phase, !.agents = CutAgents(s)]

LEMMA CutSession ==
  ASSUME SessionsShape, NEW s \in Sessions, NEW phase \in Phases,
         phase = "TERMINAL" => sessions[s].phase = "TERMINAL"
  PROVE  /\ SessionShape(s, CutTo(s, phase))
         /\ CutTo(s, phase).phase = phase
         /\ CutTo(s, phase).window = sessions[s].window
         /\ \A a \in Agents :
              /\ CutTo(s, phase).agents[a].cached = {}
              /\ CutTo(s, phase).agents[a].steps = sessions[s].agents[a].steps
<1> DEFINE cut == CutTo(s, phase)
<1>1. SessionShape(s, sessions[s]) /\ sessions[s] \in SessionStates
  BY DEF SessionsShape
<1>2. ASSUME NEW a \in Agents
      PROVE  /\ AgentShape(s, a, CutAgents(s)[a])
             /\ CutAgents(s)[a] \in AgentStates
             /\ CutAgents(s)[a].cached = {} /\ CutAgents(s)[a].pending = 0
             /\ CutAgents(s)[a].steps = sessions[s].agents[a].steps
             /\ CutAgents(s)[a].done = sessions[s].agents[a].done
  <2> DEFINE agent == sessions[s].agents[a]
             cleared == [Cleared(agent) EXCEPT !.pending = 0]
  <2>1. AgentShape(s, a, agent)
    BY <1>1 DEF SessionShape
  <2>2. CutAgents(s)[a] = cleared
    BY DEF CutAgents
  <2>3. /\ AgentShape(s, a, cleared) /\ cleared.cached = {}
        /\ cleared.pending = 0 /\ cleared.steps = agent.steps
        /\ cleared.done = agent.done
    <3> HIDE DEF agent
    <3> QED BY <2>1, ClearShape
  <2> HIDE DEF cleared
  <2>4. cleared \in AgentStates
    BY <2>3 DEF AgentShape
  <2> QED BY <2>2, <2>3, <2>4
<1>3. CutAgents(s) \in [Agents -> AgentStates]
  BY <1>2 DEF CutAgents
<1>4. /\ cut \in SessionStates /\ cut.phase = phase
      /\ cut.agents = CutAgents(s) /\ cut.window = sessions[s].window
  BY <1>1, <1>3 DEF SessionStates, CutTo
<1> HIDE DEF cut
<1>5. SessionShape(s, cut)
  BY <1>1, <1>2, <1>4 DEF SessionShape
<1> QED BY <1>2, <1>4, <1>5 DEF cut

\* One live session is cut: its transitions are all that leaves the segments.
LEMMA CutOne ==
  ASSUME SessionsShape, NEW s \in Sessions, Live(s),
         sessions' = [r \in Sessions |-> IF r = s THEN Cut(s) ELSE sessions[r]]
  PROVE  /\ SessionsShape' /\ Trained(sessions') = Trained(sessions)
         /\ Windows(sessions)' = Windows(sessions)
         /\ \A r \in Sessions, a \in Agents : Steps(r, a)' = Steps(r, a)
         /\ CachedIn(sessions, Sessions)'
              = CachedIn(sessions, Sessions) \ CachedIn(sessions, {s})
<1>1. /\ SessionShape(s, Cut(s)) /\ Cut(s).phase = "ABORTED"
      /\ Cut(s).window = sessions[s].window
      /\ \A a \in Agents : /\ Cut(s).agents[a].cached = {}
                           /\ Cut(s).agents[a].steps = sessions[s].agents[a].steps
  <2>1. Cut(s) = CutTo(s, "ABORTED")
    BY DEF Cut, CutTo
  <2>2. "ABORTED" \in Phases /\ "ABORTED" # "TERMINAL"
    BY DEF Phases
  <2> QED BY <2>1, <2>2, CutSession
<1>2. /\ sessions'[s] = Cut(s)
      /\ \A r \in Sessions \ {s} : sessions'[r] = sessions[r]
  OBVIOUS
<1>3. sessions' \in [Sessions -> SessionStates]
  BY <1>1 DEF SessionsShape, SessionShape
<1>4. SessionsShape'
  BY <1>1, <1>2, <1>3 DEF SessionsShape
<1>5. Trained(sessions') = Trained(sessions)
  BY <1>1, <1>2 DEF Trained, Live
<1>6. Windows(sessions)' = Windows(sessions)
  BY <1>1, <1>2 DEF Windows
<1>7. \A r \in Sessions, a \in Agents : Steps(r, a)' = Steps(r, a)
  BY <1>1, <1>2 DEF Steps
<1>8. ASSUME NEW t
      PROVE  t \in CachedIn(sessions', Sessions) <=>
               /\ t \in CachedIn(sessions, Sessions)
               /\ t \notin CachedIn(sessions, {s})
  <2>1. t \in CachedIn(sessions', Sessions) <=>
          \E r \in Sessions \ {s}, a \in Agents : t \in sessions[r].agents[a].cached
    BY <1>1, <1>2, CachedInElements
  <2>2. t \in CachedIn(sessions, {s}) <=>
          \E a \in Agents : t \in sessions[s].agents[a].cached
    BY CachedInElements
  <2>3. t \in CachedIn(sessions, Sessions) <=>
          \E r \in Sessions, a \in Agents : t \in sessions[r].agents[a].cached
    BY CachedInElements
  <2>4. \A r \in Sessions, a \in Agents :
          t \in sessions[r].agents[a].cached => t.session = r
    BY DEF SessionsShape, SessionShape, AgentShape
  <2> QED BY <2>1, <2>2, <2>3, <2>4
<1>9. CachedIn(sessions, Sessions)'
        = CachedIn(sessions, Sessions) \ CachedIn(sessions, {s})
  BY <1>8 DEF CachedIn
<1> QED BY <1>4, <1>5, <1>6, <1>7, <1>9

\* Envelopes of transitions that have not been sent.
LEMMA EmitCount ==
  ASSUME Placed, BehaviorModelExact, NEW output,
         output \subseteq [transition : Transitions, model : Models],
         \A e \in output : e.model = e.transition.by,
         NEW T, IsFiniteSet(T),
         \A e \in output : e.transition \in T /\ e.transition \notin Sent
  PROVE  /\ IsFiniteSet(emitted \cup output)
         /\ emitted \cup output \subseteq [transition : Transitions, model : Models]
         /\ \A e \in emitted \cup output : e.model = e.transition.by
         /\ Cardinality(emitted \cup output)
              = Cardinality(emitted) + Cardinality(output)
         /\ Cardinality(output) \in Nat
         /\ {e.transition : e \in emitted \cup output}
              = Sent \cup {e.transition : e \in output}
<1>1. IsFiniteSet(output)
  BY EnvelopesFinite
<1>2. emitted \cap output = {}
  BY DEF Sent
<1>3. /\ IsFiniteSet(emitted \cup output)
      /\ Cardinality(emitted \cup output)
           = Cardinality(emitted) + Cardinality(output)
  BY <1>1, <1>2, DisjointCount DEF Placed
<1>4. Cardinality(output) \in Nat
  BY <1>1, FS_CardinalityType
<1>5. /\ emitted \cup output \subseteq [transition : Transitions, model : Models]
      /\ \A e \in emitted \cup output : e.model = e.transition.by
  BY DEF Placed, BehaviorModelExact
<1>6. {e.transition : e \in emitted \cup output}
        = Sent \cup {e.transition : e \in output}
  BY DEF Sent
<1> QED BY <1>3, <1>4, <1>5, <1>6

LEMMA CutPreserves ==
  ASSUME IInv, NEW s \in Sessions,
         AbortEpisode(s) \/ RecoverExpiredClientSession(s)
  PROVE  IInv'
<1> DEFINE output == CutOutput(s)
<1>1. /\ Live(s) /\ shutdown = "no"
      /\ sessions' = [sessions EXCEPT ![s] = Cut(s)] /\ Emit(output)
      /\ UNCHANGED <<model, state, ledger, quarantined, shutdownVars, discarded,
                     reported, reportedCount>>
  BY DEF AbortEpisode, RecoverExpiredClientSession, Live
<1>2. sessions' = [r \in Sessions |-> IF r = s THEN Cut(s) ELSE sessions[r]]
  BY <1>1 DEF IInv, SessionsShape
<1>3. /\ SessionsShape' /\ Trained(sessions') = Trained(sessions)
      /\ Windows(sessions)' = Windows(sessions)
      /\ \A r \in Sessions, a \in Agents : Steps(r, a)' = Steps(r, a)
      /\ CachedIn(sessions, Sessions)'
           = CachedIn(sessions, Sessions) \ CachedIn(sessions, {s})
  BY <1>1, <1>2, CutOne DEF IInv
<1>4. /\ output \subseteq [transition : Transitions, model : Models]
      /\ \A e \in output : e.model = e.transition.by
      /\ {e.transition : e \in output} = CachedIn(sessions, {s})
  <2>1. \A t : t \in CachedIn(sessions, {s}) <=>
          \E a \in Agents : t \in sessions[s].agents[a].cached
    BY CachedInElements
  <2>2. SessionsShape
    BY DEF IInv
  <2>3. /\ output \subseteq [transition : Transitions, model : Models]
        /\ \A e \in output :
             /\ e.model = e.transition.by
             /\ \E a \in Agents : e.transition \in sessions[s].agents[a].cached
        /\ \A a \in Agents : \A t \in sessions[s].agents[a].cached :
             [transition |-> t, model |-> t.by] \in output
    BY <2>2, CutOutputElements
  <2> HIDE DEF output
  <2>4. ASSUME NEW t \in CachedIn(sessions, {s})
        PROVE  \E e \in output : e.transition = t
    <3>1. [transition |-> t, model |-> t.by] \in output
      BY <2>1, <2>3
    <3>2. [transition |-> t, model |-> t.by].transition = t
      OBVIOUS
    <3> QED BY <3>1, <3>2
  <2>5. \A e \in output : e.transition \in CachedIn(sessions, {s})
    BY <2>1, <2>3
  <2> QED BY <2>3, <2>4, <2>5
<1> HIDE DEF output
<1>5. /\ Kept = CachedIn(sessions, Sessions)
      /\ Kept' = Kept \ CachedIn(sessions, {s})
      /\ CachedIn(sessions, {s}) \subseteq Kept
      /\ Kept \subseteq Made /\ Kept \cap Sent = {}
  <2>1. CachedIn(sessions, {s}) \subseteq CachedIn(sessions, Sessions)
    BY DEF CachedIn
  <2> QED BY <1>1, <1>3, <2>1 DEF Kept, IInv, Accounted, Placed, shutdownVars
<1>6. /\ IsFiniteSet(emitted') /\ BehaviorModelExact'
      /\ emitted' \subseteq [transition : Transitions, model : Models]
      /\ Cardinality(emitted') = Cardinality(emitted) + Cardinality(output)
      /\ Cardinality(output) \in Nat
      /\ Sent' = Sent \cup CachedIn(sessions, {s})
  <2>1. emitted' = emitted \cup output /\ IsFiniteSet(Made)
    BY <1>1 DEF Emit, IInv, Numbered
  <2>2. \A e \in output : e.transition \in Made /\ e.transition \notin Sent
    BY <1>4, <1>5
  <2> QED BY <1>4, <2>1, <2>2, EmitCount
          DEF IInv, Accounted, BehaviorModelExact, Sent
<1>7. Made' = Made /\ Rewarded'
  BY <1>1, <1>3 DEF Made, IInv, Accounted, Rewarded
<1>8. Numbered'
  BY <1>3, <1>7, NumberedFrame DEF IInv
<1>9. Placed'
  <2>1. Kept' \cup Sent' \cup discarded' = Made'
    BY <1>1, <1>5, <1>6, <1>7 DEF IInv, Accounted, Placed
  <2>2. /\ Kept' \cap Sent' = {} /\ Kept' \cap discarded' = {}
        /\ Sent' \cap discarded' = {}
    BY <1>1, <1>5, <1>6 DEF IInv, Accounted, Placed
  <2>3. shutdown' = "no" /\ produced' = Cardinality(emitted')
    BY <1>1, <1>6 DEF Emit, IInv, Accounted, Placed, shutdownVars
  <2> QED BY <1>1, <1>6, <2>1, <2>2, <2>3 DEF IInv, Accounted, Placed
<1>10. LossShape' /\ PlanShape'
  BY <1>1, <1>3 DEF IInv, LossShape, PlanShape, shutdownVars
<1>11. LedgerShape'
  <2>1. produced \in Nat /\ produced' = produced + Cardinality(output)
    BY <1>1 DEF Emit, IInv, LedgerShape
  <2>2. produced' \in Nat /\ produced <= produced' /\ ledger.produced \in Nat
    BY <1>6, <2>1 DEF IInv, LedgerShape
  <2>3. ledger.produced <= produced'
    BY <2>1, <2>2 DEF IInv, LedgerShape
  <2> QED BY <1>1, <1>3, <2>2, <2>3 DEF IInv, LedgerShape, shutdownVars
<1> QED BY <1>3, <1>6, <1>7, <1>8, <1>9, <1>10, <1>11 DEF IInv, Accounted

LEMMA RecoveryFailsPreserves ==
  ASSUME IInv, NEW s \in Sessions, RecoveryFails(s)
  PROVE  IInv'
<1> DEFINE lost == CachedIn(sessions, {s})
<1>1. /\ Live(s) /\ shutdown = "no" /\ Quarantine(lost) /\ state' = "DEGRADED"
      /\ sessions' = Discarded({s}, [r \in {s} |-> "ABORTED"])
      /\ UNCHANGED <<model, ledger, produced, shutdownVars, emitted, reported,
                     reportedCount>>
  BY DEF RecoveryFails
<1>2. sessions' = [r \in Sessions |-> IF r = s THEN Cut(s) ELSE sessions[r]]
  BY <1>1 DEF Discarded, Cut
<1>3. /\ SessionsShape' /\ Trained(sessions') = Trained(sessions)
      /\ Windows(sessions)' = Windows(sessions)
      /\ \A r \in Sessions, a \in Agents : Steps(r, a)' = Steps(r, a)
      /\ CachedIn(sessions, Sessions)' = CachedIn(sessions, Sessions) \ lost
  BY <1>1, <1>2, CutOne DEF IInv
<1>4. lost \subseteq CachedIn(sessions, Sessions)
  BY DEF CachedIn
<1> HIDE DEF lost
<1>5. /\ Kept = CachedIn(sessions, Sessions) /\ Kept' = Kept \ lost
      /\ lost \subseteq Kept /\ Kept \subseteq Made
      /\ Kept \cap discarded = {} /\ Sent' = Sent
  BY <1>1, <1>3, <1>4 DEF Kept, Sent, IInv, Accounted, Placed, shutdownVars
<1>6. /\ IsFiniteSet(lost) /\ IsFiniteSet(discarded)
  BY <1>5, FS_Subset DEF IInv, Numbered, Accounted, Placed
<1>7. Cardinality(discarded \cup lost) = Cardinality(discarded) + Cardinality(lost)
  BY <1>5, <1>6, DisjointCount
<1>8. Made' = Made /\ Rewarded'
  BY <1>1, <1>3 DEF Made, IInv, Accounted, Rewarded
<1>9. Numbered'
  BY <1>3, <1>8, NumberedFrame DEF IInv
<1>10. Placed'
  BY <1>1, <1>5, <1>7, <1>8 DEF IInv, Accounted, Placed, Quarantine, shutdownVars
<1>11. LossShape' /\ PlanShape' /\ BehaviorModelExact'
  BY <1>1, <1>3 DEF IInv, LossShape, PlanShape, BehaviorModelExact, shutdownVars
<1>12. LedgerShape'
  BY <1>1, <1>3 DEF IInv, LedgerShape, shutdownVars
<1> QED BY <1>3, <1>8, <1>9, <1>10, <1>11, <1>12 DEF IInv, Accounted

-----------------------------------------------------------------------------
\* The update of an episode.

\* What Update makes of an agent that is not done.
Closed(s, a, agent, terminal) ==
  LET acted == FinalizePendingTransition(s, a, agent)
  IN  IF Closes(acted, terminal) THEN Cleared(acted) ELSE acted
Updated(s, a, agent, terminal) ==
  IF terminal THEN [Closed(s, a, agent, terminal) EXCEPT !.done = TRUE]
  ELSE PrepareModelAction(Closed(s, a, agent, terminal))

\* A terminated agent had a pending action, so that its segment is closed.
LEMMA UpdatedShape ==
  ASSUME NEW s \in Sessions, NEW a \in Agents, NEW agent,
         AgentShape(s, a, agent), ~agent.done, model \in Models,
         NEW terminal \in BOOLEAN, terminal => agent.pending # 0
  PROVE  LET after == Updated(s, a, agent, terminal)
             acted == FinalizePendingTransition(s, a, agent)
         IN  /\ AgentShape(s, a, after)
             /\ after.steps = IF agent.pending = 0 THEN agent.steps
                              ELSE agent.steps + 1
             /\ Closes(acted, terminal) => after.cached = {}
             /\ ~Closes(acted, terminal) => after.cached = acted.cached
<1> DEFINE after == Updated(s, a, agent, terminal)
           acted == FinalizePendingTransition(s, a, agent)
           closed == Closed(s, a, agent, terminal)
<1>1. /\ AgentShape(s, a, acted) /\ acted.pending = 0 /\ ~acted.done
      /\ acted.open = agent.open
      /\ acted.cached = agent.cached \cup Finished(s, a, agent)
      /\ acted.steps = IF agent.pending = 0 THEN agent.steps
                       ELSE agent.steps + 1
  BY FinalizeShape
<1>2. terminal => Closes(acted, terminal)
  BY <1>1 DEF Closes, Finished, AgentShape
<1>3. closed = IF Closes(acted, terminal) THEN Cleared(acted) ELSE acted
  BY DEF Closed
<1>4. after = IF terminal THEN [closed EXCEPT !.done = TRUE]
              ELSE PrepareModelAction(closed)
  BY DEF Updated
<1> HIDE DEF acted, closed, after
<1>5. /\ AgentShape(s, a, closed) /\ closed.pending = 0 /\ ~closed.done
      /\ closed.steps = acted.steps
      /\ Closes(acted, terminal) => ~closed.open /\ closed.cached = {}
      /\ ~Closes(acted, terminal) => closed.cached = acted.cached
  <2>1. /\ AgentShape(s, a, Cleared(acted)) /\ Cleared(acted).cached = {}
        /\ Cleared(acted).pending = 0 /\ ~Cleared(acted).open
        /\ Cleared(acted).steps = acted.steps
        /\ Cleared(acted).done = acted.done
    BY <1>1, ClearedShape
  <2> QED BY <1>1, <1>3, <2>1
<1>6. CASE terminal
  <2>1. ~closed.open
    BY <1>2, <1>5, <1>6
  <2>2. /\ AgentShape(s, a, [closed EXCEPT !.done = TRUE])
        /\ [closed EXCEPT !.done = TRUE].cached = {}
        /\ [closed EXCEPT !.done = TRUE].steps = closed.steps
    BY <1>5, <2>1, DoneShape
  <2>3. after = [closed EXCEPT !.done = TRUE]
    BY <1>4, <1>6
  <2> QED BY <1>1, <1>2, <1>5, <1>6, <2>2, <2>3 DEF after, acted
<1>7. CASE ~terminal
  <2>1. /\ AgentShape(s, a, PrepareModelAction(closed))
        /\ PrepareModelAction(closed).cached = closed.cached
        /\ PrepareModelAction(closed).steps = closed.steps
    BY <1>5, PrepareShape
  <2>2. after = PrepareModelAction(closed)
    BY <1>4, <1>7
  <2> QED BY <1>1, <1>5, <2>1, <2>2 DEF after, acted
<1> QED BY <1>6, <1>7

\* Each agent makes at most the transition that is next.
LEMMA NumberedGrows ==
  ASSUME SessionsShape, Numbered, NEW New, New \subseteq Transitions,
         IsFiniteSet(New), Made' = Made \cup New,
         \A t \in New : /\ t.n = Steps(t.session, t.agent)
                        /\ Steps(t.session, t.agent)' = t.n + 1,
         \A t, u \in New : t.session = u.session /\ t.agent = u.agent => t = u,
         \A s \in Sessions, a \in Agents :
           \/ Steps(s, a)' = Steps(s, a)
           \/ /\ Steps(s, a)' = Steps(s, a) + 1
              /\ \E t \in New : t.session = s /\ t.agent = a
  PROVE  Numbered' /\ Made \cap New = {}
<1>1. \A s \in Sessions, a \in Agents : Steps(s, a) \in Nat
  BY DEF SessionsShape, SessionShape, AgentShape, AgentStates, Steps
<1>2. \A t \in Made \cup New :
        t.session \in Sessions /\ t.agent \in Agents /\ t.n \in Nat
  BY DEF Numbered, Transitions
<1>3. Made \cap New = {}
  BY <1>1, <1>2 DEF Numbered
<1>4. Made' \subseteq Transitions /\ IsFiniteSet(Made')
  BY <1>3, DisjointCount DEF Numbered
<1>5. ASSUME NEW s \in Sessions, NEW a \in Agents,
             NEW n \in 0 .. Steps(s, a)' - 1
      PROVE  \E t \in Made' : t.session = s /\ t.agent = a /\ t.n = n
  <2>1. CASE n \in 0 .. Steps(s, a) - 1
    BY <2>1 DEF Numbered
  <2>2. CASE n \notin 0 .. Steps(s, a) - 1
    <3>1. Steps(s, a)' = Steps(s, a) + 1 /\ n = Steps(s, a)
      BY <1>1, <2>2
    <3>2. PICK t \in New : t.session = s /\ t.agent = a
      BY <1>1, <3>1
    <3> QED BY <3>1, <3>2
  <2> QED BY <2>1, <2>2
<1>6. \A t \in Made' : t.n < Steps(t.session, t.agent)'
  <2>1. ASSUME NEW t \in Made PROVE t.n < Steps(t.session, t.agent)'
    BY <1>1, <1>2 DEF Numbered
  <2>2. ASSUME NEW t \in New PROVE t.n < Steps(t.session, t.agent)'
    BY <1>1, <1>2
  <2> QED BY <2>1, <2>2
<1>7. ASSUME NEW t \in Made', NEW u \in Made',
             t.session = u.session, t.agent = u.agent, t.n = u.n
      PROVE  t = u
  <2>1. \A x \in Made, y \in New :
          x.session = y.session /\ x.agent = y.agent => x.n # y.n
    BY <1>1, <1>2 DEF Numbered
  <2> QED BY <1>7, <2>1 DEF Numbered
<1> QED BY <1>3, <1>4, <1>5, <1>6, <1>7 DEF Numbered

\* Names for the parts of Update.
Active(s) == {a \in Agents : ~sessions[s].agents[a].done}
Acted(s, a) == FinalizePendingTransition(s, a, sessions[s].agents[a])
Closing(s, terminal) ==
  {a \in Active(s) : Closes(Acted(s, a), a \in terminal)}
After(s, terminal) ==
  [a \in Agents |->
     IF a \notin Active(s) THEN sessions[s].agents[a]
     ELSE Updated(s, a, sessions[s].agents[a], a \in terminal)]
New(s) == UNION {Finished(s, a, sessions[s].agents[a]) : a \in Active(s)}
Output(s, terminal) ==
  UNION {Envelopes(Acted(s, a)) : a \in Closing(s, terminal)}

LEMMA UpdateParts ==
  ASSUME NEW s \in Sessions, NEW terminal \in SUBSET Agents,
         Update(s, terminal)
  PROVE  /\ state = "READY" /\ sessions[s].phase = "RUNNING"
         /\ \A a \in terminal : /\ a \in Active(s)
                                /\ sessions[s].agents[a].pending # 0
         /\ sessions' = [sessions EXCEPT
              ![s].agents = After(s, terminal),
              ![s].window = sessions[s].window \cup New(s),
              ![s].phase = IF \A a \in Agents : After(s, terminal)[a].done
                           THEN "TERMINAL" ELSE "RUNNING"]
         /\ Emit(Output(s, terminal)) /\ Observe(produced')
         /\ UNCHANGED <<model, state, quarantined, shutdownVars, discarded,
                        reported, reportedCount>>
<1> DEFINE before == sessions[s].agents
           active == {a \in Agents : ~before[a].done}
           acted == [a \in active |-> FinalizePendingTransition(s, a, before[a])]
           closing == {a \in active : Closes(acted[a], a \in terminal)}
           closed == [a \in active |-> IF a \in closing THEN Cleared(acted[a])
                                       ELSE acted[a]]
           after == [a \in Agents |->
                  IF a \notin active THEN before[a]
                  ELSE IF a \in terminal THEN [closed[a] EXCEPT !.done = TRUE]
                  ELSE PrepareModelAction(closed[a])]
<1>1. active = Active(s)
  BY DEF Active
<1>2. \A a \in active : acted[a] = Acted(s, a)
  BY DEF Acted
<1>3. closing = Closing(s, terminal)
  BY <1>1, <1>2 DEF Closing
<1>4. \A a \in active : closed[a] = Closed(s, a, before[a], a \in terminal)
  BY <1>2 DEF Closed, Acted
<1>5. after = After(s, terminal)
  BY <1>1, <1>4 DEF After, Updated
<1>6. UNION {Envelopes(acted[a]) : a \in closing} = Output(s, terminal)
  BY <1>2, <1>3 DEF Output, Closing, Active
<1>7. UNION {Finished(s, a, before[a]) : a \in active} = New(s)
  BY <1>1 DEF New
<1>8. /\ CoreReady /\ sessions[s].phase = "RUNNING"
      /\ terminal \subseteq {a \in active : before[a].pending # 0}
      /\ sessions' = [sessions EXCEPT
           ![s].agents = after,
           ![s].window = sessions[s].window
                           \cup UNION {Finished(s, a, before[a]) : a \in active},
           ![s].phase = IF \A a \in Agents : after[a].done THEN "TERMINAL"
                        ELSE "RUNNING"]
      /\ Emit(UNION {Envelopes(acted[a]) : a \in closing})
      /\ Observe(produced')
      /\ UNCHANGED <<model, state, quarantined, shutdownVars, discarded,
                     reported, reportedCount>>
  BY DEF Update
<1> HIDE DEF before, active, acted, closing, closed, after
<1> QED BY <1>1, <1>5, <1>6, <1>7, <1>8 DEF CoreReady, before

\* Every agent of the session keeps its shape; what it had cached and the
\* transition it has made stay cached or leave with the output.
LEMMA UpdateAgents ==
  ASSUME SessionsShape, model \in Models, NEW s \in Sessions,
         NEW terminal \in SUBSET Agents,
         \A a \in terminal : /\ a \in Active(s)
                             /\ sessions[s].agents[a].pending # 0,
         NEW a \in Agents
  PROVE  LET agent == sessions[s].agents[a]
             fresh == IF a \in Active(s) THEN Finished(s, a, agent) ELSE {}
             after == After(s, terminal)[a]
         IN  /\ AgentShape(s, a, after)
             /\ after.steps = IF fresh = {} THEN agent.steps ELSE agent.steps + 1
             /\ a \in Closing(s, terminal) => after.cached = {}
             /\ a \notin Closing(s, terminal) =>
                  after.cached = agent.cached \cup fresh
             /\ a \in Active(s) =>
                  /\ AgentShape(s, a, Acted(s, a))
                  /\ Acted(s, a).cached = agent.cached \cup fresh
             /\ fresh \subseteq Transitions
             /\ \A t \in fresh : /\ t.session = s /\ t.agent = a
                                 /\ t.n = agent.steps
             /\ \A t, u \in fresh : t = u
<1> DEFINE agent == sessions[s].agents[a]
           fresh == IF a \in Active(s) THEN Finished(s, a, agent) ELSE {}
           after == After(s, terminal)[a]
<1>1. AgentShape(s, a, agent)
  BY DEF SessionsShape, SessionShape
<1>2. after = IF a \notin Active(s) THEN agent
              ELSE Updated(s, a, agent, a \in terminal)
  BY DEF After
<1>3. a \in Active(s) <=> ~agent.done
  BY DEF Active
<1>4. Acted(s, a) = FinalizePendingTransition(s, a, agent)
  BY DEF Acted
<1>5. a \in Closing(s, terminal) <=>
        a \in Active(s) /\ Closes(Acted(s, a), a \in terminal)
  BY DEF Closing
<1>6. /\ \A t \in Finished(s, a, agent) : /\ t.session = s /\ t.agent = a
                                          /\ t.n = agent.steps
      /\ \A t, u \in Finished(s, a, agent) : t = u
      /\ Finished(s, a, agent) = {} <=> agent.pending = 0
  <2> HIDE DEF agent
  <2>1. CASE agent.pending = 0
    BY <2>1 DEF Finished
  <2>2. CASE agent.pending # 0
    <3> DEFINE made == [session |-> s, agent |-> a, n |-> agent.steps,
                        by |-> agent.pending]
    <3>1. made.session = s /\ made.agent = a /\ made.n = agent.steps
      OBVIOUS
    <3>2. Finished(s, a, agent) = {made}
      BY <2>2 DEF Finished
    <3> HIDE DEF made
    <3> QED BY <2>2, <3>1, <3>2
  <2> QED BY <2>1, <2>2
<1>7. a \in terminal => agent.pending # 0
  OBVIOUS
<1> HIDE DEF agent, after
<1>8. CASE a \in Active(s)
  <2>1. fresh = Finished(s, a, agent)
    BY <1>8
  <2>2. /\ AgentShape(s, a, Acted(s, a))
        /\ Acted(s, a).cached = agent.cached \cup Finished(s, a, agent)
        /\ Finished(s, a, agent) \subseteq Transitions
    BY <1>1, <1>3, <1>4, <1>8, FinalizeShape
  <2>3. after = Updated(s, a, agent, a \in terminal)
    BY <1>2, <1>8
  <2>4. /\ AgentShape(s, a, after)
        /\ after.steps = IF agent.pending = 0 THEN agent.steps
                         ELSE agent.steps + 1
        /\ Closes(Acted(s, a), a \in terminal) => after.cached = {}
        /\ ~Closes(Acted(s, a), a \in terminal) =>
             after.cached = Acted(s, a).cached
    <3> DEFINE isTerminal == a \in terminal
    <3>1. isTerminal \in BOOLEAN /\ (isTerminal => agent.pending # 0)
      BY <1>7
    <3>2. after = Updated(s, a, agent, isTerminal)
      BY <2>3
    <3> HIDE DEF isTerminal
    <3>3. /\ AgentShape(s, a, after)
          /\ after.steps = IF agent.pending = 0 THEN agent.steps
                           ELSE agent.steps + 1
          /\ Closes(Acted(s, a), isTerminal) => after.cached = {}
          /\ ~Closes(Acted(s, a), isTerminal) =>
               after.cached = Acted(s, a).cached
      BY <1>1, <1>3, <1>4, <1>8, <3>1, <3>2, UpdatedShape
    <3> QED BY <3>3 DEF isTerminal
  <2> HIDE DEF fresh
  <2> QED BY <1>5, <1>6, <1>8, <2>1, <2>2, <2>4 DEF agent, after, fresh
<1>9. CASE a \notin Active(s)
  <2>1. fresh = {} /\ after = agent
    BY <1>2, <1>9
  <2>2. a \notin Closing(s, terminal) /\ agent.cached \cup {} = agent.cached
    BY <1>5, <1>9
  <2> HIDE DEF fresh
  <2> QED BY <1>1, <1>9, <2>1, <2>2 DEF agent, after, fresh
<1> QED BY <1>8, <1>9

\* The transitions an update makes: at most one of each agent, its next.
LEMMA UpdateNew ==
  ASSUME SessionsShape, model \in Models, NEW s \in Sessions,
         NEW terminal \in SUBSET Agents,
         \A a \in terminal : /\ a \in Active(s)
                             /\ sessions[s].agents[a].pending # 0
  PROVE  /\ New(s) \subseteq Transitions /\ IsFiniteSet(New(s))
         /\ \A t \in New(s) :
              /\ t.session = s /\ t.agent \in Agents
              /\ t.n = sessions[s].agents[t.agent].steps
              /\ After(s, terminal)[t.agent].steps = t.n + 1
         /\ \A t, u \in New(s) : t.agent = u.agent => t = u
         /\ \A a \in Agents :
              \/ After(s, terminal)[a].steps = sessions[s].agents[a].steps
              \/ /\ After(s, terminal)[a].steps = sessions[s].agents[a].steps + 1
                 /\ \E t \in New(s) : t.session = s /\ t.agent = a
<1> DEFINE fresh(a) == IF a \in Active(s)
                       THEN Finished(s, a, sessions[s].agents[a]) ELSE {}
<1>1. ASSUME NEW a \in Agents
      PROVE  /\ After(s, terminal)[a].steps =
                  IF fresh(a) = {} THEN sessions[s].agents[a].steps
                  ELSE sessions[s].agents[a].steps + 1
             /\ fresh(a) \subseteq Transitions
             /\ \A t \in fresh(a) : /\ t.session = s /\ t.agent = a
                                    /\ t.n = sessions[s].agents[a].steps
             /\ \A t, u \in fresh(a) : t = u
  BY UpdateAgents
<1>2. \A t : t \in New(s) <=> \E a \in Agents : t \in fresh(a)
  BY DEF New, Active
<1> HIDE DEF fresh
<1>3. New(s) \subseteq Transitions
  BY <1>1, <1>2
<1>4. \A t \in New(s) : /\ t.session = s /\ t.agent \in Agents
                        /\ t.n = sessions[s].agents[t.agent].steps
                        /\ t \in fresh(t.agent)
  BY <1>1, <1>2
<1>5. \A t \in New(s) : After(s, terminal)[t.agent].steps = t.n + 1
  BY <1>1, <1>4
<1>6. \A t, u \in New(s) : t.agent = u.agent => t = u
  BY <1>1, <1>4
<1>7. ASSUME NEW a \in Agents
      PROVE  \/ After(s, terminal)[a].steps = sessions[s].agents[a].steps
             \/ /\ After(s, terminal)[a].steps = sessions[s].agents[a].steps + 1
                /\ \E t \in New(s) : t.session = s /\ t.agent = a
  BY <1>1, <1>2
<1>8. IsFiniteSet(New(s))
  <2> DEFINE f == [t \in New(s) |-> t.agent]
  <2>1. f \in Injection(New(s), Agents)
    BY <1>4, <1>6 DEF Injection, IsInjective
  <2> HIDE DEF f
  <2> QED BY <2>1, FS_Injection, ConstantsAssumption
<1> QED BY <1>3, <1>4, <1>5, <1>6, <1>7, <1>8

\* What is cached afterwards is what was cached and what was made, without
\* what leaves in the output.
LEMMA UpdateMoves ==
  ASSUME SessionsShape, model \in Models, NEW s \in Sessions,
         NEW terminal \in SUBSET Agents,
         \A a \in terminal : /\ a \in Active(s)
                             /\ sessions[s].agents[a].pending # 0
  PROVE  LET left == {e.transition : e \in Output(s, terminal)}
             held == CachedIn(sessions, {s}) \cup New(s)
         IN  /\ Output(s, terminal) \subseteq
                  [transition : Transitions, model : Models]
             /\ \A e \in Output(s, terminal) : e.model = e.transition.by
             /\ left \subseteq held
             /\ \A t : (\E a \in Agents : t \in After(s, terminal)[a].cached)
                       <=> t \in held /\ t \notin left
<1> DEFINE fresh(a) == IF a \in Active(s)
                       THEN Finished(s, a, sessions[s].agents[a]) ELSE {}
           has(a) == sessions[s].agents[a].cached \cup fresh(a)
           left == {e.transition : e \in Output(s, terminal)}
           held == CachedIn(sessions, {s}) \cup New(s)
<1>1. ASSUME NEW a \in Agents
      PROVE  /\ a \in Closing(s, terminal) => After(s, terminal)[a].cached = {}
             /\ a \notin Closing(s, terminal) =>
                  After(s, terminal)[a].cached = has(a)
             /\ a \in Active(s) => /\ AgentShape(s, a, Acted(s, a))
                                   /\ Acted(s, a).cached = has(a)
             /\ \A t \in fresh(a) : t.agent = a
  BY UpdateAgents
<1>2. \A a \in Agents : \A t \in has(a) : t.agent = a
  <2>1. \A a \in Agents : \A t \in sessions[s].agents[a].cached : t.agent = a
    BY DEF SessionsShape, SessionShape, AgentShape
  <2> QED BY <1>1, <2>1
<1>3. \A t : t \in New(s) <=> \E a \in Agents : t \in fresh(a)
  BY DEF New, Active
<1>4. \A t : t \in CachedIn(sessions, {s}) <=>
        \E a \in Agents : t \in sessions[s].agents[a].cached
  BY CachedInElements
<1>5. \A t : t \in held <=> \E a \in Agents : t \in has(a)
  BY <1>3, <1>4
<1>6. Closing(s, terminal) \subseteq Active(s) /\ Active(s) \subseteq Agents
  BY DEF Closing, Active
<1> HIDE DEF fresh, has, held
<1>7. \A e \in Output(s, terminal) : \E a \in Closing(s, terminal) :
        \E t \in has(a) : e = [transition |-> t, model |-> Acted(s, a).pinned]
  BY <1>1, <1>6 DEF Output, Envelopes
<1>8. \A a \in Closing(s, terminal) : \A t \in has(a) :
        [transition |-> t, model |-> Acted(s, a).pinned] \in Output(s, terminal)
  BY <1>1, <1>6 DEF Output, Envelopes
<1>9. \A a \in Active(s) : \A t \in has(a) :
        t \in Transitions /\ t.by \in Models /\ t.by = Acted(s, a).pinned
  BY <1>1, <1>6 DEF AgentShape, AgentStates, Transitions
<1>10. /\ Output(s, terminal) \subseteq [transition : Transitions, model : Models]
       /\ \A e \in Output(s, terminal) : e.model = e.transition.by
  BY <1>6, <1>7, <1>9
<1>11. \A t : t \in left <=> \E a \in Closing(s, terminal) : t \in has(a)
  <2>1. ASSUME NEW e \in Output(s, terminal)
        PROVE  \E a \in Closing(s, terminal) : e.transition \in has(a)
    BY <1>7
  <2>2. ASSUME NEW a \in Closing(s, terminal), NEW t \in has(a)
        PROVE  t \in left
    <3> DEFINE e == [transition |-> t, model |-> Acted(s, a).pinned]
    <3>1. e \in Output(s, terminal) /\ e.transition = t
      BY <1>8
    <3> HIDE DEF e
    <3> QED BY <3>1
  <2> QED BY <2>1, <2>2
<1> HIDE DEF left
<1>12. left \subseteq held
  BY <1>5, <1>6, <1>11
<1>13. ASSUME NEW t
       PROVE  (\E a \in Agents : t \in After(s, terminal)[a].cached)
                <=> t \in held /\ t \notin left
  BY <1>1, <1>2, <1>5, <1>6, <1>11
<1> QED BY <1>10, <1>12, <1>13 DEF left, held

LEMMA UpdatePreserves ==
  ASSUME IInv, NEW s \in Sessions, NEW terminal \in SUBSET Agents,
         Update(s, terminal)
  PROVE  IInv'
<1> DEFINE after == After(s, terminal)
           output == Output(s, terminal)
           left == {e.transition : e \in output}
           held == CachedIn(sessions, {s}) \cup New(s)
           phase == IF \A a \in Agents : after[a].done THEN "TERMINAL"
                    ELSE "RUNNING"
<1>1. /\ state = "READY" /\ sessions[s].phase = "RUNNING"
      /\ \A a \in terminal : /\ a \in Active(s)
                             /\ sessions[s].agents[a].pending # 0
      /\ sessions' = [sessions EXCEPT ![s].agents = after,
                        ![s].window = sessions[s].window \cup New(s),
                        ![s].phase = phase]
      /\ Emit(output) /\ Observe(produced')
      /\ UNCHANGED <<model, state, quarantined, shutdownVars, discarded,
                     reported, reportedCount>>
  BY UpdateParts
<1>2. /\ SessionsShape /\ model \in Models /\ Numbered /\ Placed /\ Rewarded
      /\ shutdown = "no" /\ shutdown' = "no" /\ plan' = plan
      /\ \A a \in terminal : /\ a \in Active(s)
                             /\ sessions[s].agents[a].pending # 0
  BY <1>1 DEF IInv, LedgerShape, PlanShape, Accounted, shutdownVars
<1>3. /\ New(s) \subseteq Transitions /\ IsFiniteSet(New(s))
      /\ \A t \in New(s) :
           /\ t.session = s /\ t.agent \in Agents
           /\ t.n = sessions[s].agents[t.agent].steps
           /\ after[t.agent].steps = t.n + 1
      /\ \A t, u \in New(s) : t.agent = u.agent => t = u
      /\ \A a \in Agents :
           \/ after[a].steps = sessions[s].agents[a].steps
           \/ /\ after[a].steps = sessions[s].agents[a].steps + 1
              /\ \E t \in New(s) : t.session = s /\ t.agent = a
  <2>1. New(s) \subseteq Transitions /\ IsFiniteSet(New(s))
    BY <1>2, UpdateNew
  <2>2. \A t \in New(s) :
          /\ t.session = s /\ t.agent \in Agents
          /\ t.n = sessions[s].agents[t.agent].steps
          /\ after[t.agent].steps = t.n + 1
    BY <1>2, UpdateNew
  <2>3. \A t, u \in New(s) : t.agent = u.agent => t = u
    BY <1>2, UpdateNew
  <2>4. \A a \in Agents :
          \/ after[a].steps = sessions[s].agents[a].steps
          \/ /\ after[a].steps = sessions[s].agents[a].steps + 1
             /\ \E t \in New(s) : t.session = s /\ t.agent = a
    BY <1>2, UpdateNew
  <2> HIDE DEF after
  <2> QED BY <2>1, <2>2, <2>3, <2>4
<1>4. /\ output \subseteq [transition : Transitions, model : Models]
      /\ \A e \in output : e.model = e.transition.by
      /\ left \subseteq held
      /\ \A t : (\E a \in Agents : t \in after[a].cached)
                <=> t \in held /\ t \notin left
  BY <1>2, UpdateMoves
<1>5. \A a \in Agents : AgentShape(s, a, after[a])
  BY <1>2, UpdateAgents
<1>6. after \in [Agents -> AgentStates]
  BY <1>5 DEF After, AgentShape
<1> HIDE DEF after, output, left, held
<1>7. /\ sessions' \in [Sessions -> SessionStates]
      /\ sessions'[s].agents = after /\ sessions'[s].phase = phase
      /\ sessions'[s].window = sessions[s].window \cup New(s)
      /\ \A r \in Sessions \ {s} : sessions'[r] = sessions[r]
  <2>1. sessions \in [Sessions -> SessionStates] /\ phase \in Phases
    BY <1>2 DEF SessionsShape, Phases
  <2>2. sessions[s].window \cup New(s) \in SUBSET Transitions
    BY <1>3, <2>1 DEF SessionStates
  <2> HIDE DEF phase
  <2> QED BY <1>1, <1>6, <2>1, <2>2 DEF SessionStates
<1>8. SessionsShape'
  <2>1. phase = "TERMINAL" => \A a \in Agents : after[a].done
    OBVIOUS
  <2>2. phase # "RUNNING" => \A a \in Agents : /\ after[a].cached = {}
                                               /\ after[a].pending = 0
    BY <1>5, <2>1 DEF AgentShape, Settled
  <2>3. \A t \in sessions[s].window \cup New(s) : t.session = s
    BY <1>2, <1>3 DEF SessionsShape, SessionShape
  <2> HIDE DEF phase
  <2>4. SessionShape(s, sessions'[s])
    BY <1>5, <1>7, <2>1, <2>2, <2>3 DEF SessionShape
  <2> QED BY <1>2, <1>7, <2>4 DEF SessionsShape
<1>9. Trained(sessions') = Trained(sessions)
  <2>1. phase \in {"TERMINAL", "RUNNING"}
    OBVIOUS
  <2> HIDE DEF phase
  <2> QED BY <1>1, <1>7, <2>1 DEF Trained
<1> HIDE DEF phase
<1>10. Windows(sessions)' = Windows(sessions) \cup New(s)
  <2>1. ASSUME NEW t
        PROVE  t \in Windows(sessions') <=> t \in Windows(sessions) \cup New(s)
    BY <1>7, WindowsElements
  <2> QED BY <2>1 DEF Windows
<1>11. Made' = Made \cup New(s)
  BY <1>1, <1>10 DEF Made
<1>12. Numbered' /\ Made \cap New(s) = {}
  <2>1. /\ \A a \in Agents : Steps(s, a)' = after[a].steps
        /\ \A r \in Sessions \ {s}, a \in Agents : Steps(r, a)' = Steps(r, a)
    BY <1>7 DEF Steps
  <2>2. \A t \in New(s) : /\ t.n = Steps(t.session, t.agent)
                          /\ Steps(t.session, t.agent)' = t.n + 1
    <3>1. \A t \in New(s) : /\ t.n = Steps(s, t.agent)
                            /\ Steps(s, t.agent)' = t.n + 1
      BY <1>3, <2>1 DEF Steps
    <3> QED BY <1>3, <3>1
  <2>3. \A r \in Sessions, a \in Agents :
          \/ Steps(r, a)' = Steps(r, a)
          \/ /\ Steps(r, a)' = Steps(r, a) + 1
             /\ \E t \in New(s) : t.session = r /\ t.agent = a
    <3>1. \A a \in Agents : \/ Steps(s, a)' = Steps(s, a)
                            \/ /\ Steps(s, a)' = Steps(s, a) + 1
                               /\ \E t \in New(s) : t.session = s /\ t.agent = a
      BY <1>3, <2>1 DEF Steps
    <3> QED BY <2>1, <3>1
  <2> QED BY <1>2, <1>3, <1>11, <2>2, <2>3, NumberedGrows
<1>13. Rewarded'
  BY <1>1, <1>2, <1>10, <1>12 DEF Rewarded, Made
<1>14. Kept' = (Kept \cup New(s)) \ left /\ left \subseteq Kept \cup New(s)
  <2>1. ASSUME NEW t
        PROVE  t \in CachedIn(sessions', Sessions) <=>
                 t \in CachedIn(sessions, Sessions) \cup New(s) /\ t \notin left
    <3>1. t \in CachedIn(sessions', Sessions) <=>
            \/ \E r \in Sessions \ {s}, a \in Agents :
                 t \in sessions[r].agents[a].cached
            \/ \E a \in Agents : t \in after[a].cached
      BY <1>7, CachedInElements
    <3>2. t \in CachedIn(sessions, Sessions) <=>
            \/ \E r \in Sessions \ {s}, a \in Agents :
                 t \in sessions[r].agents[a].cached
            \/ t \in CachedIn(sessions, {s})
      BY CachedInElements
    <3>3. ASSUME NEW r \in Sessions \ {s}, NEW a \in Agents,
                 t \in sessions[r].agents[a].cached
          PROVE  t \notin held
      <4>1. t.session = r
        BY <1>2, <3>3 DEF SessionsShape, SessionShape, AgentShape
      <4>2. \A u \in CachedIn(sessions, {s}) : u.session = s
        BY <1>2, CachedInElements DEF SessionsShape, SessionShape, AgentShape
      <4> QED BY <1>3, <4>1, <4>2 DEF held
    <3> QED BY <1>4, <3>1, <3>2, <3>3 DEF held
  <2>2. CachedIn(sessions, {s}) \subseteq CachedIn(sessions, Sessions)
    BY DEF CachedIn
  <2> QED BY <1>2, <1>4, <2>1, <2>2 DEF Kept, CachedIn, held
<1>15. /\ IsFiniteSet(emitted') /\ BehaviorModelExact'
       /\ emitted' \subseteq [transition : Transitions, model : Models]
       /\ Cardinality(emitted') = Cardinality(emitted) + Cardinality(output)
       /\ Cardinality(output) \in Nat
       /\ Sent' = Sent \cup left
  <2>1. emitted' = emitted \cup output /\ BehaviorModelExact
    BY <1>1 DEF Emit, IInv
  <2>2. IsFiniteSet(Made')
    BY <1>12 DEF Numbered
  <2>3. \A e \in output : e.transition \in Made' /\ e.transition \notin Sent
    BY <1>2, <1>11, <1>12, <1>14 DEF Placed, left
  <2>4. /\ IsFiniteSet(emitted \cup output)
        /\ emitted \cup output \subseteq [transition : Transitions, model : Models]
        /\ \A e \in emitted \cup output : e.model = e.transition.by
        /\ Cardinality(emitted \cup output)
             = Cardinality(emitted) + Cardinality(output)
        /\ Cardinality(output) \in Nat
        /\ {e.transition : e \in emitted \cup output} = Sent \cup left
    BY <1>2, <1>4, <2>1, <2>2, <2>3, EmitCount DEF left
  <2> QED BY <2>1, <2>4 DEF BehaviorModelExact, Sent
<1>16. Placed'
  <2>1. Kept \cup Sent \cup discarded = Made /\ discarded' = discarded
    BY <1>1, <1>2 DEF Placed
  <2>2. Kept' \cup Sent' \cup discarded' = Made'
    BY <1>11, <1>14, <1>15, <2>1
  <2>3. /\ Kept' \cap Sent' = {} /\ Kept' \cap discarded' = {}
        /\ Sent' \cap discarded' = {}
    BY <1>2, <1>12, <1>14, <1>15, <2>1 DEF Placed
  <2>4. produced' = Cardinality(emitted')
    BY <1>1, <1>2, <1>15 DEF Emit, Placed
  <2> QED BY <1>1, <1>2, <1>15, <2>2, <2>3, <2>4 DEF Placed
<1>17. LossShape' /\ PlanShape'
  BY <1>1, <1>2 DEF IInv, LossShape, PlanShape, shutdownVars
<1>18. LedgerShape'
  <2>1. /\ ledger' = [ledger EXCEPT !.produced = produced', !.model = model]
        /\ model' = model /\ ledger.initialized
    BY <1>1 DEF Observe
  <2>2. /\ ledger \in [initialized : BOOLEAN, produced : Nat, model : 0..MaxModel]
        /\ produced \in Nat
    BY DEF IInv, LedgerShape
  <2>3. produced' \in Nat /\ produced' <= produced'
    BY <1>1, <1>15, <2>2 DEF Emit
  <2>4. model \in 0..MaxModel /\ model <= model
    BY <1>2, ConstantsAssumption DEF Models
  <2>5. /\ ledger' \in [initialized : BOOLEAN, produced : Nat,
                         model : 0..MaxModel]
        /\ ledger'.produced = produced' /\ ledger'.model = model
        /\ ledger'.initialized
    BY <2>1, <2>2, <2>3, <2>4
  <2>6. AtMostOne(Trained(sessions'))
    BY <1>9 DEF IInv, LedgerShape
  <2> QED BY <1>2, <2>1, <2>3, <2>4, <2>5, <2>6 DEF LedgerShape
<1> QED BY <1>8, <1>12, <1>13, <1>15, <1>16, <1>17, <1>18 DEF IInv, Accounted

-----------------------------------------------------------------------------
\* The shutdown.

\* The candidate sessions hold nothing and count the same transitions.
LEMMA PlanSessions ==
  ASSUME SessionsShape, NEW s \in Sessions
  PROVE  LET candidate == Plan.sessions[s]
         IN  /\ SessionShape(s, candidate)
             /\ candidate.window = sessions[s].window
             /\ \A a \in Agents :
                  /\ candidate.agents[a].steps = sessions[s].agents[a].steps
                  /\ candidate.agents[a].cached = {}
             /\ candidate.phase = IF Live(s) THEN "ABORTED" ELSE sessions[s].phase
<1> DEFINE phase == IF Live(s) THEN "ABORTED" ELSE sessions[s].phase
<1>1. sessions[s] \in SessionStates
  BY DEF SessionsShape
<1>2. phase \in Phases /\ (phase = "TERMINAL" => sessions[s].phase = "TERMINAL")
  BY <1>1 DEF Phases, SessionStates
<1>3. Plan.sessions[s] =
        [sessions[s] EXCEPT !.agents = CutAgents(s), !.phase = phase]
  BY DEF Plan
<1> HIDE DEF phase
<1>4. Plan.sessions[s] = CutTo(s, phase)
  BY <1>1, <1>3 DEF CutTo, SessionStates
<1>5. /\ SessionShape(s, CutTo(s, phase)) /\ CutTo(s, phase).phase = phase
      /\ CutTo(s, phase).window = sessions[s].window
      /\ \A a \in Agents :
           /\ CutTo(s, phase).agents[a].cached = {}
           /\ CutTo(s, phase).agents[a].steps = sessions[s].agents[a].steps
  BY <1>2, CutSession
<1> QED BY <1>4, <1>5 DEF phase

LEMMA BeginShutdownPreserves ==
  ASSUME IInv, BeginShutdown
  PROVE  IInv'
<1>1. /\ shutdown = "no" /\ shutdown' = "closing" /\ state' = "DRAINING"
      /\ faultBefore' = (state = "DEGRADED")
      /\ UNCHANGED <<sessions, model, ledger, produced, quarantined, succeeded,
                     emitted, discarded, reported, reportedCount>>
  BY DEF BeginShutdown, historyVars
<1>2. /\ plan'.sessions = Plan.sessions
      /\ plan'.output = UNION {CutOutput(s) : s \in Sessions}
  <2>1. plan' = Plan \/ plan' = [Plan EXCEPT !.ok = FALSE]
    BY DEF BeginShutdown
  <2>2. [Plan EXCEPT !.ok = FALSE].sessions = Plan.sessions
    BY DEF Plan
  <2>3. [Plan EXCEPT !.ok = FALSE].output = Plan.output
    BY DEF Plan
  <2>4. Plan.output = UNION {CutOutput(s) : s \in Sessions}
    BY DEF Plan
  <2> QED BY <2>1, <2>2, <2>3, <2>4
<1>3. SessionsShape /\ SessionsShape'
  BY <1>1 DEF IInv, SessionsShape
<1>4. \A s \in Sessions : CutOutput(s)' = CutOutput(s)
  BY <1>1 DEF CutOutput
<1>5. PlanShape'
  <2>1. plan'.output = UNION {CutOutput(s)' : s \in Sessions}
    BY <1>2, <1>4
  <2>2. \A s \in Sessions :
          /\ SessionShape(s, plan'.sessions[s])
          /\ plan'.sessions[s].window = sessions'[s].window
          /\ \A a \in Agents :
               /\ plan'.sessions[s].agents[a].steps = sessions'[s].agents[a].steps
               /\ plan'.sessions[s].agents[a].cached = {}
    BY <1>1, <1>2, <1>3, PlanSessions
  <2> QED BY <1>1, <2>1, <2>2 DEF PlanShape
<1>6. Trained(plan'.sessions) = Trained(sessions)
  <2>1. \A s \in Sessions :
          plan'.sessions[s].phase = IF Live(s) THEN "ABORTED"
                                    ELSE sessions[s].phase
    BY <1>2, <1>3, PlanSessions
  <2> QED BY <2>1 DEF Trained, Live
<1>7. LedgerShape'
  BY <1>1, <1>6 DEF IInv, LedgerShape
<1>8. Made' = Made /\ Kept' = Kept /\ Sent' = Sent
  BY <1>1 DEF Made, Kept, Sent, Windows, CachedIn
<1>9. Numbered' /\ Accounted' /\ BehaviorModelExact'
  BY <1>1, <1>8, NumberedFrame
     DEF IInv, Accounted, Placed, Rewarded, BehaviorModelExact, Steps
<1>10. LossShape'
  BY <1>1 DEF IInv, LossShape
<1> QED BY <1>3, <1>5, <1>7, <1>9, <1>10 DEF IInv

\* The planned set is what the segments hold, and all of it leaves.
LEMMA ShutdownAdmittedPreserves ==
  ASSUME IInv, ShutdownAdmitted
  PROVE  IInv'
<1> DEFINE output == plan.output
           held == CachedIn(sessions, Sessions)
<1>1. /\ shutdown = "closing" /\ shutdown' = "admitted"
      /\ emitted' = emitted \cup output
      /\ UNCHANGED <<sessions, model, state, ledger, produced, quarantined, plan,
                     faultBefore, succeeded, discarded, reported, reportedCount>>
  BY DEF ShutdownAdmitted
<1>2. SessionsShape /\ SessionsShape' /\ Placed /\ Numbered /\ BehaviorModelExact
  BY <1>1 DEF IInv, SessionsShape, Accounted
<1>3. output = UNION {CutOutput(s) : s \in Sessions}
  BY <1>1 DEF IInv, PlanShape
<1>4. /\ output \subseteq [transition : Transitions, model : Models]
      /\ \A e \in output : e.model = e.transition.by
      /\ {e.transition : e \in output} = held
  <2>1. \A t : t \in held <=>
          \E s \in Sessions, a \in Agents : t \in sessions[s].agents[a].cached
    BY CachedInElements
  <2> HIDE DEF output, held
  <2>2. ASSUME NEW e \in output
        PROVE  /\ e \in [transition : Transitions, model : Models]
               /\ e.model = e.transition.by /\ e.transition \in held
    <3>1. PICK s \in Sessions : e \in CutOutput(s)
      BY <1>3
    <3>2. /\ e \in [transition : Transitions, model : Models]
          /\ e.model = e.transition.by
          /\ \E a \in Agents : e.transition \in sessions[s].agents[a].cached
      BY <1>2, <3>1, CutOutputElements
    <3> QED BY <2>1, <3>2
  <2>3. ASSUME NEW t \in held PROVE \E e \in output : e.transition = t
    <3> DEFINE e == [transition |-> t, model |-> t.by]
    <3>1. PICK s \in Sessions, a \in Agents : t \in sessions[s].agents[a].cached
      BY <2>1
    <3>2. e \in CutOutput(s)
      BY <1>2, <3>1, CutOutputElements
    <3>3. e \in output /\ e.transition = t
      BY <1>3, <3>2
    <3> HIDE DEF e
    <3> QED BY <3>3
  <2> QED BY <2>2, <2>3
<1>5. Kept = held /\ Kept' = {}
  <2>1. \A s \in Sessions, a \in Agents : plan.sessions[s].agents[a].cached = {}
    BY <1>1 DEF IInv, PlanShape
  <2>2. CachedIn(plan.sessions, Sessions) = {}
    BY <2>1, CachedInElements
  <2> QED BY <1>1, <2>2 DEF Kept, CachedIn
<1> HIDE DEF output, held
<1>6. /\ IsFiniteSet(emitted') /\ BehaviorModelExact'
      /\ emitted' \subseteq [transition : Transitions, model : Models]
      /\ Cardinality(emitted') = Cardinality(emitted) + Cardinality(output)
      /\ Sent' = Sent \cup held
  <2>1. \A e \in output : e.transition \in Made /\ e.transition \notin Sent
    BY <1>2, <1>4, <1>5 DEF Placed
  <2>2. IsFiniteSet(Made)
    BY <1>2 DEF Numbered
  <2>3. /\ IsFiniteSet(emitted \cup output)
        /\ emitted \cup output \subseteq [transition : Transitions, model : Models]
        /\ \A e \in emitted \cup output : e.model = e.transition.by
        /\ Cardinality(emitted \cup output)
             = Cardinality(emitted) + Cardinality(output)
        /\ {e.transition : e \in emitted \cup output}
             = Sent \cup {e.transition : e \in output}
    BY <1>2, <1>4, <2>1, <2>2, EmitCount
  <2> QED BY <1>1, <1>4, <2>3 DEF BehaviorModelExact, Sent
<1>7. Made' = Made /\ Rewarded' /\ Numbered'
  <2>1. Made' = Made /\ Rewarded'
    BY <1>1 DEF Made, Windows, IInv, Accounted, Rewarded
  <2> QED BY <1>1, <1>2, <2>1, NumberedFrame DEF Steps
<1>8. Placed'
  <2>1. /\ Kept' \cup Sent' \cup discarded' = Made'
        /\ Kept' \cap Sent' = {} /\ Kept' \cap discarded' = {}
        /\ Sent' \cap discarded' = {}
    BY <1>1, <1>2, <1>5, <1>6, <1>7 DEF Placed
  <2>2. produced' + Cardinality(plan'.output) = Cardinality(emitted')
    BY <1>1, <1>2, <1>6 DEF Placed, output
  <2>3. plan'.output \subseteq emitted'
    BY <1>1 DEF output
  <2> QED BY <1>1, <1>2, <1>6, <2>1, <2>2, <2>3 DEF Placed
<1>9. LossShape'
  BY <1>1 DEF IInv, LossShape
<1>10. PlanShape'
  <2>1. \A s \in Sessions : CutOutput(s)' = CutOutput(s)
    BY <1>1 DEF CutOutput
  <2> QED BY <1>1, <2>1 DEF IInv, PlanShape
<1>11. LedgerShape'
  BY <1>1 DEF IInv, LedgerShape
<1> QED BY <1>2, <1>6, <1>7, <1>8, <1>9, <1>10, <1>11 DEF IInv, Accounted

\* The candidates are written back, and the rewards that are left reported.
LEMMA ShutdownCommitsPreserves ==
  ASSUME IInv, ShutdownCommits
  PROVE  IInv'
<1>1. /\ shutdown = "admitted" /\ shutdown' = "settling"
      /\ sessions' = Flushed(plan.sessions)
      /\ produced' = produced + Cardinality(plan.output)
      /\ ReportAll(plan.sessions)
      /\ UNCHANGED <<model, state, ledger, quarantined, plan, faultBefore,
                     succeeded, emitted, discarded>>
  BY DEF ShutdownCommits
<1>2. \A s \in Sessions :
        /\ SessionShape(s, plan.sessions[s])
        /\ plan.sessions[s] \in SessionStates
        /\ plan.sessions[s].window = sessions[s].window
        /\ \A a \in Agents :
             /\ plan.sessions[s].agents[a].steps = sessions[s].agents[a].steps
             /\ plan.sessions[s].agents[a].cached = {}
  BY <1>1 DEF IInv, PlanShape, SessionShape
<1>3. ASSUME NEW s \in Sessions
      PROVE  /\ sessions'[s] \in SessionStates
             /\ sessions'[s].phase = plan.sessions[s].phase
             /\ sessions'[s].agents = plan.sessions[s].agents
             /\ sessions'[s].window = {}
  BY <1>1, <1>2 DEF Flushed, SessionStates
<1>4. sessions' \in [Sessions -> SessionStates]
  BY <1>1, <1>3 DEF Flushed
<1>5. \A s \in Sessions : SessionShape(s, sessions'[s])
  BY <1>2, <1>3 DEF SessionShape
<1>6. SessionsShape'
  BY <1>4, <1>5 DEF SessionsShape
<1>7. Windows(plan.sessions) = Windows(sessions) /\ Windows(sessions)' = {}
  <2>1. Windows(sessions') = {}
    BY <1>3, WindowsElements
  <2> QED BY <1>2, <2>1 DEF Windows
<1>8. Made' = Made /\ Rewarded'
  <2>1. /\ Windows(sessions)' = Windows(sessions) \ Windows(sessions)
        /\ reported' = reported \cup Windows(sessions)
        /\ reportedCount' = reportedCount + Cardinality(Windows(sessions))
    BY <1>1, <1>7 DEF ReportAll
  <2> QED BY <2>1, RewardMoves DEF IInv, Accounted
<1>9. Numbered'
  BY <1>2, <1>3, <1>8, NumberedFrame DEF IInv, Steps
<1>10. Kept = {} /\ Kept' = {} /\ Sent' = Sent
  <2>1. CachedIn(plan.sessions, Sessions) = {}
    BY <1>2, CachedInElements
  <2>2. CachedIn(sessions', Sessions) = {}
    BY <1>2, <1>3, CachedInElements
  <2> QED BY <1>1, <2>1, <2>2 DEF Kept, Sent, CachedIn
<1>11. Placed'
  BY <1>1, <1>8, <1>10 DEF IInv, Accounted, Placed
<1>12. LossShape' /\ PlanShape' /\ BehaviorModelExact'
  BY <1>1, <1>7 DEF IInv, LossShape, PlanShape, BehaviorModelExact
<1>13. LedgerShape'
  <2>1. Trained(sessions') = Trained(plan.sessions)
    BY <1>3 DEF Trained
  <2>2. Cardinality(plan.output) \in Nat
    <3>1. plan.output \subseteq emitted
      BY <1>1 DEF IInv, Accounted, Placed
    <3> QED BY <3>1, FS_Subset, FS_CardinalityType DEF IInv, Accounted, Placed
  <2>3. /\ produced \in Nat /\ ledger.produced \in Nat
        /\ ledger.produced <= produced
    BY DEF IInv, LedgerShape
  <2>4. produced' \in Nat /\ ledger.produced <= produced'
    BY <1>1, <2>2, <2>3
  <2>5. /\ AtMostOne(Trained(sessions'))
        /\ ~ledger.initialized => Trained(sessions') = {}
    BY <1>1, <2>1 DEF IInv, LedgerShape
  <2>6. /\ ledger \in [initialized : BOOLEAN, produced : Nat, model : 0..MaxModel]
        /\ model \in Models /\ ledger.model <= model
    BY DEF IInv, LedgerShape
  <2> QED BY <1>1, <2>4, <2>5, <2>6 DEF LedgerShape
<1> QED BY <1>6, <1>8, <1>9, <1>11, <1>12, <1>13 DEF IInv, Accounted

\* Everything the segments hold is discarded, and counted.
LEMMA ShutdownQuarantinesPreserves ==
  ASSUME IInv, ShutdownQuarantines
  PROVE  IInv'
<1> DEFINE lost == CachedIn(sessions, Sessions)
           candidates == Discarded(Sessions, [s \in Sessions |-> sessions[s].phase])
<1>1. /\ shutdown = "closing" /\ shutdown' = "settling"
      /\ plan' = [plan EXCEPT !.ok = FALSE]
      /\ sessions' = Flushed(candidates)
      /\ Quarantine(lost) /\ ReportAll(sessions)
      /\ UNCHANGED <<model, state, ledger, produced, faultBefore, succeeded,
                     emitted>>
  BY DEF ShutdownQuarantines
<1>2. SessionsShape /\ sessions \in [Sessions -> SessionStates]
  BY DEF IInv, SessionsShape
<1>3. ASSUME NEW s \in Sessions
      PROVE  /\ SessionShape(s, candidates[s]) /\ candidates[s] \in SessionStates
             /\ candidates[s].phase = sessions[s].phase
             /\ \A a \in Agents :
                  /\ candidates[s].agents[a].cached = {}
                  /\ candidates[s].agents[a].steps = sessions[s].agents[a].steps
  <2>1. candidates[s] = CutTo(s, sessions[s].phase)
    BY DEF Discarded, CutTo
  <2>2. sessions[s].phase \in Phases
    BY <1>2 DEF SessionStates
  <2>3. /\ SessionShape(s, CutTo(s, sessions[s].phase))
        /\ CutTo(s, sessions[s].phase).phase = sessions[s].phase
        /\ \A a \in Agents :
             /\ CutTo(s, sessions[s].phase).agents[a].cached = {}
             /\ CutTo(s, sessions[s].phase).agents[a].steps
                  = sessions[s].agents[a].steps
    BY <1>2, <2>2, CutSession
  <2> HIDE DEF candidates
  <2> QED BY <2>1, <2>3 DEF SessionShape
<1> HIDE DEF lost, candidates
<1>4. ASSUME NEW s \in Sessions
      PROVE  /\ sessions'[s] \in SessionStates
             /\ sessions'[s].phase = sessions[s].phase
             /\ sessions'[s].agents = candidates[s].agents
             /\ sessions'[s].window = {}
  BY <1>1, <1>3 DEF Flushed, SessionStates
<1>5. sessions' \in [Sessions -> SessionStates]
  BY <1>1, <1>4 DEF Flushed
<1>6. \A s \in Sessions : SessionShape(s, sessions'[s])
  BY <1>3, <1>4 DEF SessionShape
<1>7. SessionsShape' /\ Trained(sessions') = Trained(sessions)
  BY <1>4, <1>5, <1>6 DEF SessionsShape, Trained
<1>8. Windows(sessions)' = {}
  <2>1. Windows(sessions') = {}
    BY <1>4, WindowsElements
  <2> QED BY <2>1 DEF Windows
<1>9. Made' = Made /\ Rewarded'
  <2>1. /\ Windows(sessions)' = Windows(sessions) \ Windows(sessions)
        /\ reported' = reported \cup Windows(sessions)
        /\ reportedCount' = reportedCount + Cardinality(Windows(sessions))
    BY <1>1, <1>8 DEF ReportAll
  <2> QED BY <2>1, RewardMoves DEF IInv, Accounted
<1>10. Numbered'
  BY <1>3, <1>4, <1>9, NumberedFrame DEF IInv, Steps
<1>11. /\ Kept = lost /\ Kept' = {} /\ Sent' = Sent
       /\ lost \subseteq Made /\ lost \cap discarded = {} /\ discarded \subseteq Made
  <2>1. CachedIn(sessions', Sessions) = {}
    BY <1>3, <1>4, CachedInElements
  <2>2. Kept = lost /\ Kept' = {} /\ Sent' = Sent
    BY <1>1, <2>1 DEF Kept, Sent, CachedIn, lost
  <2> QED BY <2>2 DEF IInv, Accounted, Placed
<1>12. Cardinality(discarded \cup lost) = Cardinality(discarded) + Cardinality(lost)
  <2>1. IsFiniteSet(lost) /\ IsFiniteSet(discarded)
    BY <1>11, FS_Subset DEF IInv, Numbered
  <2> QED BY <1>11, <2>1, DisjointCount
<1>13. Placed'
  BY <1>1, <1>9, <1>11, <1>12 DEF IInv, Accounted, Placed, Quarantine
<1>14. PlanShape' /\ BehaviorModelExact'
  BY <1>1 DEF IInv, PlanShape, BehaviorModelExact
<1>15. LossShape'
  BY <1>1, <1>8 DEF IInv, LossShape
<1>16. LedgerShape'
  BY <1>1, <1>7 DEF IInv, LedgerShape
<1> QED BY <1>7, <1>9, <1>10, <1>13, <1>14, <1>15, <1>16 DEF IInv, Accounted

LEMMA ShutdownEndsPreserves ==
  ASSUME IInv, ShutdownEnds
  PROVE  IInv'
<1>1. /\ shutdown = "settling" /\ shutdown' = "done"
      /\ succeeded' \in {FALSE, MaySucceed} /\ state' # "READY"
      /\ UNCHANGED <<sessions, model, ledger, produced, quarantined, plan,
                     faultBefore, emitted, discarded, reported, reportedCount>>
  BY DEF ShutdownEnds, historyVars
<1>2. SessionsShape' /\ LedgerShape' /\ PlanShape' /\ BehaviorModelExact'
  BY <1>1 DEF IInv, SessionsShape, LedgerShape, PlanShape, BehaviorModelExact
<1>3. Made' = Made /\ Kept' = Kept /\ Sent' = Sent
  BY <1>1 DEF Made, Kept, Sent, Windows, CachedIn
<1>4. Numbered' /\ Accounted'
  BY <1>1, <1>3, NumberedFrame DEF IInv, Accounted, Placed, Rewarded, Steps
<1>5. LossShape'
  BY <1>1 DEF IInv, LossShape, MaySucceed
<1> QED BY <1>2, <1>4, <1>5 DEF IInv

-----------------------------------------------------------------------------
\* The invariant holds.

LEMMA InitHolds == Init => IInv
<1> SUFFICES ASSUME Init PROVE IInv
  OBVIOUS
<1> USE DEF Init
<1>1. NoSegment \in AgentStates /\ NoSegment.cached = {} /\ NoSegment.pending = 0
      /\ NoSegment.open = FALSE /\ NoSegment.done = FALSE
      /\ NoSegment.pinned = 0 /\ NoSegment.steps = 0
  BY ConstantsAssumption DEF NoSegment, AgentStates
<1>2. ASSUME NEW s \in Sessions
      PROVE  /\ sessions[s] \in SessionStates
             /\ sessions[s].phase = "NONE" /\ sessions[s].window = {}
             /\ \A a \in Agents : sessions[s].agents[a] = NoSegment
  <2>1. [a \in Agents |-> NoSegment] \in [Agents -> AgentStates]
    BY <1>1
  <2>2. sessions[s] = [phase |-> "NONE", window |-> {},
                       agents |-> [a \in Agents |-> NoSegment]]
    OBVIOUS
  <2> DEFINE agents == [a \in Agents |-> NoSegment]
  <2>3. \A a \in Agents : agents[a] = NoSegment
    OBVIOUS
  <2> HIDE DEF agents
  <2> QED BY <2>1, <2>2, <2>3 DEF SessionStates, Phases, agents
<1>3. ASSUME NEW s, NEW a PROVE AgentShape(s, a, NoSegment)
  BY <1>1 DEF AgentShape
<1>4. SessionsShape
  <2>1. sessions \in [Sessions -> SessionStates]
    BY <1>2
  <2>2. \A s \in Sessions : SessionShape(s, sessions[s])
    BY <1>1, <1>2, <1>3 DEF SessionShape
  <2> QED BY <2>1, <2>2 DEF SessionsShape
<1>5. /\ Windows(sessions) = {} /\ CachedIn(sessions, Sessions) = {}
      /\ Trained(sessions) = {}
  <2>1. Windows(sessions) = {}
    BY <1>2, WindowsElements
  <2>2. CachedIn(sessions, Sessions) = {}
    BY <1>1, <1>2, CachedInElements
  <2> QED BY <1>2, <2>1, <2>2 DEF Trained
<1>6. Made = {} /\ Kept = {} /\ Sent = {} /\ emitted = {}
  BY <1>5 DEF Made, Kept, Sent
<1>7. IsFiniteSet({}) /\ Cardinality({}) = 0
  BY FS_EmptySet
<1>8. \A s \in Sessions, a \in Agents : Steps(s, a) = 0
  BY <1>1, <1>2 DEF Steps
<1>9. Numbered
  BY <1>6, <1>7, <1>8 DEF Numbered
<1>10. Accounted
  BY <1>5, <1>6, <1>7 DEF Accounted, Placed, Rewarded
<1>11. LossShape /\ PlanShape /\ BehaviorModelExact
  BY <1>5 DEF LossShape, PlanShape, BehaviorModelExact
<1>12. LedgerShape
  <2>1. /\ ledger \in [initialized : BOOLEAN, produced : Nat, model : 0..MaxModel]
        /\ ledger.produced = 0 /\ ledger.model = 0
    BY ConstantsAssumption DEF NoLedger
  <2>2. model \in Nat /\ 0 <= model /\ 0 <= produced
    BY ConstantsAssumption DEF Models
  <2> QED BY <1>5, <2>1, <2>2 DEF LedgerShape, AtMostOne
<1> QED BY <1>4, <1>9, <1>10, <1>11, <1>12 DEF IInv

LEMMA StutterPreserves ==
  ASSUME IInv, UNCHANGED vars
  PROVE  IInv'
<1> USE DEF vars, shutdownVars, historyVars
<1>1. SessionsShape' /\ LedgerShape' /\ PlanShape' /\ BehaviorModelExact'
  BY DEF IInv, SessionsShape, LedgerShape, PlanShape, BehaviorModelExact,
         CutOutput
<1>2. Made' = Made /\ Kept' = Kept /\ Sent' = Sent
  BY DEF Made, Kept, Sent, Windows, CachedIn
<1>3. Numbered' /\ Accounted'
  BY <1>2, NumberedFrame DEF IInv, Accounted, Placed, Rewarded, Steps
<1>4. LossShape'
  BY DEF IInv, LossShape
<1> QED BY <1>1, <1>3, <1>4 DEF IInv

\* The inductive invariant holds in every reachable state: the handlers, the
\* watcher, the flush and the steps of the shutdown keep the shape of segments,
\* the numbering of transitions, where each of them is, and the ledger.
THEOREM RuntimeInvariant == Spec => []IInv
<1>1. ASSUME IInv, [Next]_vars PROVE IInv'
  <2>1. ASSUME NEW s \in Sessions,
               OpenSession(s) \/ InitTask(s) \/ BeginEpisode(s)
        PROVE  IInv'
    BY <1>1, <2>1, CommandPreserves
  <2>2. ASSUME NEW s \in Sessions, NEW terminal \in SUBSET Agents,
               Update(s, terminal)
        PROVE  IInv'
    BY <1>1, <2>2, UpdatePreserves
  <2>3. ASSUME NEW s \in Sessions, EndEpisode(s) PROVE IInv'
    BY <1>1, <2>3, EndEpisodePreserves
  <2>4. ASSUME NEW s \in Sessions,
               AbortEpisode(s) \/ RecoverExpiredClientSession(s)
        PROVE  IInv'
    BY <1>1, <2>4, CutPreserves
  <2>5. ASSUME NEW s \in Sessions, CloseSession(s) PROVE IInv'
    BY <1>1, <2>5, ClosePreserves
  <2>6. ASSUME NEW s \in Sessions, RecoveryFails(s) PROVE IInv'
    BY <1>1, <2>6, RecoveryFailsPreserves
  <2>7. CASE MarkDegraded \/ ActivateStagedModel
    BY <1>1, <2>7, StatePreserves
  <2>8. CASE FlushRewardMetrics
    BY <1>1, <2>8, FlushPreserves
  <2>9. CASE BeginShutdown
    BY <1>1, <2>9, BeginShutdownPreserves
  <2>10. CASE ShutdownAdmitted
    BY <1>1, <2>10, ShutdownAdmittedPreserves
  <2>11. CASE ShutdownCommits
    BY <1>1, <2>11, ShutdownCommitsPreserves
  <2>12. CASE ShutdownQuarantines
    BY <1>1, <2>12, ShutdownQuarantinesPreserves
  <2>13. CASE ShutdownEnds
    BY <1>1, <2>13, ShutdownEndsPreserves
  <2>14. CASE UNCHANGED vars
    BY <1>1, <2>14, StutterPreserves
  <2> QED BY <1>1, <2>1, <2>2, <2>3, <2>4, <2>5, <2>6, <2>7, <2>8, <2>9, <2>10,
             <2>11, <2>12, <2>13, <2>14 DEF Next
<1> QED BY InitHolds, <1>1, PTL DEF Spec

-----------------------------------------------------------------------------
\* What follows for the properties.

\* A transition is in one of three places only.
LEMMA OnePlace ==
  ASSUME Numbered, Placed, NEW s \in Sessions, NEW a \in Agents,
         NEW n \in 0 .. Steps(s, a) - 1
  PROVE  Cardinality(Places(s, a, n)) = 1
<1>1. PICK t \in Made : t.session = s /\ t.agent = a /\ t.n = n
  BY DEF Numbered
<1>2. \A u \in Kept \cup Sent \cup discarded :
        u.session = s /\ u.agent = a /\ u.n = n => u = t
  BY <1>1 DEF Numbered, Placed
<1>3. \A p \in Places(s, a, n) :
        \/ p = <<"kept", t>> /\ t \in Kept
        \/ p = <<"sent", t>> /\ t \in Sent
        \/ p = <<"discarded", t>> /\ t \in discarded
  BY <1>2 DEF Places
<1>4. /\ t \in Kept => <<"kept", t>> \in Places(s, a, n)
      /\ t \in Sent => <<"sent", t>> \in Places(s, a, n)
      /\ t \in discarded => <<"discarded", t>> \in Places(s, a, n)
  BY <1>1 DEF Places
<1>5. \E p : Places(s, a, n) = {p}
  <2>1. t \in Kept \/ t \in Sent \/ t \in discarded
    BY <1>1 DEF Placed
  <2>2. /\ ~(t \in Kept /\ t \in Sent) /\ ~(t \in Kept /\ t \in discarded)
        /\ ~(t \in Sent /\ t \in discarded)
    BY DEF Placed
  <2>3. CASE t \in Kept
    <3>1. Places(s, a, n) = {<<"kept", t>>}
      BY <1>3, <1>4, <2>2, <2>3
    <3> QED BY <3>1
  <2>4. CASE t \in Sent
    <3>1. Places(s, a, n) = {<<"sent", t>>}
      BY <1>3, <1>4, <2>2, <2>4
    <3> QED BY <3>1
  <2>5. CASE t \in discarded
    <3>1. Places(s, a, n) = {<<"discarded", t>>}
      BY <1>3, <1>4, <2>2, <2>5
    <3> QED BY <3>1
  <2> QED BY <2>1, <2>3, <2>4, <2>5
<1> QED BY <1>5, FS_Singleton

\* Every transition an agent has made is cached, sent or discarded, in exactly
\* one of these places, and the counters agree, whatever aborts, recoveries and
\* shutdowns interleave (TrainingTransaction::Commit, DiscardAgentSegment,
\* BeginShutdown).
THEOREM EachTransitionOnceHolds == Spec => []EachTransitionOnce
<1>1. IInv => EachTransitionOnce
  BY OnePlace DEF IInv, Accounted, Placed, EachTransitionOnce
<1> QED BY <1>1, RuntimeInvariant, PTL

\* The one session that was ever initialized, also after it has been closed;
\* whatever trains, or would train after the shutdown, is that one.
TrainedOnce ==
  /\ trained \subseteq Sessions /\ AtMostOne(trained)
  /\ ~ledger.initialized => trained = {}
  /\ Trained(sessions) \subseteq trained
  /\ shutdown \in {"closing", "admitted"} =>
       Trained(plan.sessions) \subseteq trained

\* A step that initializes nothing and lets no other session train.
LEMMA NobodyNewTrains ==
  ASSUME TrainedOnce, trained' = trained,
         ledger.initialized => ledger'.initialized,
         Trained(sessions') \subseteq trained,
         \/ shutdown' \notin {"closing", "admitted"}
         \/ plan' = plan /\ shutdown \in {"closing", "admitted"}
  PROVE  TrainedOnce'
  BY DEF TrainedOnce

\* One session changes its phase, and trains only if it did before.
LEMMA OnePhaseChanges ==
  ASSUME TrainedOnce, NEW s \in Sessions, trained' = trained,
         UNCHANGED shutdownVars, ledger.initialized => ledger'.initialized,
         \A r \in Sessions \ {s} : sessions'[r].phase = sessions[r].phase,
         s \in Trained(sessions) \/ s \notin Trained(sessions')
  PROVE  TrainedOnce'
<1>1. Trained(sessions') \subseteq Trained(sessions)
  BY DEF Trained
<1>2. TrainedOnce /\ shutdown' = shutdown /\ plan' = plan
  BY DEF shutdownVars
<1> QED BY <1>1, <1>2 DEF TrainedOnce

LEMMA TrainedOncePreserved ==
  ASSUME IInv, TrainedOnce, [Next]_vars
  PROVE  TrainedOnce'
<1>0. /\ SessionsShape /\ sessions \in [Sessions -> SessionStates]
      /\ ledger \in [initialized : BOOLEAN, produced : Nat, model : 0..MaxModel]
  BY DEF IInv, SessionsShape, LedgerShape
<1>1. ASSUME NEW s \in Sessions, OpenSession(s) \/ CloseSession(s)
      PROVE  TrainedOnce'
  <2>1. /\ \A r \in Sessions \ {s} : sessions'[r].phase = sessions[r].phase
        /\ sessions'[s].phase \in {"OPEN", "CLOSED"}
    BY <1>0, <1>1 DEF OpenSession, CloseSession, SessionStates
  <2>2. s \notin Trained(sessions')
    BY <2>1 DEF Trained
  <2>3. trained' = trained /\ ledger' = ledger /\ UNCHANGED shutdownVars
    BY <1>1 DEF OpenSession, CloseSession
  <2> QED BY <2>1, <2>2, <2>3, OnePhaseChanges
<1>2. ASSUME NEW s \in Sessions, InitTask(s) PROVE TrainedOnce'
  <2>1. /\ ~ledger.initialized /\ ledger'.initialized
        /\ trained' = trained \cup {s} /\ UNCHANGED shutdownVars
    BY <1>2 DEF InitTask, Initialize
  <2>2. trained = {} /\ trained' = {s}
    BY <2>1 DEF TrainedOnce
  <2>3. \A r \in Sessions \ {s} : sessions'[r] = sessions[r]
    BY <1>0, <1>2 DEF InitTask
  <2>4. Trained(sessions') \subseteq Trained(sessions) \cup {s}
    BY <2>3 DEF Trained
  <2>5. shutdown' = shutdown /\ plan' = plan
    BY <2>1 DEF shutdownVars
  <2> QED BY <2>1, <2>2, <2>4, <2>5 DEF TrainedOnce, AtMostOne
<1>3. ASSUME NEW s \in Sessions, BeginEpisode(s) \/ EndEpisode(s)
      PROVE  TrainedOnce'
  <2>1. /\ \A r \in Sessions \ {s} : sessions'[r] = sessions[r]
        /\ s \in Trained(sessions)
    BY <1>0, <1>3 DEF BeginEpisode, EndEpisode, Trained
  <2>2. /\ trained' = trained /\ UNCHANGED shutdownVars
        /\ ledger.initialized => ledger'.initialized
    BY <1>0, <1>3 DEF BeginEpisode, EndEpisode, Observe
  <2> QED BY <2>1, <2>2, OnePhaseChanges
<1>4. ASSUME NEW s \in Sessions, NEW terminal \in SUBSET Agents,
             Update(s, terminal)
      PROVE  TrainedOnce'
  <2>1. /\ s \in Trained(sessions) /\ Observe(produced')
        /\ UNCHANGED shutdownVars
        /\ \A r \in Sessions \ {s} : sessions'[r] = sessions[r]
    BY <1>0, <1>4, UpdateParts DEF Trained
  <2>2. trained' = trained
    BY <1>4 DEF Update
  <2>3. ledger.initialized => ledger'.initialized
    BY <1>0, <2>1 DEF Observe
  <2> QED BY <2>1, <2>2, <2>3, OnePhaseChanges
<1>5. ASSUME NEW s \in Sessions,
             \/ AbortEpisode(s) \/ RecoverExpiredClientSession(s)
             \/ RecoveryFails(s)
      PROVE  TrainedOnce'
  <2>1. /\ trained' = trained /\ ledger' = ledger /\ UNCHANGED shutdownVars
        /\ s \in Trained(sessions)
    BY <1>5
    DEF AbortEpisode, RecoverExpiredClientSession, RecoveryFails, Live, Trained
  <2>2. \A r \in Sessions \ {s} : sessions'[r] = sessions[r]
    BY <1>0, <1>5
    DEF AbortEpisode, RecoverExpiredClientSession, RecoveryFails, Discarded
  <2> QED BY <2>1, <2>2, OnePhaseChanges
<1>6. CASE MarkDegraded \/ ActivateStagedModel \/ UNCHANGED vars
  <2>1. UNCHANGED <<sessions, trained, ledger, shutdown, plan>>
    BY <1>6 DEF MarkDegraded, ActivateStagedModel, vars, shutdownVars
  <2> QED BY <2>1 DEF TrainedOnce
<1>7. CASE FlushRewardMetrics
  <2>1. \A r \in Sessions : sessions'[r].phase = sessions[r].phase
    BY <1>0, <1>7 DEF FlushRewardMetrics, Flushed, SessionStates
  <2>2. /\ trained' = trained /\ ledger' = ledger
        /\ shutdown = "no" /\ shutdown' = shutdown
    BY <1>7 DEF FlushRewardMetrics, shutdownVars
  <2>3. Trained(sessions') = Trained(sessions)
    BY <2>1 DEF Trained
  <2> QED BY <2>2, <2>3, NobodyNewTrains DEF TrainedOnce
<1>8. CASE BeginShutdown
  <2>1. /\ trained' = trained /\ ledger' = ledger /\ sessions' = sessions
        /\ plan' = Plan \/ plan' = [Plan EXCEPT !.ok = FALSE]
    BY <1>8 DEF BeginShutdown
  <2>2. plan'.sessions = Plan.sessions
    BY <2>1 DEF Plan
  <2>3. \A s \in Sessions :
          Plan.sessions[s].phase = IF Live(s) THEN "ABORTED"
                                   ELSE sessions[s].phase
    BY <1>0, PlanSessions
  <2>4. Trained(plan'.sessions) \subseteq Trained(sessions)
    BY <2>2, <2>3 DEF Trained, Live
  <2> QED BY <2>1, <2>4 DEF TrainedOnce
<1>9. CASE ShutdownAdmitted
  <2>1. /\ UNCHANGED <<sessions, trained, ledger, plan>>
        /\ shutdown = "closing"
    BY <1>9 DEF ShutdownAdmitted
  <2> QED BY <2>1 DEF TrainedOnce
<1>10. CASE ShutdownCommits
  <2>1. /\ UNCHANGED <<trained, ledger>> /\ shutdown = "admitted"
        /\ shutdown' = "settling" /\ sessions' = Flushed(plan.sessions)
    BY <1>10 DEF ShutdownCommits
  <2>2. \A s \in Sessions : plan.sessions[s] \in SessionStates
    BY <2>1 DEF IInv, PlanShape, SessionShape
  <2>3. \A s \in Sessions : sessions'[s].phase = plan.sessions[s].phase
    BY <2>1, <2>2 DEF Flushed, SessionStates
  <2>4. Trained(sessions') = Trained(plan.sessions)
    BY <2>3 DEF Trained
  <2> QED BY <2>1, <2>4, NobodyNewTrains DEF TrainedOnce
<1>11. CASE ShutdownQuarantines
  <2> DEFINE phases == [s \in Sessions |-> sessions[s].phase]
  <2>1. /\ UNCHANGED <<trained, ledger>> /\ shutdown' = "settling"
        /\ sessions' = Flushed(Discarded(Sessions, phases))
    BY <1>11 DEF ShutdownQuarantines
  <2>2. ASSUME NEW s \in Sessions
        PROVE  sessions'[s].phase = sessions[s].phase
    <3>1. sessions[s].phase \in Phases /\ sessions[s] \in SessionStates
      BY <1>0 DEF SessionStates
    <3>2. Discarded(Sessions, phases)[s] = CutTo(s, sessions[s].phase)
      BY DEF Discarded, CutTo
    <3>3. CutTo(s, sessions[s].phase) \in SessionStates
          /\ CutTo(s, sessions[s].phase).phase = sessions[s].phase
      BY <1>0, <3>1, CutSession DEF SessionShape
    <3>4. sessions'[s] = [CutTo(s, sessions[s].phase) EXCEPT !.window = {}]
      BY <2>1, <3>2 DEF Flushed
    <3> QED BY <3>3, <3>4 DEF SessionStates
  <2>3. Trained(sessions') = Trained(sessions)
    BY <2>2 DEF Trained
  <2> QED BY <2>1, <2>3, NobodyNewTrains DEF TrainedOnce
<1>12. CASE ShutdownEnds
  <2>1. UNCHANGED <<sessions, trained, ledger>> /\ shutdown' = "done"
    BY <1>12 DEF ShutdownEnds
  <2> QED BY <2>1 DEF TrainedOnce
<1> QED BY <1>1, <1>2, <1>3, <1>4, <1>5, <1>6, <1>7, <1>8, <1>9, <1>10, <1>11,
           <1>12 DEF Next

\* It holds in every reachable state.
LEMMA TrainedOnceHolds == Spec => []TrainedOnce
<1>1. Init => TrainedOnce
  BY DEF Init, TrainedOnce, Trained, AtMostOne, NoLedger
<1> QED BY <1>1, TrainedOncePreserved, RuntimeInvariant, PTL DEF Spec

\* At most one session of a process is ever initialized, also after it has been
\* closed, nothing else trains, and the controller never refuses its plan or
\* its progress (MazeEpisodeController::Initialize, ValidateTrainingProgress).
THEOREM LedgerFollowsHolds == Spec => []LedgerFollows
<1>1. ASSUME IInv, TrainedOnce PROVE LedgerFollows
  <2>1. Cardinality(trained) <= 1
    <3>1. CASE trained = {}
      BY <3>1, FS_EmptySet
    <3>2. CASE trained # {}
      <4>1. PICK s \in trained : TRUE
        BY <3>2
      <4>2. trained = {s}
        BY <1>1 DEF TrainedOnce, AtMostOne
      <4> QED BY <4>2, FS_Singleton
    <3> QED BY <3>1, <3>2
  <2>2. ASSUME NEW s \in Sessions,
               sessions[s].phase \in {"READY", "RUNNING", "TERMINAL", "ABORTED"}
        PROVE  s \in trained
    BY <1>1, <2>2 DEF TrainedOnce, Trained
  <2>3. ASSUME NEW s \in Sessions, sessions[s].phase \in {"READY", "RUNNING"}
        PROVE  ledger.initialized /\ ValidateTrainingProgress(produced)
    <3>1. s \in Trained(sessions)
      BY <2>3 DEF Trained
    <3>2. ledger.initialized
      BY <1>1, <3>1 DEF IInv, LedgerShape
    <3>3. produced >= ledger.produced /\ model >= ledger.model
      BY <1>1, ConstantsAssumption DEF IInv, LedgerShape, Models
    <3> QED BY <3>2, <3>3 DEF ValidateTrainingProgress
  <2> QED BY <2>1, <2>2, <2>3 DEF LedgerFollows
<1> QED BY <1>1, TrainedOnceHolds, RuntimeInvariant, PTL

\* An envelope names the model that inferred the actions of all its
\* transitions, although newer models are activated while segments are open
\* (EnsureAgentSegmentPin, PrepareAgentSegmentClose).
THEOREM BehaviorModelExactHolds == Spec => []BehaviorModelExact
<1>1. IInv => BehaviorModelExact
  BY DEF IInv
<1> QED BY <1>1, RuntimeInvariant, PTL

\* A terminal episode has nothing open: EndEpisode never finds an uncommitted
\* segment, and BeginEpisode's reset loses nothing.
THEOREM TerminalIsSettledHolds == Spec => []TerminalIsSettled
<1>1. IInv => TerminalIsSettled
  BY DEF IInv, SessionsShape, SessionShape, AgentShape, TerminalIsSettled
<1> QED BY <1>1, RuntimeInvariant, PTL

\* Every transition's reward is in its session's window or in the journal, and
\* counted once there (RewardMetricWindow, FlushRewardMetricsLocked).
THEOREM RewardOnceHolds == Spec => []RewardOnce
<1>1. ASSUME IInv PROVE RewardOnce
  <2>1. \A s \in Sessions, a \in Agents :
          Cardinality({t \in Made : t.session = s /\ t.agent = a}) = Steps(s, a)
    BY <1>1, NumberedCount DEF IInv
  <2> QED BY <1>1, <2>1 DEF IInv, Accounted, Rewarded, RewardOnce, Made
<1> QED BY <1>1, RuntimeInvariant, PTL

\* A shutdown that reports success has lost nothing since the start: every
\* transition was sent and every reward is in the journal
\* (shutdown_succeeded_ in BeginShutdown).
THEOREM CleanShutdownHolds == Spec => []CleanShutdownLosesNothing
<1>1. ASSUME IInv, succeeded PROVE Sent = Made /\ reported = Made
  <2>1. /\ shutdown = "done" /\ CachedIn(sessions, Sessions) = {}
        /\ discarded = {} /\ Windows(sessions) = {}
    BY <1>1 DEF IInv, LossShape
  <2>2. Kept = {}
    BY <2>1 DEF Kept
  <2> QED BY <1>1, <2>1, <2>2 DEF IInv, Accounted, Placed, Made
<1>2. ASSUME IInv PROVE CleanShutdownLosesNothing
  <2>1. \A s \in Sessions, a \in Agents :
          Cardinality({t \in Made : t.session = s /\ t.agent = a}) = Steps(s, a)
    BY <1>2, NumberedCount DEF IInv
  <2> QED BY <1>1, <1>2, <2>1 DEF CleanShutdownLosesNothing
<1> QED BY <1>2, RuntimeInvariant, PTL

\* The types of the state that the invariant leaves open.
TypeRest ==
  /\ state \in {"READY", "DEGRADED", "DRAINING", "STOPPED"}
  /\ plan.ok \in BOOLEAN /\ faultBefore \in BOOLEAN /\ succeeded \in BOOLEAN
  /\ shutdown # "no" => /\ plan \in [sessions : [Sessions -> SessionStates],
                                     output : SUBSET [transition : Transitions,
                                                      model : Models],
                                     ok : BOOLEAN]

\* The plan is made once, and later only fails.
LEMMA TypeRestPreserved ==
  ASSUME IInv, TypeRest, [Next]_vars
  PROVE  TypeRest'
<1> DEFINE Plans == [sessions : [Sessions -> SessionStates],
                     output : SUBSET [transition : Transitions, model : Models],
                     ok : BOOLEAN]
<1> USE DEF TypeRest
<1>1. Plan \in Plans /\ Plan.ok = TRUE
  <2>1. SessionsShape
    BY DEF IInv
  <2>2. \A s \in Sessions : Plan.sessions[s] \in SessionStates
    BY <2>1, PlanSessions DEF SessionShape
  <2>3. Plan.sessions \in [Sessions -> SessionStates]
    BY <2>2 DEF Plan
  <2>4. Plan.output \subseteq [transition : Transitions, model : Models]
    BY <2>1, CutOutputElements DEF Plan
  <2> DEFINE candidates == Plan.sessions
             output == Plan.output
  <2>5. Plan = [sessions |-> candidates, output |-> output, ok |-> TRUE]
    BY DEF Plan
  <2> HIDE DEF candidates, output
  <2>6. [sessions |-> candidates, output |-> output, ok |-> TRUE] \in Plans
    BY <2>3, <2>4 DEF candidates, output
  <2>7. Plan.ok = TRUE
    BY DEF Plan
  <2> QED BY <2>5, <2>6, <2>7
<1>2. CASE BeginShutdown
  <2>1. plan' = Plan \/ plan' = [Plan EXCEPT !.ok = FALSE]
    BY <1>2 DEF BeginShutdown
  <2>2. plan' \in Plans
    BY <1>1, <2>1
  <2>3. plan'.ok \in BOOLEAN
    BY <2>2
  <2>4. /\ state' = "DRAINING" /\ faultBefore' \in BOOLEAN
        /\ succeeded' = succeeded /\ shutdown' # "no"
    BY <1>2 DEF BeginShutdown
  <2> HIDE DEF Plans
  <2> QED BY <2>2, <2>3, <2>4 DEF Plans
<1>3. CASE ShutdownQuarantines
  <2>1. /\ shutdown # "no" /\ plan' = [plan EXCEPT !.ok = FALSE]
        /\ UNCHANGED <<state, faultBefore, succeeded>>
    BY <1>3 DEF ShutdownQuarantines
  <2>2. plan' \in Plans
    BY <2>1
  <2>3. plan'.ok \in BOOLEAN
    BY <2>2
  <2> QED BY <2>1, <2>2, <2>3
<1>4. CASE ShutdownAdmitted \/ ShutdownCommits
  <2>1. shutdown # "no" /\ UNCHANGED <<state, plan, faultBefore, succeeded>>
    BY <1>4 DEF ShutdownAdmitted, ShutdownCommits
  <2> QED BY <2>1
<1>5. CASE ShutdownEnds
  <2>1. shutdown # "no" /\ UNCHANGED <<plan, faultBefore>>
    BY <1>5 DEF ShutdownEnds
  <2>2. succeeded' \in BOOLEAN /\ state' \in {"STOPPED", "DEGRADED"}
    BY <1>5 DEF ShutdownEnds, MaySucceed
  <2> QED BY <2>1, <2>2
<1>6. ASSUME \/ \E s \in Sessions :
                  \/ OpenSession(s) \/ InitTask(s) \/ BeginEpisode(s)
                  \/ \E terminal \in SUBSET Agents : Update(s, terminal)
                  \/ EndEpisode(s) \/ AbortEpisode(s) \/ CloseSession(s)
                  \/ RecoverExpiredClientSession(s) \/ RecoveryFails(s)
             \/ MarkDegraded \/ ActivateStagedModel \/ FlushRewardMetrics
             \/ UNCHANGED vars
      PROVE  TypeRest'
  <2>1. ASSUME NEW s \in Sessions, NEW terminal \in SUBSET Agents,
               Update(s, terminal)
        PROVE  UNCHANGED shutdownVars /\ state' = state
    BY <2>1 DEF Update
  <2>2. UNCHANGED shutdownVars /\ (state' = state \/ state' = "DEGRADED")
    BY <1>6, <2>1 DEF OpenSession, InitTask, BeginEpisode, EndEpisode,
                AbortEpisode, CloseSession, RecoverExpiredClientSession,
                RecoveryFails, MarkDegraded, ActivateStagedModel,
                FlushRewardMetrics, vars
  <2> QED BY <2>2 DEF shutdownVars
<1> QED BY <1>2, <1>3, <1>4, <1>5, <1>6 DEF Next

\* Type correctness of the runtime: sessions, segments, counters, the plan of
\* the shutdown and the histories, after any command, watcher or shutdown step.
THEOREM TypeCorrect == Spec => []TypeOK
<1>1. Init => TypeRest
  <2>1. NoPlan.ok = FALSE
    BY DEF NoPlan
  <2> QED BY <2>1 DEF Init, TypeRest
<1>2. IInv /\ TrainedOnce /\ TypeRest => TypeOK
  <2> SUFFICES ASSUME IInv, TrainedOnce, TypeRest PROVE TypeOK
    OBVIOUS
  <2>1. quarantined \in Nat /\ reportedCount \in Nat
    <3>1. discarded \subseteq Made /\ reported \subseteq Made /\ IsFiniteSet(Made)
      BY DEF IInv, Accounted, Placed, Numbered, Made
    <3> QED BY <3>1, FS_Subset, FS_CardinalityType
            DEF IInv, Accounted, Placed, Rewarded
  <2>2. discarded \subseteq Transitions /\ reported \subseteq Transitions
    BY DEF IInv, Accounted, Placed, Numbered, Made
  <2>3. /\ sessions \in [Sessions -> SessionStates] /\ model \in Models
        /\ ledger \in [initialized : BOOLEAN, produced : Nat, model : 0..MaxModel]
        /\ produced \in Nat
        /\ shutdown \in {"no", "closing", "admitted", "settling", "done"}
        /\ emitted \subseteq [transition : Transitions, model : Models]
    BY DEF IInv, SessionsShape, LedgerShape, PlanShape, Accounted, Placed
  <2>4. trained \subseteq Sessions
    BY DEF TrainedOnce
  <2> QED BY <2>1, <2>2, <2>3, <2>4 DEF TypeRest, TypeOK
<1> QED BY <1>1, <1>2, TypeRestPreserved, RuntimeInvariant, TrainedOnceHolds, PTL
        DEF Spec
=============================================================================
