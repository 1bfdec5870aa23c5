-------------------------- MODULE CommandSession --------------------------
(***************************************************************************)
(* One client session: the SDK client that drives it (RunSession,          *)
(* RunEpisode, Session::Exchange, TaskClient, Transport::InvokeUnary in    *)
(* proto/rl_sdk/include/rl_sdk) and the server that applies its commands   *)
(* (TrainingTaskService, CheckCommand, CommitCommand,                      *)
(* LifecycleReplayWindow).                                                 *)
(*                                                                         *)
(* The client is synchronous and tries every call at most twice with the   *)
(* same bytes.  A call it gave up on may still be in the network or wait   *)
(* for the server's mutex: network holds the attempts a handler may still  *)
(* run for, in any order.  Only the answer to the current attempt reaches  *)
(* the client.  After a WAIT the two attempts are counted anew: of each    *)
(* request at most two copies are under way.                               *)
(*                                                                         *)
(* The state of the runtime (model and sample delivery) decides between    *)
(* applying, WAIT and a refusal: here that is a choice.  The watcher       *)
(* aborts the episode of a client it has not heard of, and a shutdown      *)
(* works on a copy of the session that it takes and writes back in two     *)
(* critical sections.  BeginEpisode never answers TASK_COMPLETE, so that   *)
(* phase is left out.                                                      *)
(***************************************************************************)
EXTENDS Naturals, Sequences

CONSTANTS
  MaxSequence,   \* bound: command sequence numbers
  AbortBudget,   \* abort_wait_budget, in WAIT answers
  MayShutDown    \* whether BeginShutdown may be called

ASSUME ConstantsAssumption ==
  /\ MaxSequence \in Nat
  /\ AbortBudget \in Nat
  /\ MayShutDown \in BOOLEAN

VARIABLES
  \* the client
  client,     \* where RunSession is
  cursor,     \* LifecycleCursor
  request,    \* the command Exchange is in
  attempt,    \* 0, or the attempt InvokeUnary waits for
  waits,      \* WAIT answers to the command
  outcome,    \* the outcome RunSession has so far
  stopping,   \* binding.Stopped()
  \* between client and server
  network,    \* attempts a handler may still run for
  answer,     \* the answer to the current attempt
  \* the server
  created,    \* sessions created
  session, nextEpisode,
  shutdown,   \* where BeginShutdown is
  candidate,  \* the copy of the session it works on
  \* history
  applied,    \* commands in the order the server applied them
  accepted    \* commands in the order the client accepted their replies

clientVars == <<client, cursor, request, attempt, waits, outcome, stopping,
                accepted>>
networkVars == <<network, answer>>
serverVars == <<created, session, nextEpisode, shutdown, candidate, applied>>
vars == <<clientVars, networkVars, serverVars>>

Commands == {"Init", "Begin", "Update", "FinalUpdate", "End", "Abort", "Close"}
Phases == {"UNSPECIFIED", "OPEN", "READY", "RUNNING", "TERMINAL", "ABORTED",
           "CLOSED"}
Outcomes == {"None", "Applied", "Rejected", "Unknown", "Stopped",
             "WaitExpired"}

Requests == [kind : Commands \cup {"Open"}, sequence : Nat, episode : Nat]
NoRequest == [kind |-> "None", sequence |-> 0, episode |-> 0]

Replies == [result : {"APPLIED", "ALREADY_APPLIED", "WAIT", "REJECTED"},
            applied : Nat, phase : Phases, episode : Nat]
NoReply == [result |-> "None", applied |-> 0, phase |-> "UNSPECIFIED",
            episode |-> 0]

Init ==
  /\ client = "opening"
  /\ cursor = [sequence |-> 1, phase |-> "UNSPECIFIED", episode |-> 0]
  /\ request = NoRequest /\ attempt = 0 /\ waits = 0
  /\ outcome = "None" /\ stopping = FALSE
  /\ network = {} /\ answer = NoReply
  /\ created = 0 /\ nextEpisode = 1
  /\ session = [last |-> 0, phase |-> "UNSPECIFIED", episode |-> 0,
                stored |-> NoRequest, response |-> NoReply]
  /\ shutdown = "no" /\ candidate = session
  /\ applied = <<>> /\ accepted = <<>>

-----------------------------------------------------------------------------
\* The server.  The mutants stand for plausible errors in the definition
\* after them.

Reply(result, sequence) ==
  [result |-> result, applied |-> sequence, phase |-> session.phase,
   episode |-> 0]

ClassifyWithoutWindow(q) ==
  IF session.stored # NoRequest /\ q = session.stored THEN "Replay"
  ELSE IF q.sequence < session.last THEN "OutOfOrder"
  ELSE "Proceed"

\* LifecycleReplayWindow::Classify.
Classify(q) ==
  IF session.stored # NoRequest /\ q.sequence = session.stored.sequence
  THEN IF q # session.stored THEN "PayloadConflict" ELSE "Replay"
  ELSE IF q.sequence # session.last + 1 THEN "OutOfOrder"
  ELSE "Proceed"

\* The phases in which CloseSession is allowed.
Closeable(phase) == phase \in {"OPEN", "READY", "ABORTED"}

\* Update and AbortEpisode require the running episode.
InEpisode(q) == session.phase = "RUNNING" /\ q.episode = session.episode

\* The phase a command leads to.
PhaseAfter(kind) ==
  CASE kind \in {"Init", "End"}     -> "READY"
    [] kind \in {"Begin", "Update"} -> "RUNNING"
    [] kind = "FinalUpdate"         -> "TERMINAL"
    [] kind = "Abort"               -> "ABORTED"
    [] kind = "Close"               -> "CLOSED"

\* The handler of attempt n of q answers r.  The client hears of it only if it
\* still waits for that attempt.
Answer(q, n, r) ==
  /\ network' = network \ {<<q, n>>}
  /\ answer' = IF q = request /\ n = attempt THEN r ELSE answer

\* CheckedSession finds the session and CheckCommand's verdict on q is v.
Checked(q, v) == q.kind # "Open" /\ created > 0 /\ Classify(q) = v

\* OpenSession for a request_id the server has not seen.
OpenSession(q, n) ==
  /\ q.kind = "Open" /\ created = 0 /\ shutdown = "no"
  /\ created' = 1
  /\ session' = [session EXCEPT !.phase = "OPEN"]
  /\ Answer(q, n, [Reply("APPLIED", 0) EXCEPT !.phase = "OPEN"])
  /\ UNCHANGED <<clientVars, nextEpisode, shutdown, candidate, applied>>

\* OpenSession for a known request_id answers with the stored response.
OpenSessionReplayed(q, n) ==
  /\ q.kind = "Open" /\ created > 0
  /\ Answer(q, n, [Reply("ALREADY_APPLIED", 0) EXCEPT !.phase = "OPEN"])
  /\ UNCHANGED <<clientVars, serverVars>>

\* OpenSession while the runtime is not ready.
OpenSessionRejected(q, n) ==
  /\ q.kind = "Open" /\ created = 0
  /\ Answer(q, n, [Reply("REJECTED", 0) EXCEPT !.phase = "UNSPECIFIED"])
  /\ UNCHANGED <<clientVars, serverVars>>

\* CheckCommand: the stored response of the last command once more.
CommandReplayed(q, n) ==
  /\ Checked(q, "Replay")
  /\ Answer(q, n, [session.response EXCEPT !.result = "ALREADY_APPLIED"])
  /\ UNCHANGED <<clientVars, serverVars>>

\* CheckCommand or the handler refuses.  A handler may refuse a command that
\* fits the phase for the state of the runtime, CloseSession only for the phase.
CommandRejected(q, n) ==
  /\ \/ Checked(q, "PayloadConflict") \/ Checked(q, "OutOfOrder")
     \/ Checked(q, "Proceed") /\ (q.kind = "Close" => ~Closeable(session.phase))
  /\ Answer(q, n, Reply("REJECTED", session.last))
  /\ UNCHANGED <<clientVars, serverVars>>

\* Update and AbortEpisode wait for sample delivery; nothing has changed.
CommandWaits(q, n) ==
  /\ Checked(q, "Proceed") /\ q.kind \in {"Update", "FinalUpdate", "Abort"}
  /\ InEpisode(q) /\ shutdown = "no"
  /\ Answer(q, n, Reply("WAIT", session.last))
  /\ UNCHANGED <<clientVars, serverVars>>

\* CommitCommand: the command takes effect and its reply is stored.
CommitCommand(q, n, episode) ==
  LET reply == [result |-> "APPLIED", applied |-> q.sequence,
                phase |-> PhaseAfter(q.kind), episode |-> episode]
  IN  /\ session' = [last |-> q.sequence, phase |-> reply.phase,
                     episode |-> episode, stored |-> q, response |-> reply]
      /\ Answer(q, n, reply)
      /\ applied' = Append(applied, q)
      /\ UNCHANGED <<clientVars, created, shutdown, candidate>>

InitTask(q, n) ==
  /\ Checked(q, "Proceed") /\ q.kind = "Init"
  /\ session.phase = "OPEN" /\ q.episode = 0 /\ shutdown = "no"
  /\ CommitCommand(q, n, session.episode)
  /\ UNCHANGED nextEpisode

BeginEpisode(q, n) ==
  /\ Checked(q, "Proceed") /\ q.kind = "Begin"
  /\ session.phase = "READY" /\ q.episode = 0 /\ shutdown = "no"
  /\ CommitCommand(q, n, nextEpisode)
  /\ nextEpisode' = nextEpisode + 1

\* FinalUpdate is an Update whose frame ends every agent's episode.
Update(q, n) ==
  /\ Checked(q, "Proceed") /\ q.kind \in {"Update", "FinalUpdate"}
  /\ InEpisode(q) /\ shutdown = "no"
  /\ CommitCommand(q, n, session.episode)
  /\ UNCHANGED nextEpisode

EndEpisode(q, n) ==
  /\ Checked(q, "Proceed") /\ q.kind = "End"
  /\ session.phase = "TERMINAL" /\ q.episode = session.episode
  /\ shutdown = "no"
  /\ CommitCommand(q, n, session.episode)
  /\ UNCHANGED nextEpisode

AbortEpisode(q, n) ==
  /\ Checked(q, "Proceed") /\ q.kind = "Abort"
  /\ InEpisode(q) /\ shutdown = "no"
  /\ CommitCommand(q, n, session.episode)
  /\ UNCHANGED nextEpisode

\* CloseSession does not look at the state of the runtime.
CloseSession(q, n) ==
  /\ Checked(q, "Proceed") /\ q.kind = "Close"
  /\ Closeable(session.phase)
  /\ CommitCommand(q, n, session.episode)
  /\ UNCHANGED nextEpisode

LiveUnlessReady == session.phase \notin {"OPEN", "READY"}

LiveEpisode == session.phase \in {"RUNNING", "TERMINAL"}

RecoverRestartsSession ==
  /\ shutdown = "no" /\ LiveEpisode
  /\ session' = [session EXCEPT !.phase = "READY"]
  /\ UNCHANGED <<clientVars, networkVars, created, nextEpisode, shutdown,
                 candidate, applied>>

\* The watcher closes the episode of a client that has been silent too long.
RecoverExpiredClientSessions ==
  /\ shutdown = "no" /\ LiveEpisode
  /\ session' = [session EXCEPT !.phase = "ABORTED"]
  /\ UNCHANGED <<clientVars, networkVars, created, nextEpisode, shutdown,
                 candidate, applied>>

\* First critical section of BeginShutdown: copy the session, close the copy.
BeginShutdown ==
  /\ MayShutDown /\ shutdown = "no"
  /\ shutdown' = "closing"
  /\ candidate' = IF LiveEpisode THEN [session EXCEPT !.phase = "ABORTED"]
                  ELSE session
  /\ UNCHANGED <<clientVars, networkVars, created, session, nextEpisode,
                 applied>>

\* Second critical section: the copy replaces the session, if there is one and
\* its samples were committed.
ShutdownCloses ==
  /\ shutdown = "closing"
  /\ shutdown' = "closed"
  /\ session' \in (IF created > 0 THEN {candidate, session} ELSE {session})
  /\ UNCHANGED <<clientVars, networkVars, created, nextEpisode, candidate,
                 applied>>

\* A request is lost, or its handler never runs.
RequestLost(q, n) ==
  /\ network' = network \ {<<q, n>>}
  /\ UNCHANGED <<clientVars, answer, serverVars>>

-----------------------------------------------------------------------------
\* The client.

Active == cursor.phase = "RUNNING"
CanClose == Closeable(cursor.phase)

\* The command RunSession and RunEpisode issue next.
MayIssue(kind) ==
  CASE kind = "Open"  -> client = "opening"
    [] kind = "Init"  -> client = "running" /\ cursor.phase = "OPEN"
    [] kind = "Begin" -> /\ client = "running" /\ cursor.phase = "READY"
                         /\ ~stopping
    [] kind \in {"Update", "FinalUpdate"} ->
                         client = "running" /\ Active /\ ~stopping
    [] kind = "End"   -> client = "running" /\ cursor.phase = "TERMINAL"
    [] kind = "Abort" -> client = "finishing" /\ Active
    [] kind = "Close" -> client = "finishing" /\ CanClose

\* Sequence numbers left for AbortEpisode and CloseSession at the bound.
Reserve(kind) ==
  CASE kind = "Close" -> 0 [] kind = "Abort" -> 1 [] kind = "End" -> 1
    [] OTHER -> 2

\* TaskClient builds a request from the cursor.
Issue(kind) ==
  /\ request = NoRequest /\ MayIssue(kind)
  /\ kind # "Open" => cursor.sequence + Reserve(kind) <= MaxSequence
  /\ request' = [kind |-> kind,
                 sequence |-> IF kind = "Open" THEN 0 ELSE cursor.sequence,
                 episode |-> cursor.episode]
  /\ waits' = 0
  /\ UNCHANGED <<client, cursor, attempt, outcome, stopping, accepted,
                 networkVars, serverVars>>

Stoppable(q) == q.kind \in {"Begin", "Update", "FinalUpdate"}

OutOfBudgetIgnored == FALSE

OutOfBudget == request.kind = "Abort" /\ waits = AbortBudget

\* One round of the loop in Exchange: the first attempt of InvokeUnary.
Invoke ==
  /\ request # NoRequest /\ attempt = 0
  /\ ~(Stoppable(request) /\ stopping) /\ ~OutOfBudget
  /\ attempt' = 1
  /\ network' = network \cup {<<request, 1>>}
  /\ UNCHANGED <<client, cursor, request, waits, outcome, stopping, accepted,
                 answer, serverVars>>

\* A retryable status: the second attempt sends the same bytes.
RetryAttempt ==
  /\ attempt = 1
  /\ attempt' = 2
  /\ network' = network \cup {<<request, 2>>}
  /\ answer' = NoReply
  /\ UNCHANGED <<client, cursor, request, waits, outcome, stopping, accepted,
                 serverVars>>

\* Leave Exchange.
LeaveExchange ==
  request' = NoRequest /\ attempt' = 0 /\ waits' = 0 /\ answer' = NoReply

ConcludeKeepsStopped(result) ==
  /\ LeaveExchange
  /\ CASE client = "opening" -> client' = "done" /\ outcome' = result
       [] client = "running" ->
            /\ client' = IF result = "Unknown" THEN "done" ELSE "finishing"
            /\ outcome' = result
       [] client = "finishing" -> client' = "done" /\ outcome' = outcome
  /\ UNCHANGED <<cursor, stopping, accepted, network, serverVars>>

\* RunSession after a command that was not applied: Unknown ends it at once,
\* and a failed clean-up does not hide the failure before it.
Conclude(result) ==
  /\ LeaveExchange
  /\ CASE client = "opening" -> client' = "done" /\ outcome' = result
       [] client = "running" ->
            /\ client' = IF result = "Unknown" THEN "done" ELSE "finishing"
            /\ outcome' = result
       [] client = "finishing" ->
            /\ client' = "done"
            /\ outcome' = IF outcome \in {"Rejected", "WaitExpired"}
                          THEN outcome ELSE result
  /\ UNCHANGED <<cursor, stopping, accepted, network, serverVars>>

\* InvokeUnary fails: a status that is not retryable, or the second attempt.
InvokeFails ==
  /\ attempt # 0
  /\ Conclude("Unknown")

ExchangeStopped ==
  /\ request # NoRequest /\ attempt = 0
  /\ Stoppable(request) /\ stopping
  /\ Conclude("Stopped")

ExchangeExpired ==
  /\ request # NoRequest /\ attempt = 0 /\ OutOfBudget
  /\ Conclude("WaitExpired")

CommandAccepted == answer.result \in {"APPLIED", "ALREADY_APPLIED"}

Concrete == answer.phase # "UNSPECIFIED"

\* The phase the task client expects in the reply to the command.
ValidReply ==
  CASE request.kind \in {"Update", "FinalUpdate"} ->
         answer.phase \in {"RUNNING", "TERMINAL"}
    [] OTHER -> answer.phase = PhaseAfter(request.kind)

\* AcceptCommandReply and the checks of TaskClient before it.
Accepts ==
  /\ CommandAccepted /\ ValidReply /\ Concrete
  /\ answer.applied = cursor.sequence

IsCommandWait ==
  /\ answer.result = "WAIT" /\ request.kind \in {"Begin", "Update",
                                                 "FinalUpdate", "Abort"}
  /\ answer.applied = cursor.sequence - 1
  /\ Concrete /\ answer.phase = cursor.phase

IsConclusiveRejected ==
  /\ answer.result = "REJECTED"
  /\ answer.applied = cursor.sequence - 1
  /\ Concrete /\ answer.phase = cursor.phase

ReceiveOpened ==
  /\ request.kind = "Open" /\ CommandAccepted /\ answer.phase = "OPEN"
  /\ LeaveExchange
  /\ client' = "running"
  /\ cursor' = [cursor EXCEPT !.sequence = answer.applied + 1,
                              !.phase = answer.phase]
  /\ UNCHANGED <<outcome, stopping, accepted, network, serverVars>>

ReceiveOpenRejected ==
  /\ request.kind = "Open" /\ answer.result = "REJECTED"
  /\ Conclude("Rejected")

\* The command was applied: the cursor moves on.
ReceiveApplied ==
  /\ request.kind \in Commands /\ Accepts
  /\ LeaveExchange
  /\ cursor' = [sequence |-> cursor.sequence + 1, phase |-> answer.phase,
                episode |-> CASE request.kind = "Begin" -> answer.episode
                              [] request.kind \in {"End", "Abort"} -> 0
                              [] OTHER -> cursor.episode]
  /\ accepted' = Append(accepted, request)
  /\ client' = IF request.kind = "Close" THEN "done" ELSE client
  /\ UNCHANGED <<outcome, stopping, network, serverVars>>

\* WAIT: sleep, then send the same request again.
ReceiveWait ==
  /\ request.kind \in Commands /\ IsCommandWait
  /\ attempt' = 0 /\ answer' = NoReply
  /\ waits' = IF request.kind = "Abort" /\ waits < AbortBudget
              THEN waits + 1 ELSE waits
  /\ UNCHANGED <<client, cursor, request, outcome, stopping, accepted,
                 network, serverVars>>

\* Any other answer.
ReceiveRefusal ==
  /\ request.kind \in Commands /\ answer # NoReply
  /\ ~Accepts /\ ~IsCommandWait
  /\ Conclude(IF IsConclusiveRejected THEN "Rejected" ELSE "Unknown")

\* RunSession and RunEpisode notice the stop between two commands.
NoticeStop ==
  /\ client = "running" /\ request = NoRequest /\ stopping
  /\ cursor.phase \in {"READY", "RUNNING"}
  /\ client' = "finishing" /\ outcome' = "Stopped"
  /\ UNCHANGED <<cursor, request, attempt, waits, stopping, accepted,
                 networkVars, serverVars>>

\* The environment cannot apply the actions of an Update.
EnvironmentFails ==
  /\ client = "running" /\ request = NoRequest /\ Active
  /\ Len(accepted) > 0 /\ accepted[Len(accepted)].kind = "Update"
  /\ client' = "finishing" /\ outcome' = "Rejected"
  /\ UNCHANGED <<cursor, request, attempt, waits, stopping, accepted,
                 networkVars, serverVars>>

\* finish() has nothing to abort or to close.
FinishWithout ==
  /\ client = "finishing" /\ request = NoRequest
  /\ ~Active /\ ~CanClose
  /\ client' = "done"
  /\ UNCHANGED <<cursor, request, attempt, waits, outcome, stopping, accepted,
                 networkVars, serverVars>>

RequestStop ==
  /\ ~stopping /\ stopping' = TRUE
  /\ UNCHANGED <<client, cursor, request, attempt, waits, outcome, accepted,
                 networkVars, serverVars>>

-----------------------------------------------------------------------------
Receive ==
  \/ ReceiveOpened \/ ReceiveOpenRejected
  \/ ReceiveApplied \/ ReceiveWait \/ ReceiveRefusal

ClientStep ==
  \/ \E kind \in Commands \cup {"Open"} : Issue(kind)
  \/ Invoke \/ RetryAttempt \/ InvokeFails
  \/ ExchangeStopped \/ ExchangeExpired
  \/ Receive
  \/ NoticeStop \/ EnvironmentFails \/ FinishWithout

Handle(q, n) ==
  \/ OpenSession(q, n) \/ OpenSessionReplayed(q, n) \/ OpenSessionRejected(q, n)
  \/ CommandReplayed(q, n) \/ CommandRejected(q, n) \/ CommandWaits(q, n)
  \/ InitTask(q, n) \/ BeginEpisode(q, n) \/ Update(q, n) \/ EndEpisode(q, n)
  \/ AbortEpisode(q, n) \/ CloseSession(q, n)

Next ==
  \/ ClientStep
  \/ RequestStop
  \/ \E m \in network : Handle(m[1], m[2]) \/ RequestLost(m[1], m[2])
  \/ RecoverExpiredClientSessions
  \/ BeginShutdown
  \/ ShutdownCloses

Spec == Init /\ [][Next]_vars

\* The client's thread runs and gRPC's deadlines end every attempt; nothing is
\* assumed of the network or of the server.
FairSpec == Spec /\ WF_vars(ClientStep)

-----------------------------------------------------------------------------
\* Types of client, network, server and histories.
TypeOK ==
  /\ client \in {"opening", "running", "finishing", "done"}
  /\ cursor \in [sequence : Nat, phase : Phases, episode : Nat]
  /\ request \in Requests \cup {NoRequest}
  /\ attempt \in 0..2
  /\ waits \in 0..AbortBudget
  /\ outcome \in Outcomes
  /\ stopping \in BOOLEAN
  /\ network \subseteq Requests \X (1..2)
  /\ answer \in Replies \cup {NoReply}
  /\ created \in 0..1
  /\ session \in [last : Nat, phase : Phases, episode : Nat,
                  stored : Requests \cup {NoRequest},
                  response : Replies \cup {NoReply}]
  /\ nextEpisode \in Nat \ {0}
  /\ shutdown \in {"no", "closing", "closed"}
  /\ candidate \in [last : Nat, phase : Phases, episode : Nat,
                    stored : Requests \cup {NoRequest},
                    response : Replies \cup {NoReply}]
  /\ applied \in Seq(Requests)
  /\ accepted \in Seq(Requests)

\* The commands the client knows to be applied are the ones the server has
\* applied, in that order, but for at most the one whose reply it has not got,
\* however late attempts, WAIT answers and substituted commands interleave
\* (AcceptCommandReply, IsConclusiveRejected, LifecycleReplayWindow).
HistoriesAgree ==
  shutdown = "no" =>
    /\ Len(accepted) <= Len(applied)
    /\ Len(applied) <= Len(accepted) + 1
    /\ \A i \in 1 .. Len(accepted) : accepted[i] = applied[i]

\* The client and the server agree on the phase and on the episode when they
\* agree on the sequence, unless the watcher has aborted a silent client's
\* episode; the phase echoed in replies and SetEpisode are what keeps it so.
ViewIsCurrent ==
  (shutdown = "no" /\ Len(accepted) = Len(applied) /\ client = "running") =>
    /\ \/ cursor.phase = session.phase
       \/ cursor.phase \in {"RUNNING", "TERMINAL"} /\ session.phase = "ABORTED"
    /\ cursor.episode \in {0, session.episode}
    /\ Active => cursor.episode = session.episode

\* A client that reports a stop has closed its session on the server: no
\* failed AbortEpisode or CloseSession is reported as Stopped (finish()).
StoppedMeansClosed ==
  (shutdown = "no" /\ client = "done" /\ outcome = "Stopped") =>
    session.phase = "CLOSED"

\* A command that CloseSession's success follows can no longer be applied: a
\* closed session stays closed, whatever late requests arrive.
ClosedIsFinal ==
  [][session.phase = "CLOSED" /\ shutdown' = "no" =>
       session'.phase = "CLOSED" /\ applied' = applied]_vars

\* A client that is told to stop comes to an end: attempts, WAIT answers to
\* AbortEpisode and the clean-up are all bounded (Exchange, abort_wait_budget).
StopEnds == stopping ~> client = "done"

\* "Lifecycle commands are strictly contiguous" (replay_window.h): the server
\* applies each sequence number once.  A CloseSession between the two critical
\* sections of BeginShutdown breaks it.
StrictlyContiguous ==
  \A i \in 1 .. Len(applied) : applied[i].sequence = i
=============================================================================
