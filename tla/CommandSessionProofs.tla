------------------------ MODULE CommandSessionProofs ------------------------
(***************************************************************************)
(* Machine-checked proofs about CommandSession, for sessions of any length *)
(* and any number of late attempts.                                        *)
(***************************************************************************)
EXTENDS CommandSession, TLAPS

\* The client has a request exactly in the states that issue it, numbers it
\* after what it has accepted, and has an answer only while it waits for one.
ClientShape ==
  /\ cursor.sequence = Len(accepted) + 1
  /\ request.kind \in Commands =>
       request.sequence = cursor.sequence /\ request.episode = cursor.episode
  /\ request.kind = "None" => request = NoRequest
  /\ request = NoRequest => attempt = 0
  /\ attempt = 0 => answer = NoReply
  /\ client = "opening" => /\ request.kind \in {"None", "Open"}
                           /\ accepted = <<>> /\ applied = <<>>
                           /\ cursor.episode = 0
  /\ client = "running" =>
       request.kind \in {"None", "Init", "Begin", "Update", "FinalUpdate", "End"}
  /\ client = "finishing" => request.kind \in {"None", "Abort", "Close"}
  /\ client = "done" => request = NoRequest
  /\ request.kind \in {"Begin", "Update", "FinalUpdate"} =>
       cursor.phase \in {"READY", "RUNNING"}
  /\ client = "finishing" /\ outcome = "Stopped" =>
       cursor.phase \in {"READY", "RUNNING", "ABORTED"}
  /\ client \in {"running", "finishing"} => created > 0
  /\ request.kind = "Open" =>
       /\ answer.applied = 0
       /\ CommandAccepted => created > 0

\* A request that a handler may still run for is one the client has issued.
NetworkShape ==
  /\ \A m \in network : m[1].kind \in Commands =>
                          m[1].sequence <= cursor.sequence
  /\ client = "opening" => \A m \in network : m[1].kind = "Open"

\* The session is what the last command left, but for an abort by the watcher.
ServerShape ==
  /\ created = 0 => applied = <<>> /\ session.phase = "UNSPECIFIED"
  /\ session.last = Len(applied)
  /\ applied = <<>> =>
       /\ session.stored = NoRequest /\ session.episode = 0
       /\ created > 0 => session.phase = "OPEN"
  /\ applied # <<>> =>
       /\ session.stored = applied[Len(applied)]
       /\ session.stored.kind \in Commands
       /\ session.stored.sequence = Len(applied)
       /\ session.response.phase = PhaseAfter(session.stored.kind)
       /\ session.response.episode = session.episode
       /\ \/ session.phase = session.response.phase
          \/ /\ session.response.phase \in {"RUNNING", "TERMINAL"}
             /\ session.phase = "ABORTED"
       /\ session.stored.kind \in {"Update", "FinalUpdate", "End", "Abort"} =>
            session.stored.episode = session.episode
       /\ session.stored.kind = "Init" => session.stored.episode = 0

\* A success the client is about to receive is that of its own request, which
\* is the last command the server has applied.
AnswerShape ==
  request.kind \in Commands /\ CommandAccepted =>
    /\ Len(applied) = Len(accepted) + 1
    /\ request = session.stored
    /\ answer.phase = session.response.phase
    /\ answer.episode = session.response.episode

\* ViewIsCurrent also holds while the client cleans up.
View ==
  Len(accepted) = Len(applied) /\ client \in {"running", "finishing"} =>
    /\ \/ cursor.phase = session.phase
       \/ cursor.phase \in {"RUNNING", "TERMINAL"} /\ session.phase = "ABORTED"
    /\ cursor.episode \in {0, session.episode}
    /\ Active => cursor.episode = session.episode

IInv ==
  /\ TypeOK /\ ClientShape /\ NetworkShape
  /\ shutdown = "no" => ServerShape /\ AnswerShape /\ View
  /\ HistoriesAgree /\ StoppedMeansClosed

-----------------------------------------------------------------------------
\* Types.

SessionRecords == [last : Nat, phase : Phases, episode : Nat,
                   stored : Requests \cup {NoRequest},
                   response : Replies \cup {NoReply}]

LEMMA PhaseAfterType ==
  \A kind \in Commands : PhaseAfter(kind) \in Phases \ {"UNSPECIFIED", "OPEN"}
  BY DEF Commands, PhaseAfter, Phases

LEMMA ReplyTypes ==
  ASSUME TypeOK
  PROVE  /\ \A r \in {"APPLIED", "ALREADY_APPLIED", "WAIT", "REJECTED"},
               n \in Nat :
              /\ Reply(r, n) \in Replies
              /\ \A p \in Phases : [Reply(r, n) EXCEPT !.phase = p] \in Replies
         /\ [session.response EXCEPT !.result = "ALREADY_APPLIED"] \in Replies
<1>1. session.phase \in Phases /\ session.response \in Replies \cup {NoReply}
  BY DEF TypeOK
<1>2. ASSUME NEW r \in {"APPLIED", "ALREADY_APPLIED", "WAIT", "REJECTED"},
             NEW n \in Nat
      PROVE  /\ Reply(r, n) \in Replies
             /\ \A p \in Phases : [Reply(r, n) EXCEPT !.phase = p] \in Replies
  BY <1>1 DEF Reply, Replies
<1>3. [session.response EXCEPT !.result = "ALREADY_APPLIED"] \in Replies
  BY <1>1 DEF Replies, NoReply, Phases
<1> QED BY <1>2, <1>3

LEMMA AnswerType ==
  ASSUME TypeOK, NEW q, NEW n, NEW r \in Replies, Answer(q, n, r)
  PROVE  /\ network' \subseteq Requests \X (1..2)
         /\ answer' \in Replies \cup {NoReply}
  BY DEF TypeOK, Answer

LEMMA CommitType ==
  ASSUME TypeOK, NEW q \in Requests, q.kind \in Commands, NEW n,
         NEW episode \in Nat, CommitCommand(q, n, episode),
         nextEpisode' \in Nat \ {0}
  PROVE  TypeOK'
<1> DEFINE reply == [result |-> "APPLIED", applied |-> q.sequence,
                     phase |-> PhaseAfter(q.kind), episode |-> episode]
<1>1. reply \in Replies
  BY PhaseAfterType DEF Replies, Requests
<1>2. session' \in SessionRecords
  BY <1>1 DEF CommitCommand, SessionRecords, Replies, Requests
<1>3. /\ network' \subseteq Requests \X (1..2)
      /\ answer' \in Replies \cup {NoReply}
  BY <1>1, AnswerType DEF CommitCommand
<1>4. applied' \in Seq(Requests)
  BY DEF CommitCommand, TypeOK
<1> QED
  BY <1>2, <1>3, <1>4 DEF CommitCommand, TypeOK, SessionRecords, clientVars

LEMMA HandleType ==
  ASSUME TypeOK, NEW m \in network, Handle(m[1], m[2])
  PROVE  TypeOK'
<1> DEFINE q == m[1]
           n == m[2]
<1>1. q \in Requests /\ n \in 1..2
  BY DEF TypeOK
<1>2. q.kind \in Commands \cup {"Open"} /\ q.sequence \in Nat
  BY <1>1 DEF Requests
<1> HIDE DEF q, n
<1>3. CASE OpenSession(q, n)
  <2>1. session' \in SessionRecords
    BY <1>3 DEF OpenSession, TypeOK, SessionRecords, Phases
  <2>2. /\ network' \subseteq Requests \X (1..2)
        /\ answer' \in Replies \cup {NoReply}
    BY <1>3, AnswerType, ReplyTypes DEF OpenSession, Phases
  <2> QED BY <1>3, <2>1, <2>2 DEF OpenSession, TypeOK, SessionRecords, clientVars
<1>4. CASE OpenSessionReplayed(q, n) \/ OpenSessionRejected(q, n)
  <2>1. /\ network' \subseteq Requests \X (1..2)
        /\ answer' \in Replies \cup {NoReply}
    BY <1>4, AnswerType, ReplyTypes
       DEF OpenSessionReplayed, OpenSessionRejected, Phases
  <2> QED BY <1>4, <2>1 DEF OpenSessionReplayed, OpenSessionRejected, TypeOK,
                            clientVars, serverVars
<1>5. CASE \/ CommandReplayed(q, n) \/ CommandRejected(q, n)
           \/ CommandWaits(q, n)
  <2>1. session.last \in Nat
    BY DEF TypeOK
  <2>2. /\ network' \subseteq Requests \X (1..2)
        /\ answer' \in Replies \cup {NoReply}
    BY <1>5, <2>1, AnswerType, ReplyTypes
       DEF CommandReplayed, CommandRejected, CommandWaits
  <2> QED BY <1>5, <2>2 DEF CommandReplayed, CommandRejected, CommandWaits,
                            TypeOK, clientVars, serverVars
<1>6. CASE \/ InitTask(q, n) \/ Update(q, n) \/ EndEpisode(q, n)
           \/ AbortEpisode(q, n) \/ CloseSession(q, n)
  <2>1. session.episode \in Nat /\ nextEpisode \in Nat \ {0}
    BY DEF TypeOK
  <2> QED
    BY <1>1, <1>2, <1>6, <2>1, CommitType
       DEF InitTask, Update, EndEpisode, AbortEpisode, CloseSession, Checked
<1>7. CASE BeginEpisode(q, n)
  <2>1. nextEpisode \in Nat /\ nextEpisode + 1 \in Nat \ {0}
    BY DEF TypeOK
  <2> QED
    BY <1>1, <1>2, <1>7, <2>1, CommitType DEF BeginEpisode, Checked
<1> QED BY <1>3, <1>4, <1>5, <1>6, <1>7 DEF Handle, q, n

LEMMA ServerType ==
  ASSUME TypeOK,
         \/ RecoverExpiredClientSessions \/ BeginShutdown \/ ShutdownCloses
         \/ \E m \in network : RequestLost(m[1], m[2])
  PROVE  TypeOK'
<1> USE DEF clientVars, networkVars, serverVars
<1>1. /\ session' \in SessionRecords /\ candidate' \in SessionRecords
      /\ network' \subseteq network
      /\ shutdown' \in {"no", "closing", "closed"}
      /\ UNCHANGED <<clientVars, answer, created, nextEpisode, applied>>
  BY DEF RecoverExpiredClientSessions, BeginShutdown, ShutdownCloses,
         RequestLost, TypeOK, SessionRecords, Phases
<1> QED BY <1>1 DEF TypeOK, SessionRecords

LEMMA ConcludeType ==
  ASSUME TypeOK, client # "done", NEW result \in Outcomes, Conclude(result)
  PROVE  TypeOK'
<1>1. /\ client' \in {"opening", "running", "finishing", "done"}
      /\ outcome' \in Outcomes
  BY DEF TypeOK, Conclude
<1>2. request' = NoRequest /\ attempt' = 0 /\ waits' = 0 /\ answer' = NoReply
  BY DEF Conclude, LeaveExchange
<1>3. UNCHANGED <<cursor, stopping, accepted, network, serverVars>>
  BY DEF Conclude
<1> QED BY <1>1, <1>2, <1>3, ConstantsAssumption DEF TypeOK, serverVars

LEMMA ReceiveType ==
  ASSUME TypeOK, ClientShape, Receive
  PROVE  TypeOK'
<1> USE DEF serverVars
<1>1. CASE ReceiveOpened
  <2>1. answer.phase \in Phases /\ answer.applied \in Nat
    BY DEF TypeOK, Replies, NoReply, Phases
  <2>2. cursor' \in [sequence : Nat, phase : Phases, episode : Nat]
    <3>1. /\ cursor \in [sequence : Nat, phase : Phases, episode : Nat]
          /\ answer.applied + 1 \in Nat
      BY <2>1 DEF TypeOK
    <3> QED BY <1>1, <2>1, <3>1 DEF ReceiveOpened
  <2> QED BY <1>1, <2>2, ConstantsAssumption
          DEF ReceiveOpened, TypeOK, LeaveExchange
<1>2. CASE ReceiveApplied
  <2>1. answer.phase \in Phases /\ answer.episode \in Nat
    BY DEF TypeOK, Replies, NoReply, Phases
  <2>2. cursor' \in [sequence : Nat, phase : Phases, episode : Nat]
    BY <1>2, <2>1 DEF ReceiveApplied, TypeOK
  <2>3. request \in Requests
    BY <1>2 DEF ReceiveApplied, TypeOK, NoRequest, Commands
  <2> QED BY <1>2, <2>2, <2>3, ConstantsAssumption
          DEF ReceiveApplied, TypeOK, LeaveExchange
<1>3. CASE ReceiveWait
  BY <1>3, ConstantsAssumption DEF ReceiveWait, TypeOK
<1>4. CASE ReceiveOpenRejected \/ ReceiveRefusal
  <2>1. client # "done"
    BY <1>4 DEF ReceiveOpenRejected, ReceiveRefusal, ClientShape, NoRequest,
                Commands
  <2> QED BY <1>4, <2>1, ConcludeType
          DEF ReceiveOpenRejected, ReceiveRefusal, Outcomes
<1> QED BY <1>1, <1>2, <1>3, <1>4 DEF Receive

LEMMA ClientType ==
  ASSUME TypeOK, ClientShape, ClientStep \/ RequestStop
  PROVE  TypeOK'
<1> USE DEF networkVars, serverVars
<1>1. CASE \E kind \in Commands \cup {"Open"} : Issue(kind)
  <2>1. request' \in Requests
    BY <1>1 DEF Issue, TypeOK, Requests
  <2> QED BY <1>1, <2>1, ConstantsAssumption DEF Issue, TypeOK
<1>2. CASE Invoke
  BY <1>2 DEF Invoke, TypeOK
<1>3. CASE RetryAttempt
  BY <1>3 DEF RetryAttempt, TypeOK, ClientShape
<1>4. CASE InvokeFails \/ ExchangeStopped \/ ExchangeExpired
  <2>1. client # "done"
    BY <1>4 DEF InvokeFails, ExchangeStopped, ExchangeExpired, ClientShape
  <2> QED BY <1>4, <2>1, ConcludeType
          DEF InvokeFails, ExchangeStopped, ExchangeExpired, Outcomes
<1>5. CASE NoticeStop \/ EnvironmentFails \/ FinishWithout \/ RequestStop
  BY <1>5 DEF NoticeStop, EnvironmentFails, FinishWithout, RequestStop, TypeOK,
              Outcomes
<1> QED BY <1>1, <1>2, <1>3, <1>4, <1>5, ReceiveType DEF ClientStep

-----------------------------------------------------------------------------
\* The server's handlers.

LEMMA AnswerFacts ==
  ASSUME IInv, NEW m \in network, NEW r, Answer(m[1], m[2], r)
  PROVE  /\ m[1] \in Requests /\ m[1].kind \in Commands \cup {"Open"}
         /\ m[1].sequence \in Nat
         /\ network' \subseteq network
         /\ \/ answer' = answer
            \/ answer' = r /\ m[1] = request /\ attempt # 0
<1>1. m[1] \in Requests /\ m[2] \in 1..2
  BY DEF IInv, TypeOK
<1> QED BY <1>1 DEF Answer, Requests

\* A handler that only answers.  A success is the stored one, of the last
\* command.
LEMMA ReplyPreserves ==
  ASSUME IInv, TypeOK', NEW m \in network, NEW r, Answer(m[1], m[2], r),
         UNCHANGED <<clientVars, serverVars>>,
         m[1].kind = "Open" =>
           /\ r.applied = 0
           /\ r.result \in {"APPLIED", "ALREADY_APPLIED"} => created > 0,
         (/\ shutdown = "no" /\ m[1].kind \in Commands
          /\ r.result \in {"APPLIED", "ALREADY_APPLIED"}) =>
           /\ m[1] = session.stored /\ session.stored # NoRequest
           /\ r.phase = session.response.phase
           /\ r.episode = session.response.episode
  PROVE  IInv'
<1> USE DEF clientVars, serverVars
<1>1. ClientShape'
  BY AnswerFacts DEF IInv, ClientShape, CommandAccepted, Commands
<1>2. NetworkShape'
  BY AnswerFacts DEF IInv, NetworkShape
<1>3. (shutdown = "no" => ServerShape)' /\ (shutdown = "no" => View)'
  BY DEF IInv, ServerShape, View, Active
<1>4. (shutdown = "no" => AnswerShape)'
  <2> SUFFICES ASSUME shutdown = "no", request.kind \in Commands,
                      answer'.result \in {"APPLIED", "ALREADY_APPLIED"}
               PROVE  AnswerShape'
    BY DEF AnswerShape, CommandAccepted
  <2>1. CASE answer' = answer
    BY <2>1 DEF IInv, AnswerShape, CommandAccepted
  <2>2. CASE answer' = r /\ m[1] = request
    <3>1. request = session.stored /\ session.stored # NoRequest
      BY <2>2
    <3>2. Len(applied) = session.stored.sequence
      BY <3>1 DEF IInv, ServerShape
    <3>3. request.sequence = Len(accepted) + 1
      BY DEF IInv, ClientShape
    <3> QED BY <2>2, <3>1, <3>2, <3>3 DEF AnswerShape
  <2> QED BY <2>1, <2>2, AnswerFacts
<1>5. HistoriesAgree' /\ StoppedMeansClosed'
  BY DEF IInv, HistoriesAgree, StoppedMeansClosed
<1> QED BY <1>1, <1>2, <1>3, <1>4, <1>5 DEF IInv

\* A command is applied: it carries the next sequence number, which the client
\* has not gone past, so the client has accepted all before it.
LEMMA CommitPreserves ==
  ASSUME IInv, TypeOK', NEW m \in network, NEW episode \in Nat,
         Checked(m[1], "Proceed"), CommitCommand(m[1], m[2], episode),
         session.phase # "CLOSED",
         m[1].kind \in {"Update", "FinalUpdate", "End", "Abort"} =>
           m[1].episode = episode,
         m[1].kind = "Init" => m[1].episode = 0
  PROVE  IInv'
<1> DEFINE q == m[1]
<1> USE DEF clientVars
<1>1. /\ q \in Requests /\ q.kind \in Commands /\ q.sequence \in Nat
      /\ network' \subseteq network /\ created > 0
      /\ UNCHANGED <<clientVars, created, shutdown, candidate>>
  BY AnswerFacts DEF CommitCommand, Checked
<1>2. /\ session'.last = q.sequence /\ session'.stored = q
      /\ session'.phase = PhaseAfter(q.kind)
      /\ session'.response.phase = PhaseAfter(q.kind)
      /\ session'.response.episode = episode /\ session'.episode = episode
      /\ \/ answer' = answer
         \/ answer' = session'.response /\ q = request /\ attempt # 0
  BY AnswerFacts DEF CommitCommand
<1>3. /\ applied \in Seq(Requests) /\ accepted \in Seq(Requests)
      /\ applied' = Append(applied, q)
  BY DEF CommitCommand, IInv, TypeOK
<1>4. Len(applied') = Len(applied) + 1 /\ applied' # <<>>
      /\ applied'[Len(applied')] = q
      /\ \A i \in 1 .. Len(applied) : applied'[i] = applied[i]
  BY <1>1, <1>3
<1>5. q.sequence <= cursor.sequence /\ client # "opening"
  BY <1>1 DEF IInv, NetworkShape, Commands
<1>6. shutdown = "no" => q.sequence = Len(applied) + 1
  BY DEF Checked, Classify, IInv, ServerShape
<1>7. shutdown = "no" => Len(accepted) = Len(applied)
  <2>1. Len(accepted) \in Nat /\ Len(applied) \in Nat
    BY <1>3
  <2> QED BY <1>5, <1>6, <2>1 DEF IInv, ClientShape, HistoriesAgree
<1> HIDE DEF q
<1>8. ClientShape'
  BY <1>1, <1>2, <1>5 DEF IInv, ClientShape, CommandAccepted, Commands
<1>9. NetworkShape'
  BY <1>1 DEF IInv, NetworkShape
<1>10. (shutdown = "no" => ServerShape)'
  BY <1>1, <1>2, <1>4, <1>6 DEF ServerShape, q
<1>11. (shutdown = "no" => AnswerShape)'
  <2> SUFFICES ASSUME shutdown = "no", request.kind \in Commands,
                      answer'.result \in {"APPLIED", "ALREADY_APPLIED"}
               PROVE  AnswerShape'
    BY <1>1 DEF AnswerShape, CommandAccepted
  <2>1. Len(accepted) \in Nat /\ Len(applied) = Len(accepted)
    BY <1>3, <1>7
  <2>2. answer' # answer
    BY <2>1 DEF IInv, AnswerShape, CommandAccepted
  <2> QED BY <1>1, <1>2, <1>4, <2>1, <2>2 DEF AnswerShape
<1>12. (shutdown = "no" => View)'
  <2>1. shutdown = "no" => Len(accepted') # Len(applied')
    BY <1>1, <1>3, <1>4, <1>7
  <2> QED BY <1>1, <2>1 DEF View
<1>13. HistoriesAgree'
  BY <1>1, <1>3, <1>4, <1>7 DEF IInv, HistoriesAgree
<1>14. StoppedMeansClosed'
  BY <1>1 DEF IInv, StoppedMeansClosed
<1> QED BY <1>8, <1>9, <1>10, <1>11, <1>12, <1>13, <1>14 DEF IInv

LEMMA HandlePreserves ==
  ASSUME IInv, NEW m \in network, Handle(m[1], m[2])
  PROVE  IInv'
<1> DEFINE q == m[1]
           n == m[2]
<1>1. TypeOK'
  BY HandleType DEF IInv
<1>2. /\ created \in Nat /\ session.episode \in Nat
      /\ nextEpisode \in Nat
  BY DEF IInv, TypeOK
<1>3. CASE OpenSession(q, n)
  <2> USE DEF clientVars
  <2>1. /\ created = 0 /\ created' = 1 /\ shutdown' = shutdown
        /\ q.kind = "Open" /\ network' \subseteq network
        /\ UNCHANGED <<clientVars, applied>>
        /\ \/ answer' = answer
           \/ q = request /\ attempt # 0 /\ answer'.applied = 0
    <3> DEFINE r == [Reply("APPLIED", 0) EXCEPT !.phase = "OPEN"]
    <3>1. r.applied = 0
      BY DEF Reply
    <3>2. Answer(q, n, r)
      BY <1>3 DEF OpenSession
    <3> HIDE DEF r
    <3> QED BY <1>3, <3>1, <3>2, AnswerFacts DEF OpenSession
  <2>2. /\ session'.phase = "OPEN" /\ session'.last = session.last
        /\ session'.stored = session.stored
        /\ session'.episode = session.episode
    BY <1>3 DEF OpenSession, IInv, TypeOK
  <2> HIDE DEF q
  <2>3. ClientShape' /\ NetworkShape'
    BY <2>1 DEF IInv, ClientShape, NetworkShape, CommandAccepted, Commands
  <2>4. shutdown = "no" =>
          applied = <<>> /\ client \notin {"running", "finishing"}
    BY <2>1 DEF IInv, ServerShape, ClientShape
  <2>5. (shutdown = "no" => ServerShape)'
    BY <2>1, <2>2 DEF IInv, ServerShape
  <2>6. (shutdown = "no" => AnswerShape)'
    BY <2>1, <2>4 DEF IInv, AnswerShape, CommandAccepted, Commands, ClientShape,
                      ServerShape, TypeOK
  <2>7. (shutdown = "no" => View)'
    BY <2>1, <2>4 DEF View
  <2>8. HistoriesAgree' /\ StoppedMeansClosed'
    BY <2>1 DEF IInv, HistoriesAgree, StoppedMeansClosed, ServerShape
  <2> QED BY <1>1, <2>3, <2>5, <2>6, <2>7, <2>8 DEF IInv
<1>4. CASE OpenSessionReplayed(q, n) \/ OpenSessionRejected(q, n)
  <2>1. /\ [Reply("ALREADY_APPLIED", 0) EXCEPT !.phase = "OPEN"].applied = 0
        /\ [Reply("REJECTED", 0) EXCEPT !.phase = "UNSPECIFIED"].applied = 0
        /\ [Reply("REJECTED", 0) EXCEPT !.phase = "UNSPECIFIED"].result
             = "REJECTED"
    BY DEF Reply
  <2>2. PICK r : /\ Answer(q, n, r) /\ r.applied = 0 /\ q.kind = "Open"
                 /\ r.result = "REJECTED" \/ created > 0
                 /\ UNCHANGED <<clientVars, serverVars>>
    BY <1>4, <2>1 DEF OpenSessionReplayed, OpenSessionRejected
  <2> QED BY <1>1, <2>2, ReplyPreserves DEF Commands
<1>5. CASE CommandReplayed(q, n)
  <2> DEFINE r == [session.response EXCEPT !.result = "ALREADY_APPLIED"]
  <2>1. /\ r.phase = session.response.phase
        /\ r.episode = session.response.episode
    BY DEF IInv, TypeOK, Replies, NoReply
  <2>2. q.kind # "Open" /\ q = session.stored /\ session.stored # NoRequest
    BY <1>5 DEF CommandReplayed, Checked, Classify
  <2>3. Answer(q, n, r) /\ UNCHANGED <<clientVars, serverVars>>
    BY <1>5 DEF CommandReplayed
  <2> HIDE DEF r
  <2> QED BY <1>1, <2>1, <2>2, <2>3, ReplyPreserves
<1>6. CASE CommandRejected(q, n) \/ CommandWaits(q, n)
  <2>1. PICK r : /\ Answer(q, n, r) /\ q.kind # "Open"
                 /\ r.result \in {"REJECTED", "WAIT"}
                 /\ UNCHANGED <<clientVars, serverVars>>
    BY <1>6 DEF CommandRejected, CommandWaits, Checked, Reply
  <2> QED BY <1>1, <2>1, ReplyPreserves
<1>7. CASE InitTask(q, n)
  BY <1>1, <1>2, <1>7, CommitPreserves DEF InitTask
<1>8. CASE BeginEpisode(q, n)
  BY <1>1, <1>2, <1>8, CommitPreserves DEF BeginEpisode
<1>9. CASE Update(q, n) \/ EndEpisode(q, n) \/ AbortEpisode(q, n)
  BY <1>1, <1>2, <1>9, CommitPreserves
     DEF Update, EndEpisode, AbortEpisode, InEpisode
<1>10. CASE CloseSession(q, n)
  BY <1>1, <1>2, <1>10, CommitPreserves DEF CloseSession, Closeable
<1> QED BY <1>3, <1>4, <1>5, <1>6, <1>7, <1>8, <1>9, <1>10 DEF Handle

\* The watcher, the shutdown and the network.
LEMMA ServerPreserves ==
  ASSUME IInv,
         \/ RecoverExpiredClientSessions \/ BeginShutdown \/ ShutdownCloses
         \/ \E m \in network : RequestLost(m[1], m[2])
  PROVE  IInv'
<1> USE DEF clientVars, networkVars, serverVars
<1>1. TypeOK'
  BY ServerType DEF IInv
<1>2. /\ UNCHANGED <<clientVars, answer, created, applied>>
      /\ network' \subseteq network
  BY DEF RecoverExpiredClientSessions, BeginShutdown, ShutdownCloses,
         RequestLost
<1>3. ClientShape' /\ NetworkShape'
  BY <1>2 DEF IInv, ClientShape, NetworkShape, CommandAccepted
<1>4. CASE shutdown' # "no"
  BY <1>1, <1>3, <1>4 DEF IInv, HistoriesAgree, StoppedMeansClosed
<1>5. CASE shutdown' = "no" /\ session' = session /\ shutdown = "no"
  BY <1>1, <1>2, <1>3, <1>5
     DEF IInv, HistoriesAgree, StoppedMeansClosed, ServerShape, AnswerShape,
         View, CommandAccepted, Active
<1>6. CASE RecoverExpiredClientSessions
  <2>1. /\ shutdown = "no" /\ shutdown' = "no"
        /\ session.phase \in {"RUNNING", "TERMINAL"}
    BY <1>6 DEF RecoverExpiredClientSessions, LiveEpisode
  <2>2. /\ session'.phase = "ABORTED" /\ session'.last = session.last
        /\ session'.stored = session.stored
        /\ session'.response = session.response
        /\ session'.episode = session.episode
    BY <1>6 DEF RecoverExpiredClientSessions, IInv, TypeOK
  <2>3. ServerShape'
    BY <1>2, <2>1, <2>2 DEF IInv, ServerShape
  <2>4. AnswerShape' /\ View'
    BY <1>2, <2>1, <2>2 DEF IInv, AnswerShape, CommandAccepted, View, Active
  <2>5. HistoriesAgree' /\ StoppedMeansClosed'
    BY <1>2, <2>1 DEF IInv, HistoriesAgree, StoppedMeansClosed
  <2> QED BY <1>1, <1>3, <2>3, <2>4, <2>5 DEF IInv
<1>7. CASE BeginShutdown \/ ShutdownCloses
  BY <1>4, <1>7 DEF BeginShutdown, ShutdownCloses
<1>8. CASE \E m \in network : RequestLost(m[1], m[2])
  BY <1>4, <1>5, <1>8 DEF RequestLost
<1> QED BY <1>6, <1>7, <1>8

-----------------------------------------------------------------------------
\* The client.

LEMMA NoRequestFacts ==
  NoRequest.kind = "None" /\ "None" \notin Commands \cup {"Open"}
  BY DEF NoRequest, Commands

\* The command was not applied.  Only a command that is issued in a READY or a
\* RUNNING phase can be stopped, and none that cleans up.
LEMMA ConcludePreserves ==
  ASSUME IInv, TypeOK', request # NoRequest, NEW result \in Outcomes,
         Conclude(result), result = "Stopped" => Stoppable(request)
  PROVE  IInv'
<1> USE DEF serverVars
<1>1. /\ request' = NoRequest /\ attempt' = 0 /\ answer' = NoReply
      /\ UNCHANGED <<cursor, accepted, network, serverVars>>
  BY DEF Conclude, LeaveExchange
<1>2. \/ /\ client = "opening" /\ client' = "done" /\ outcome' = result
      \/ /\ client = "running" /\ outcome' = result
         /\ client' = IF result = "Unknown" THEN "done" ELSE "finishing"
      \/ /\ client = "finishing" /\ client' = "done"
         /\ outcome' = IF outcome \in {"Rejected", "WaitExpired"} THEN outcome
                       ELSE result
  BY DEF Conclude, IInv, ClientShape, TypeOK
<1>3. result = "Stopped" =>
        client = "running" /\ cursor.phase \in {"READY", "RUNNING"}
  BY <1>2 DEF Stoppable, IInv, ClientShape
<1>4. ClientShape' /\ NetworkShape'
  BY <1>1, <1>2, <1>3, NoRequestFacts DEF IInv, ClientShape, NetworkShape
<1>5. (shutdown = "no" => ServerShape)' /\ (shutdown = "no" => AnswerShape)'
  BY <1>1, NoRequestFacts DEF IInv, ServerShape, AnswerShape
<1>6. (shutdown = "no" => View)'
  BY <1>1, <1>2 DEF IInv, View, Active
<1>7. HistoriesAgree' /\ StoppedMeansClosed'
  BY <1>1, <1>2, <1>3 DEF IInv, HistoriesAgree, StoppedMeansClosed
<1> QED BY <1>4, <1>5, <1>6, <1>7 DEF IInv

\* The client leaves the command as it is, or has none.
LEMMA WaitPreserves ==
  ASSUME IInv, TypeOK',
         \/ Invoke \/ RetryAttempt \/ ReceiveWait \/ RequestStop
  PROVE  IInv'
<1> USE DEF Invoke, RetryAttempt, ReceiveWait, RequestStop, networkVars,
            serverVars
<1>1. /\ UNCHANGED <<client, cursor, request, outcome, accepted, serverVars>>
      /\ network' \subseteq network \cup {<<request, 1>>, <<request, 2>>}
      /\ answer' \in {answer, NoReply}
      /\ network' # network => request # NoRequest
      /\ attempt' = 0 => answer' = NoReply
      /\ request = NoRequest => attempt' = 0
  BY NoRequestFacts DEF IInv, ClientShape
<1>2. NoReply.applied = 0 /\ NoReply.result = "None"
  BY DEF NoReply
<1> HIDE DEF Invoke, RetryAttempt, ReceiveWait, RequestStop
<1>3. ClientShape'
  BY <1>1, <1>2 DEF IInv, ClientShape, CommandAccepted
<1>4. NetworkShape'
  <2>1. cursor.sequence \in Nat /\ request.kind \in Commands \cup {"Open", "None"}
    BY DEF IInv, TypeOK, Requests, NoRequest
  <2> QED BY <1>1, <2>1, NoRequestFacts
          DEF IInv, ClientShape, NetworkShape, Commands
<1>5. (shutdown = "no" => ServerShape /\ AnswerShape /\ View)'
  BY <1>1, <1>2 DEF IInv, ServerShape, AnswerShape, View, Active,
                    CommandAccepted
<1>6. HistoriesAgree' /\ StoppedMeansClosed'
  BY <1>1 DEF IInv, HistoriesAgree, StoppedMeansClosed
<1> QED BY <1>3, <1>4, <1>5, <1>6 DEF IInv

LEMMA IssuePreserves ==
  ASSUME IInv, TypeOK', NEW kind \in Commands \cup {"Open"}, Issue(kind)
  PROVE  IInv'
<1> USE DEF networkVars, serverVars
<1>1. /\ UNCHANGED <<client, cursor, attempt, outcome, accepted, network, answer,
                     serverVars>>
      /\ request'.kind = kind /\ request'.episode = cursor.episode
      /\ kind \in Commands => request'.sequence = cursor.sequence
      /\ answer = NoReply /\ attempt = 0 /\ client # "done"
      /\ client = "opening" => kind = "Open"
      /\ client = "running" =>
           kind \in {"Init", "Begin", "Update", "FinalUpdate", "End"}
      /\ client = "finishing" => kind \in {"Abort", "Close"}
      /\ kind \in {"Begin", "Update", "FinalUpdate"} =>
           cursor.phase \in {"READY", "RUNNING"}
  BY DEF Issue, MayIssue, Commands, IInv, ClientShape, Active
<1>2. NoReply.applied = 0 /\ NoReply.result = "None"
  BY DEF NoReply
<1>3. ClientShape'
  BY <1>1, <1>2, NoRequestFacts DEF IInv, ClientShape, CommandAccepted
<1>4. NetworkShape'
  BY <1>1 DEF IInv, NetworkShape
<1>5. (shutdown = "no" => ServerShape /\ AnswerShape /\ View)'
  BY <1>1, <1>2 DEF IInv, ServerShape, AnswerShape, View, Active,
                    CommandAccepted
<1>6. HistoriesAgree' /\ StoppedMeansClosed'
  BY <1>1 DEF IInv, HistoriesAgree, StoppedMeansClosed
<1> QED BY <1>3, <1>4, <1>5, <1>6 DEF IInv

LEMMA ReceiveOpenedPreserves ==
  ASSUME IInv, TypeOK', ReceiveOpened
  PROVE  IInv'
<1> USE DEF serverVars
<1>1. /\ client = "opening" /\ accepted = <<>> /\ applied = <<>>
      /\ cursor.episode = 0 /\ created > 0 /\ Len(accepted) = 0
      /\ cursor.sequence = 1
  <2>1. request.kind = "Open" /\ CommandAccepted
    BY DEF ReceiveOpened
  <2>2. client = "opening"
    BY <2>1, NoRequestFacts DEF IInv, ClientShape, TypeOK
  <2> QED BY <2>1, <2>2 DEF IInv, ClientShape
<1>2. /\ cursor'.sequence = 1 /\ cursor'.phase = "OPEN" /\ cursor'.episode = 0
      /\ request' = NoRequest /\ attempt' = 0 /\ answer' = NoReply
      /\ client' = "running"
      /\ UNCHANGED <<outcome, accepted, network, serverVars>>
  BY <1>1 DEF ReceiveOpened, LeaveExchange, IInv, TypeOK, ClientShape
<1>3. ClientShape' /\ NetworkShape'
  BY <1>1, <1>2, NoRequestFacts DEF IInv, ClientShape, NetworkShape
<1>4. (shutdown = "no" => ServerShape /\ AnswerShape)'
  BY <1>2, NoRequestFacts DEF IInv, ServerShape, AnswerShape
<1>5. (shutdown = "no" => View)'
  BY <1>1, <1>2 DEF IInv, ServerShape, View, Active
<1>6. HistoriesAgree' /\ StoppedMeansClosed'
  BY <1>2 DEF IInv, HistoriesAgree, StoppedMeansClosed
<1> QED BY <1>3, <1>4, <1>5, <1>6 DEF IInv

\* The reply is that of the last command the server has applied, which is the
\* client's: both histories end with it, and what the client takes over is what
\* the session holds unless the watcher has aborted the episode since.
LEMMA ReceiveAppliedPreserves ==
  ASSUME IInv, TypeOK', ReceiveApplied
  PROVE  IInv'
<1> USE DEF serverVars
<1>1. /\ request.kind \in Commands /\ CommandAccepted
      /\ request' = NoRequest /\ attempt' = 0 /\ answer' = NoReply
      /\ cursor'.sequence = cursor.sequence + 1
      /\ cursor'.phase = answer.phase
      /\ request.kind = "Begin" => cursor'.episode = answer.episode
      /\ request.kind \in {"End", "Abort"} => cursor'.episode = 0
      /\ request.kind \notin {"Begin", "End", "Abort"} =>
           cursor'.episode = cursor.episode
      /\ client' = IF request.kind = "Close" THEN "done" ELSE client
      /\ UNCHANGED <<outcome, network, serverVars>>
  BY DEF ReceiveApplied, Accepts, LeaveExchange
<1>2. /\ request.kind = "Abort" => answer.phase = "ABORTED"
      /\ request.kind = "Close" => answer.phase = "CLOSED"
      /\ request.kind \in {"Init", "End"} => answer.phase = "READY"
  BY DEF ReceiveApplied, Accepts, ValidReply, PhaseAfter
<1>3. /\ accepted \in Seq(Requests) /\ request \in Requests
      /\ accepted' = Append(accepted, request) /\ applied \in Seq(Requests)
  BY NoRequestFacts DEF ReceiveApplied, IInv, TypeOK
<1>4. /\ Len(accepted') = Len(accepted) + 1
      /\ accepted'[Len(accepted) + 1] = request
      /\ \A i \in 1 .. Len(accepted) : accepted'[i] = accepted[i]
      /\ Len(accepted) \in Nat /\ Len(applied) \in Nat
  BY <1>3
<1>5. /\ cursor.sequence \in Nat /\ cursor.sequence = Len(accepted) + 1
      /\ request.episode = cursor.episode
      /\ client \in {"running", "finishing"}
      /\ client = "finishing" <=> request.kind \in {"Abort", "Close"}
  BY <1>1, NoRequestFacts DEF IInv, ClientShape, TypeOK, Commands
<1>6. shutdown = "no" =>
        /\ Len(applied) = Len(accepted) + 1 /\ applied # <<>>
        /\ request = session.stored /\ request = applied[Len(applied)]
        /\ answer.phase = session.response.phase
        /\ answer.episode = session.episode
        /\ \/ session.phase = answer.phase
           \/ /\ answer.phase \in {"RUNNING", "TERMINAL"}
              /\ session.phase = "ABORTED"
  BY <1>1, <1>4 DEF IInv, AnswerShape, ServerShape
<1>7. ClientShape'
  BY <1>1, <1>2, <1>4, <1>5, NoRequestFacts DEF IInv, ClientShape
<1>8. NetworkShape'
  <2>1. \A m \in network : m[1].sequence \in Nat
    BY DEF IInv, TypeOK, Requests
  <2> QED BY <1>1, <1>5, <2>1 DEF IInv, NetworkShape
<1>9. (shutdown = "no" => ServerShape /\ AnswerShape)'
  BY <1>1, NoRequestFacts DEF IInv, ServerShape, AnswerShape
<1>10. (shutdown = "no" => View)'
  <2> SUFFICES ASSUME shutdown = "no", request.kind # "Close" PROVE View'
    BY <1>1 DEF View
  <2>1. cursor'.episode \in {0, session.episode}
    BY <1>1, <1>5, <1>6 DEF IInv, ServerShape, Commands
  <2>2. cursor'.phase = "RUNNING" => cursor'.episode = session.episode
    BY <1>1, <1>2, <1>5, <1>6 DEF IInv, ServerShape, Commands
  <2> QED BY <1>1, <1>6, <2>1, <2>2 DEF View, Active
<1>11. HistoriesAgree'
  BY <1>1, <1>4, <1>6 DEF IInv, HistoriesAgree
<1>12. StoppedMeansClosed'
  BY <1>1, <1>2, <1>5, <1>6 DEF StoppedMeansClosed
<1> QED BY <1>7, <1>8, <1>9, <1>10, <1>11, <1>12 DEF IInv

\* Between two commands.
LEMMA BetweenPreserves ==
  ASSUME IInv, TypeOK', NoticeStop \/ EnvironmentFails \/ FinishWithout
  PROVE  IInv'
<1> USE DEF networkVars, serverVars, NoticeStop, EnvironmentFails,
            FinishWithout
<1>1. /\ UNCHANGED <<cursor, request, attempt, accepted, network, answer,
                     serverVars>>
      /\ request = NoRequest
      /\ \/ /\ client = "running" /\ client' = "finishing"
            /\ outcome' = "Stopped" => cursor.phase \in {"READY", "RUNNING"}
         \/ /\ client = "finishing" /\ client' = "done" /\ outcome' = outcome
            /\ ~Active /\ ~CanClose
  OBVIOUS
<1> HIDE DEF NoticeStop, EnvironmentFails, FinishWithout
<1>2. ClientShape' /\ NetworkShape'
  BY <1>1, NoRequestFacts DEF IInv, ClientShape, NetworkShape, CommandAccepted
<1>3. (shutdown = "no" => ServerShape /\ AnswerShape /\ View)'
  BY <1>1 DEF IInv, ServerShape, AnswerShape, View, Active, CommandAccepted
<1>4. HistoriesAgree'
  BY <1>1 DEF IInv, HistoriesAgree
<1>5. StoppedMeansClosed'
  BY <1>1 DEF IInv, ClientShape, StoppedMeansClosed, Active, CanClose, Closeable
<1> QED BY <1>2, <1>3, <1>4, <1>5 DEF IInv

LEMMA ClientPreserves ==
  ASSUME IInv, ClientStep \/ RequestStop
  PROVE  IInv'
<1>1. TypeOK'
  BY ClientType DEF IInv
<1>2. CASE InvokeFails \/ ExchangeStopped \/ ExchangeExpired
  <2>1. request # NoRequest
    BY <1>2 DEF InvokeFails, ExchangeStopped, ExchangeExpired, IInv, ClientShape
  <2> QED BY <1>1, <1>2, <2>1, ConcludePreserves
          DEF InvokeFails, ExchangeStopped, ExchangeExpired, Outcomes
<1>3. CASE ReceiveOpenRejected \/ ReceiveRefusal
  <2>1. request # NoRequest
    BY <1>3, NoRequestFacts DEF ReceiveOpenRejected, ReceiveRefusal
  <2> QED BY <1>1, <1>3, <2>1, ConcludePreserves
          DEF ReceiveOpenRejected, ReceiveRefusal, Outcomes
<1> QED
  BY <1>1, <1>2, <1>3, IssuePreserves, WaitPreserves, ReceiveOpenedPreserves,
     ReceiveAppliedPreserves, BetweenPreserves
     DEF ClientStep, Receive

-----------------------------------------------------------------------------
LEMMA InitInvariant == Init => IInv
<1> SUFFICES ASSUME Init PROVE IInv
  OBVIOUS
<1>1. TypeOK
  <2>1. cursor \in [sequence : Nat, phase : Phases, episode : Nat]
    BY DEF Init, Phases
  <2>2. session \in SessionRecords
    BY DEF Init, SessionRecords, Phases
  <2>3. applied \in Seq(Requests) /\ accepted \in Seq(Requests)
    BY DEF Init
  <2>4. /\ client \in {"opening", "running", "finishing", "done"}
        /\ request \in Requests \cup {NoRequest}
        /\ answer \in Replies \cup {NoReply}
        /\ attempt \in 0..2 /\ waits \in 0..AbortBudget /\ created \in 0..1
        /\ shutdown \in {"no", "closing", "closed"}
        /\ nextEpisode \in Nat \ {0}
    BY ConstantsAssumption DEF Init
  <2>5. outcome \in Outcomes /\ stopping \in BOOLEAN
    BY Zenon DEF Init, Outcomes
  <2>6. candidate \in SessionRecords
    BY <2>2 DEF Init
  <2>7. network \subseteq Requests \X (1..2)
    <3>1. network = {}
      BY DEF Init
    <3> QED BY <3>1
  <2> QED
    BY <2>1, <2>2, <2>3, <2>4, <2>5, <2>6, <2>7 DEF TypeOK, SessionRecords
<1>2. ClientShape /\ NetworkShape
  BY NoRequestFacts DEF Init, ClientShape, NetworkShape
<1>3. ServerShape /\ AnswerShape /\ View
  BY NoRequestFacts DEF Init, ServerShape, AnswerShape, View
<1>4. HistoriesAgree /\ StoppedMeansClosed
  BY DEF Init, HistoriesAgree, StoppedMeansClosed
<1> QED BY <1>1, <1>2, <1>3, <1>4 DEF IInv

\* IInv holds in every state that the client, the server, the watcher, the
\* shutdown and late, repeated and lost attempts can reach together.
THEOREM SessionInvariant == Spec => []IInv
<1>1. IInv /\ [Next]_vars => IInv'
  <2> SUFFICES ASSUME IInv, [Next]_vars PROVE IInv'
    OBVIOUS
  <2>1. CASE UNCHANGED vars
    BY <2>1 DEF IInv, TypeOK, ClientShape, NetworkShape, ServerShape,
                AnswerShape, View, HistoriesAgree, StoppedMeansClosed, Active,
                CommandAccepted, vars, clientVars, networkVars, serverVars
  <2> QED
    BY <2>1, ClientPreserves, HandlePreserves, ServerPreserves DEF Next
<1> QED BY <1>1, InitInvariant, PTL DEF Spec

\* The commands the client knows to be applied are the ones the server has
\* applied, in that order, but for at most the last one, whose reply it has not
\* got (AcceptCommandReply, LifecycleReplayWindow).
THEOREM HistoriesAgreeHolds == Spec => []HistoriesAgree
<1>1. IInv => HistoriesAgree
  BY DEF IInv
<1> QED BY <1>1, SessionInvariant, PTL

\* Client and server agree on the phase and on the episode when they agree on
\* the sequence, unless the watcher has aborted a silent client's episode
\* (LifecycleCursor, RecoverExpiredClientSessions).
THEOREM ViewIsCurrentHolds == Spec => []ViewIsCurrent
<1>1. IInv => ViewIsCurrent
  BY DEF IInv, View, ViewIsCurrent
<1> QED BY <1>1, SessionInvariant, PTL

\* A client that reports a stop has closed its session on the server (finish()
\* in RunSession).
THEOREM StoppedMeansClosedHolds == Spec => []StoppedMeansClosed
<1>1. IInv => StoppedMeansClosed
  BY DEF IInv
<1> QED BY <1>1, SessionInvariant, PTL

\* A closed session stays closed and no late request is applied to it, as long
\* as no shutdown is under way (CheckCommand, CloseSession).
THEOREM ClosedIsFinalHolds == Spec => ClosedIsFinal
<1> DEFINE Final ==
      session.phase = "CLOSED" /\ shutdown' = "no" =>
        session'.phase = "CLOSED" /\ applied' = applied
<1>1. IInv /\ [Next]_vars => [Final]_vars
  <2> SUFFICES ASSUME IInv, Next, session.phase = "CLOSED", shutdown' = "no"
               PROVE  session'.phase = "CLOSED" /\ applied' = applied
    OBVIOUS
  <2> USE DEF serverVars, LiveEpisode
  <2>1. CASE ClientStep \/ RequestStop
    BY <2>1 DEF ClientStep, Receive, RequestStop, Issue, Invoke, RetryAttempt,
           InvokeFails, ExchangeStopped, ExchangeExpired, Conclude,
           ReceiveOpened, ReceiveOpenRejected, ReceiveApplied, ReceiveWait,
           ReceiveRefusal, NoticeStop, EnvironmentFails, FinishWithout
  <2>2. ASSUME NEW q, NEW n, Handle(q, n) \/ RequestLost(q, n)
        PROVE  session'.phase = "CLOSED" /\ applied' = applied
    <3>1. shutdown = "no" => created # 0
      BY DEF IInv, ServerShape
    <3> QED
      BY <2>2, <3>1
         DEF Handle, RequestLost, OpenSession, OpenSessionReplayed,
             OpenSessionRejected, CommandReplayed, CommandRejected,
             CommandWaits, InitTask, BeginEpisode, Update, EndEpisode,
             AbortEpisode, CloseSession, Closeable, InEpisode
  <2>3. CASE RecoverExpiredClientSessions \/ BeginShutdown \/ ShutdownCloses
    BY <2>3 DEF RecoverExpiredClientSessions, BeginShutdown, ShutdownCloses
  <2> QED BY <2>1, <2>2, <2>3 DEF Next
<1> QED BY <1>1, SessionInvariant, PTL DEF Spec, ClosedIsFinal
=============================================================================
