--------------------------- MODULE ServerProcess ---------------------------
(***************************************************************************)
(* The life of the process: run.sh supervises one AIServer per pod, and    *)
(* pods may share a training workspace, which .aiserver.lock protects      *)
(* (run.sh, scripts/publish_readiness.py, main/main.cpp and the lease in   *)
(* src/task/runtime/training_runtime.tpp).                                 *)
(*                                                                         *)
(* Managed mode.  A container is started (boot), may be killed at any time *)
(* and is torn down when run.sh exits; its files survive.  A trap runs     *)
(* between two commands of run.sh, and the script then goes on where it    *)
(* was: handler says which trap functions wait for the server to end, and  *)
(* the steps of the script itself need handler = "none".  A TERM that      *)
(* comes while quiesce waits runs shutdown inside it.                      *)
(*                                                                         *)
(* A file that names a process holds the number of the boot that wrote it, *)
(* 0 when there is none.  What BeginShutdown does with samples is in       *)
(* TrainingRuntime; here it ends clean or not.                             *)
(***************************************************************************)
EXTENDS Naturals

CONSTANTS
  Pods,
  Restarting,  \* the pods whose container is started again after its end
  MaxRestarts  \* bound: how often

ASSUME RestartsAssumption == Restarting \subseteq Pods /\ MaxRestarts \in Nat

VARIABLES
  pods,    \* the supervisor, the server and the files of each pod
  lease    \* the process that made .aiserver.lock, a set that is empty without it

vars == <<pods, lease>>

\* An exit status: 0 or another one, a signal included.
Statuses == {"none", "0", "failed"}

\* A container before its first start.
NoContainer ==
  [boot |-> 0,
   \* run.sh
   pc |-> "exited", handler |-> "none", stopping |-> FALSE, quiesced |-> FALSE,
   pid |-> FALSE, status |-> "none", identity |-> 0,
   cut |-> "none",  \* history: where the script was when it was told to stop
   \* rl_aiserver
   server |-> "none", running |-> TRUE, held |-> FALSE, exit |-> "none",
   \* files
   ready |-> 0, readiness |-> 0, quiesceMarker |-> 0, failureMarker |-> 0]

Init == pods = [p \in Pods |-> NoContainer] /\ lease = {}

Alive(pod) == pod.server \notin {"none", "exited"}

Owner(p) == <<p, pods[p].boot>>

\* A container that is down and may be started.
Startable(p) ==
  /\ pods[p].pc = "exited" /\ ~Alive(pods[p])
  /\ pods[p].boot <= IF p \in Restarting THEN MaxRestarts ELSE 0

-----------------------------------------------------------------------------
\* Containers (external).

BootKeepsReadyMarker(p) ==
  /\ Startable(p)
  /\ pods' = [pods EXCEPT ![p] =
       [NoContainer EXCEPT !.boot = pods[p].boot + 1, !.pc = "booting",
                           !.ready = pods[p].ready]]
  /\ UNCHANGED lease

\* A container starts and run.sh goes through its preamble: the markers of an
\* earlier run are removed, then the traps are set.
Boot(p) ==
  /\ Startable(p)
  /\ pods' = [pods EXCEPT ![p] =
       [NoContainer EXCEPT !.boot = pods[p].boot + 1, !.pc = "booting"]]
  /\ UNCHANGED lease

\* A process ends and its memory is gone.
ServerEnds(pod, exit) ==
  [pod EXCEPT !.server = "exited", !.exit = exit,
              !.running = TRUE, !.held = FALSE]

ScriptEnds(pod) ==
  [pod EXCEPT !.pc = "exited", !.handler = "none", !.stopping = FALSE,
              !.quiesced = FALSE, !.pid = FALSE, !.status = "none",
              !.identity = 0, !.cut = "none"]

Killed(pod) == IF Alive(pod) THEN ServerEnds(pod, "failed") ELSE pod

\* The container is killed, or goes down after run.sh has exited.
ContainerDies(p) ==
  /\ pods[p].pc # "exited" \/ Alive(pods[p])
  /\ pods' = [pods EXCEPT ![p] = ScriptEnds(Killed(@))]
  /\ UNCHANGED lease

\* Somebody removes the lock of a process that is gone.
RemoveStaleLock ==
  /\ lease # {}
  /\ ~\E p \in Pods : Alive(pods[p]) /\ Owner(p) \in lease
  /\ lease' = {} /\ UNCHANGED pods

-----------------------------------------------------------------------------
\* The server: main and the workspace lease.

\* SIGTERM: the default action before main has called std::signal, the flag
\* g_running after it.
Signalled(pod) ==
  IF pod.server = "starting" THEN Killed(pod)
  ELSE [pod EXCEPT !.running = FALSE]

\* The server dies on its own (external).
ServerDies(p) ==
  /\ Alive(pods[p])
  /\ pods' = [pods EXCEPT ![p] = Killed(@)]
  /\ UNCHANGED lease

ServerStep(p, from, pod) ==
  /\ pods[p].server = from
  /\ pods' = [pods EXCEPT ![p] = pod]

RegisterSignals(p) ==
  /\ ServerStep(p, "starting", [pods[p] EXCEPT !.server = "configuring"])
  /\ UNCHANGED lease

ConfigurationFails(p) ==
  /\ ServerStep(p, "configuring", ServerEnds(pods[p], "failed"))
  /\ UNCHANGED lease

\* AcquireTrainingWorkspaceLease.
AcquireLease(p) ==
  /\ lease = {}
  /\ ServerStep(p, "configuring",
                [pods[p] EXCEPT !.server = "loading", !.held = TRUE])
  /\ lease' = {Owner(p)}

\* The lock exists, or the workspace or the lock cannot be made.
AcquireFails(p) ==
  /\ ServerStep(p, "configuring", [pods[p] EXCEPT !.server = "failing"])
  /\ UNCHANGED lease

ReleaseIgnoresHeld(pod) == {[held |-> FALSE, lease |-> {}]}

\* ReleaseTrainingWorkspaceLease: what is held and what lock there is after it;
\* a failure keeps both.
ReleaseLease(pod) ==
  {[held |-> pod.held, lease |-> lease]} \cup
    (IF pod.held THEN {[held |-> FALSE, lease |-> {}]} ELSE {})

\* Start fails after the lease was taken, and gives it back.
StartFails(p) ==
  \E after \in ReleaseLease(pods[p]) :
    /\ ServerStep(p, "loading", [pods[p] EXCEPT !.server = "failing",
                                                !.held = after.held])
    /\ lease' = after.lease

StartSucceeds(p) ==
  /\ ServerStep(p, "loading", [pods[p] EXCEPT !.server = "serving"])
  /\ UNCHANGED lease

\* The port is taken or the marker cannot be written.
ServeFails(p) ==
  /\ ServerStep(p, "serving", [pods[p] EXCEPT !.server = "failing"])
  /\ UNCHANGED lease

\* BeginShutdown on the way out of a failed start, from main or from the
\* destructor of the runtime.
FailedStartEnds(p) ==
  \E after \in ReleaseLease(pods[p]) :
    /\ ServerStep(p, "failing", ServerEnds(pods[p], "failed"))
    /\ lease' = after.lease

PublishManagedReadyMarker(p) ==
  /\ ServerStep(p, "serving", [pods[p] EXCEPT !.server = "ready",
                                              !.ready = pods[p].boot])
  /\ UNCHANGED lease

NoticeSignal(p) ==
  /\ ~pods[p].running
  /\ ServerStep(p, "ready", [pods[p] EXCEPT !.server = "stopping"])
  /\ UNCHANGED lease

\* BeginShutdown releases the lease last, and is clean only if that succeeds.
ShutdownEnds(p) ==
  \E after \in ReleaseLease(pods[p]), clean \in BOOLEAN :
    /\ clean => ~after.held
    /\ ServerStep(p, "stopping",
         [pods[p] EXCEPT !.server = IF clean THEN "clean" ELSE "faulty",
                         !.held = after.held])
    /\ lease' = after.lease

\* The marker is removed, the RPC server ends, and main returns.
RemoveManagedReadyMarker(p) ==
  /\ pods[p].server \in {"clean", "faulty"}
  /\ pods' = [pods EXCEPT ![p] =
       [ServerEnds(@, IF @.server = "clean" THEN "0" ELSE "failed") EXCEPT
          !.ready = 0]]
  /\ UNCHANGED lease

-----------------------------------------------------------------------------
\* The traps of run.sh.

\* Behind shutdown's terminate_process.
WithoutReadiness(pod) ==
  [pod EXCEPT !.pid = FALSE, !.readiness = 0, !.ready = 0]

\* shutdown, up to where it waits for the server.
Shutdown(pod) ==
  IF pod.stopping THEN pod
  ELSE IF ~pod.pid
  THEN WithoutReadiness([pod EXCEPT !.stopping = TRUE, !.cut = pod.pc])
  ELSE [Signalled(pod) EXCEPT
          !.stopping = TRUE, !.cut = pod.pc,
          !.handler = IF @ = "quiesce" THEN "shutdown in quiesce" ELSE "shutdown"]

\* The end of quiesce, with the status of the server.
QuiescedWith(pod, status) ==
  IF status = "0" THEN [pod EXCEPT !.quiesceMarker = pod.boot]
  ELSE [pod EXCEPT !.failureMarker = pod.boot]

\* quiesce, up to where it waits for the server.
Quiesce(pod) ==
  IF pod.pid THEN [Signalled(pod) EXCEPT !.quiesced = TRUE, !.handler = "quiesce"]
  ELSE QuiescedWith([pod EXCEPT !.quiesced = TRUE], pod.status)

RunningScript == {"booting", "waiting", "publishing", "watching",
                  "reaped"}

TrapTerm(p) ==
  /\ pods[p].pc \in RunningScript /\ ~pods[p].stopping
  /\ pods' = [pods EXCEPT ![p] = Shutdown(@)]
  /\ UNCHANGED lease

TrapUsr1(p) ==
  /\ pods[p].pc \in RunningScript
  /\ ~pods[p].stopping /\ ~pods[p].quiesced
  /\ pods' = [pods EXCEPT ![p] = Quiesce(@)]
  /\ UNCHANGED lease

SignalAgain(p) ==
  /\ pods[p].handler # "none" /\ Alive(pods[p])
  /\ pods' = [pods EXCEPT ![p] = Signalled(@)]
  /\ UNCHANGED lease

\* terminate_process has waited for quiesce_timeout_seconds.
KillServer(p) ==
  /\ pods[p].handler # "none" /\ Alive(pods[p])
  /\ pods' = [pods EXCEPT ![p] = Killed(@)]
  /\ UNCHANGED lease

ShutdownReturns(p) ==
  /\ pods[p].handler \in {"shutdown", "shutdown in quiesce"}
  /\ ~Alive(pods[p])
  /\ pods' = [pods EXCEPT ![p] =
       [WithoutReadiness(pods[p]) EXCEPT
          !.handler = IF @ = "shutdown" THEN "none" ELSE "quiesce"]]
  /\ UNCHANGED lease

\* The wait for the server gives its status also when shutdown has waited for
\* it already.  (aiserver_child_status is set as well but not read any more:
\* quiesce does not run twice.)
QuiesceReturns(p) ==
  /\ pods[p].handler = "quiesce" /\ ~Alive(pods[p])
  /\ pods' = [pods EXCEPT ![p] =
       QuiescedWith([@ EXCEPT !.handler = "none", !.pid = FALSE],
                    pods[p].exit)]
  /\ UNCHANGED lease

-----------------------------------------------------------------------------
\* The script.

ScriptStep(p, from, pod) ==
  /\ pods[p].pc = from /\ pods[p].handler = "none"
  /\ pods' = [pods EXCEPT ![p] = pod]
  /\ UNCHANGED lease

\* exit: the EXIT trap runs shutdown.
Leaves(pod) == [Shutdown(pod) EXCEPT !.pc = "leaving"]

SpawnServer(p) ==
  ScriptStep(p, "booting", [pods[p] EXCEPT !.pc = "waiting", !.pid = TRUE,
                                           !.server = "starting"])

\* The marker is there, and marker_value finds an identity in it.
SeeReadyMarker(p) ==
  /\ pods[p].ready # 0
  /\ ScriptStep(p, "waiting", [pods[p] EXCEPT !.pc = "publishing",
                                              !.identity = pods[p].ready])

\* The server is gone, 3000 looks have not shown the marker, or it was removed
\* before marker_value read it.
ReadinessFails(p) == ScriptStep(p, "waiting", Leaves(pods[p]))

\* publish_readiness.py; its failure is not looked at.
PublishReadiness(p) ==
  \E readiness \in {pods[p].identity, pods[p].readiness} :
    ScriptStep(p, "publishing", [pods[p] EXCEPT !.pc = "watching",
                                                !.readiness = readiness,
                                                !.identity = 0])

SeeServerGone(p) ==
  /\ ~pods[p].stopping /\ pods[p].pid /\ ~Alive(pods[p])
  /\ ScriptStep(p, "watching", [pods[p] EXCEPT !.pc = "reaped", !.pid = FALSE,
                                               !.status = pods[p].exit])

SeeStopping(p) ==
  /\ pods[p].stopping
  /\ ScriptStep(p, "watching", Leaves(pods[p]))

LeaveWithStatus(p) == ScriptStep(p, "reaped", Leaves(pods[p]))

Exit(p) == ScriptStep(p, "leaving", ScriptEnds(pods[p]))

-----------------------------------------------------------------------------
Supervisor(p) ==
  \/ KillServer(p) \/ ShutdownReturns(p) \/ QuiesceReturns(p)
  \/ SpawnServer(p) \/ SeeReadyMarker(p) \/ ReadinessFails(p)
  \/ PublishReadiness(p) \/ SeeServerGone(p) \/ SeeStopping(p)
  \/ LeaveWithStatus(p) \/ Exit(p)

Server(p) ==
  \/ RegisterSignals(p) \/ ConfigurationFails(p) \/ AcquireLease(p)
  \/ AcquireFails(p) \/ StartFails(p) \/ StartSucceeds(p) \/ ServeFails(p)
  \/ FailedStartEnds(p) \/ PublishManagedReadyMarker(p) \/ NoticeSignal(p)
  \/ ShutdownEnds(p) \/ RemoveManagedReadyMarker(p)

Next ==
  \/ \E p \in Pods : \/ Boot(p) \/ ContainerDies(p)
                     \/ ServerDies(p)
                     \/ TrapTerm(p) \/ TrapUsr1(p)
                     \/ Supervisor(p) \/ Server(p)
  \/ RemoveStaleLock

Spec == Init /\ [][Next]_vars

\* run.sh is scheduled; the server may hang anywhere.
FairSpec == Spec /\ \A p \in Pods : WF_vars(Supervisor(p))

-----------------------------------------------------------------------------
Boots == 0 .. MaxRestarts + 1
PodStates ==
  [boot : Boots,
   pc : RunningScript \cup {"leaving", "exited"},
   handler : {"none", "quiesce", "shutdown", "shutdown in quiesce"},
   stopping : BOOLEAN, quiesced : BOOLEAN, pid : BOOLEAN,
   status : Statuses, identity : Boots,
   cut : RunningScript \cup {"none"},
   server : {"none", "starting", "configuring", "loading", "serving",
             "failing", "ready", "stopping", "clean", "faulty", "exited"},
   running : BOOLEAN, held : BOOLEAN, exit : Statuses,
   ready : Boots, readiness : Boots, quiesceMarker : Boots,
   failureMarker : Boots]

\* Types of the supervisors, the servers, the files and the lock.
TypeOK ==
  /\ pods \in [Pods -> PodStates]
  /\ lease \in SUBSET (Pods \X Boots)

UsesWorkspace(pod) == pod.server \in {"loading", "serving", "ready", "stopping"}

\* ".aiserver.lock prevents two AIServers from concurrently using the same
\* directory", also when servers are killed, containers restart, stale locks
\* are removed by hand and a release fails (AcquireTrainingWorkspaceLease,
\* ReleaseTrainingWorkspaceLease).
LeaseExclusive ==
  \A p, q \in Pods :
    UsesWorkspace(pods[p]) /\ UsesWorkspace(pods[q]) => p = q

\* shutdown has still to come past the removal of readiness: it waits for the
\* server, or it will be called once the loop finds the server gone.
RemovalAhead(pod) ==
  IF pod.stopping THEN pod.handler \in {"shutdown", "shutdown in quiesce"}
  ELSE pod.pid \/ pod.pc = "reaped"

\* quiesce has ended the server and leaves readiness to the stop that follows.
AwaitsStop(pod) == pod.quiesced /\ ~pod.stopping

\* The stop came before readiness was published: shutdown, which runs once, had
\* already removed what was not there yet.
PublishedAfterStop(pod) ==
  /\ pod.cut \in {"booting", "publishing"}
  /\ pod.pc \in {"watching", "leaving"}

\* What the files of a pod stand for while run.sh runs.  Readiness names the
\* process of this boot, never one of an earlier container, and shutdown has
\* still to remove it, with two exceptions: after quiesce it names a server
\* that has ended until run.sh is told to stop, and if it was published after
\* the stop it stays and names a server that has been stopped or abandoned.
\* The quiesce marker means that the server of this boot has shut down clean
\* and left no lock, and never stands beside the failure marker.
FilesAccounted ==
  \A p \in Pods :
    /\ pods[p].readiness # 0 =>
         /\ pods[p].readiness = pods[p].boot
         /\ \/ pods[p].pc = "exited"
            \/ RemovalAhead(pods[p]) \/ AwaitsStop(pods[p])
            \/ PublishedAfterStop(pods[p])
    /\ pods[p].quiesceMarker # 0 =>
         /\ pods[p].quiesceMarker = pods[p].boot
         /\ pods[p].server = "exited" /\ pods[p].exit = "0"
         /\ Owner(p) \notin lease /\ pods[p].failureMarker = 0

\* Once run.sh has been told to stop it exits, whatever it was doing when the
\* signal came and even if the server hangs (shutdown, terminate_process).
SupervisorStops ==
  \A p \in Pods : pods[p].stopping ~> pods[p].pc = "exited"
=============================================================================
