------------------------ MODULE ServerProcessProofs ------------------------
(***************************************************************************)
(* Machine-checked proofs about ServerProcess, for any set of pods that    *)
(* share a workspace and any number of restarts.                           *)
(***************************************************************************)
EXTENDS ServerProcess, TLAPS

\* What the script, the server and the files of one pod have to do with each
\* other, whatever the others do.
PodConsistent(pod) ==
  \* the server
  /\ UsesWorkspace(pod) => pod.held
  /\ pod.held => Alive(pod)
  /\ pod.server = "clean" => ~pod.held
  /\ pod.server # "exited" => pod.exit = "none"
  \* the script
  /\ pod.pc = "booting" => pod.server = "none" /\ ~pod.pid
  /\ pod.pc = "exited" => pod.handler = "none"
  /\ pod.status # "none" => pod.status = pod.exit
  /\ pod.handler \in {"quiesce", "shutdown in quiesce"} =>
       pod.quiesced /\ pod.quiesceMarker = 0 /\ pod.failureMarker = 0
  /\ ~pod.quiesced /\ pod.pc # "exited" =>
       pod.quiesceMarker = 0 /\ pod.failureMarker = 0
  \* the files
  /\ {pod.identity, pod.ready, pod.readiness} \subseteq {0, pod.boot}
  /\ pod.quiesceMarker # 0 =>
       /\ pod.quiesceMarker = pod.boot /\ pod.failureMarker = 0
       /\ pod.exit = "0"

\* The process that holds the lease made the lock, and one that has shut down
\* clean left none.
LeaseConsistent(p) ==
  /\ pods[p].held => lease = {Owner(p)}
  /\ pods[p].server = "clean" \/ pods[p].exit = "0" => Owner(p) \notin lease

IInv ==
  /\ TypeOK
  /\ \A p \in Pods : PodConsistent(pods[p]) /\ LeaseConsistent(p)

-----------------------------------------------------------------------------
LEMMA InitIInv == Init => IInv
<1> SUFFICES ASSUME Init PROVE IInv
  OBVIOUS
<1>1. NoContainer \in PodStates
  BY RestartsAssumption
  DEF NoContainer, PodStates, Boots, Statuses, RunningScript
<1>2. PodConsistent(NoContainer)
  BY DEF NoContainer, PodConsistent, UsesWorkspace, Alive
<1>3. \A p \in Pods : pods[p] = NoContainer
  BY DEF Init
<1>4. TypeOK
  BY <1>1 DEF Init, TypeOK
<1>5. ASSUME NEW p \in Pods PROVE LeaseConsistent(p)
  BY <1>3 DEF Init, LeaseConsistent, NoContainer
<1> QED
  BY <1>2, <1>3, <1>4, <1>5 DEF IInv

-----------------------------------------------------------------------------
\* A pod as it should be, and a change of it that takes no lease and does not
\* claim a clean end.
Sound(pod) == pod \in PodStates /\ PodConsistent(pod)

Quiet(pod, after) ==
  /\ after.held => pod.held /\ after.boot = pod.boot
  /\ after.server = "clean" \/ after.exit = "0" =>
       (pod.server = "clean" \/ pod.exit = "0") /\ after.boot = pod.boot

LEMMA ZeroIsBoot == 0 \in Boots
  BY RestartsAssumption DEF Boots

(* A server that ends, however it does, holds nothing any more.            *)
LEMMA ServerEndsPod ==
  ASSUME NEW pod, Sound(pod), Alive(pod), NEW exit \in Statuses
  PROVE  /\ Sound(ServerEnds(pod, exit))
         /\ exit # "0" => Quiet(pod, ServerEnds(pod, exit))
<1> DEFINE after == ServerEnds(pod, exit)
<1>1. after \in PodStates
  BY DEF Sound, ServerEnds, PodStates, Statuses
<1>2. /\ after.server = "exited" /\ ~after.held /\ after.boot = pod.boot
      /\ after.pc = pod.pc /\ after.handler = pod.handler
      /\ after.status = pod.status /\ after.quiesced = pod.quiesced
      /\ after.identity = pod.identity /\ after.ready = pod.ready
      /\ after.readiness = pod.readiness
      /\ after.quiesceMarker = pod.quiesceMarker
      /\ after.failureMarker = pod.failureMarker /\ after.exit = exit
  BY DEF Sound, ServerEnds, PodStates
<1> HIDE DEF after
<1>3. pod.status = "none" /\ pod.pc # "booting" /\ pod.quiesceMarker = 0
  BY DEF Sound, PodConsistent, Alive
<1>4. PodConsistent(after)
  BY <1>2, <1>3 DEF Sound, PodConsistent, UsesWorkspace, Alive
<1>5. exit # "0" => Quiet(pod, after)
  BY <1>2 DEF Quiet
<1> QED
  BY <1>1, <1>4, <1>5 DEF after, Sound

LEMMA KilledPod ==
  ASSUME NEW pod, Sound(pod)
  PROVE  Sound(Killed(pod)) /\ Quiet(pod, Killed(pod))
<1>1. CASE Alive(pod)
  BY <1>1, ServerEndsPod DEF Killed, Statuses
<1>2. CASE ~Alive(pod)
  BY <1>2 DEF Killed, Quiet
<1> QED
  BY <1>1, <1>2

(* The script's end only forgets what the script remembers.                *)
LEMMA ScriptEndsPod ==
  ASSUME NEW pod, Sound(pod)
  PROVE  Sound(ScriptEnds(pod)) /\ Quiet(pod, ScriptEnds(pod))
<1> DEFINE after == ScriptEnds(pod)
<1>1. after \in PodStates
  BY ZeroIsBoot DEF Sound, ScriptEnds, PodStates, Statuses
<1>2. /\ after.pc = "exited" /\ after.handler = "none"
      /\ after.status = "none" /\ after.identity = 0
      /\ after.server = pod.server /\ after.held = pod.held
      /\ after.boot = pod.boot /\ after.exit = pod.exit
      /\ after.ready = pod.ready /\ after.readiness = pod.readiness
      /\ after.quiesceMarker = pod.quiesceMarker
      /\ after.failureMarker = pod.failureMarker
  BY DEF Sound, ScriptEnds, PodStates
<1> HIDE DEF after
<1>3. PodConsistent(after)
  BY <1>2 DEF Sound, PodConsistent, UsesWorkspace, Alive
<1>4. Quiet(pod, after)
  BY <1>2 DEF Quiet
<1> QED
  BY <1>1, <1>3, <1>4 DEF after, Sound

(* SIGTERM leaves the script's own variables and the files alone.          *)
LEMMA SignalledPod ==
  ASSUME NEW pod, Sound(pod)
  PROVE  /\ Sound(Signalled(pod)) /\ Quiet(pod, Signalled(pod))
         /\ Signalled(pod).pc = pod.pc
         /\ Signalled(pod).handler = pod.handler
         /\ Signalled(pod).quiesceMarker = pod.quiesceMarker
         /\ Signalled(pod).failureMarker = pod.failureMarker
         /\ Signalled(pod).quiesced = pod.quiesced
<1>1. CASE pod.server = "starting"
  <2>1. Signalled(pod) = Killed(pod) /\ Alive(pod)
    BY <1>1 DEF Signalled, Alive
  <2>2. Sound(Signalled(pod)) /\ Quiet(pod, Signalled(pod))
    BY <2>1, KilledPod
  <2>3. Signalled(pod) = ServerEnds(pod, "failed")
    BY <2>1 DEF Killed
  <2> QED
    BY <2>2, <2>3 DEF Sound, ServerEnds, PodStates
<1>2. CASE pod.server # "starting"
  <2> DEFINE after == Signalled(pod)
  <2>1. after \in PodStates
    BY <1>2 DEF Sound, Signalled, PodStates
  <2>2. \A f \in DOMAIN pod \ {"running"} : after[f] = pod[f]
    BY <1>2 DEF Sound, Signalled, PodStates
  <2>3. DOMAIN pod = {"boot", "pc", "handler", "stopping", "quiesced", "pid",
                      "status", "identity", "cut", "server", "running", "held",
                      "exit", "ready", "readiness", "quiesceMarker", "failureMarker"}
    BY DEF Sound, PodStates
  <2> HIDE DEF after
  <2>4. PodConsistent(after)
    BY <2>2, <2>3 DEF Sound, PodConsistent, UsesWorkspace, Alive
  <2>5. Quiet(pod, after)
    BY <2>2, <2>3 DEF Quiet
  <2> QED
    BY <2>1, <2>2, <2>3, <2>4, <2>5 DEF after, Sound
<1> QED
  BY <1>1, <1>2

LEMMA WithoutReadinessPod ==
  ASSUME NEW pod, Sound(pod)
  PROVE  Sound(WithoutReadiness(pod)) /\ Quiet(pod, WithoutReadiness(pod))
<1> DEFINE after == WithoutReadiness(pod)
<1>1. after \in PodStates
  BY ZeroIsBoot DEF Sound, WithoutReadiness, PodStates
<1>2. /\ after.pid = FALSE /\ after.ready = 0 /\ after.readiness = 0
      /\ after.pc = pod.pc /\ after.handler = pod.handler
      /\ after.status = pod.status /\ after.quiesced = pod.quiesced
      /\ after.identity = pod.identity /\ after.server = pod.server
      /\ after.held = pod.held /\ after.exit = pod.exit
      /\ after.boot = pod.boot
      /\ after.quiesceMarker = pod.quiesceMarker
      /\ after.failureMarker = pod.failureMarker
  BY DEF Sound, WithoutReadiness, PodStates
<1> HIDE DEF after
<1>3. PodConsistent(after) /\ Quiet(pod, after)
  BY <1>2 DEF Sound, PodConsistent, UsesWorkspace, Alive, Quiet
<1> QED
  BY <1>1, <1>3 DEF after, Sound

(* A trap may note that it runs, as long as the script does.               *)
LEMMA HandlerPod ==
  ASSUME NEW pod, Sound(pod), pod.pc # "exited",
         NEW stopping \in BOOLEAN, NEW quiesced \in BOOLEAN,
         NEW cut \in RunningScript \cup {"none"},
         NEW handler \in {"none", "quiesce", "shutdown", "shutdown in quiesce"},
         pod.quiesced => quiesced,
         handler \in {"quiesce", "shutdown in quiesce"} =>
           quiesced /\ pod.quiesceMarker = 0 /\ pod.failureMarker = 0
  PROVE  LET after == [pod EXCEPT !.stopping = stopping, !.quiesced = quiesced,
                                  !.handler = handler, !.cut = cut]
         IN  Sound(after) /\ Quiet(pod, after)
<1> DEFINE after == [pod EXCEPT !.stopping = stopping, !.quiesced = quiesced,
                                !.handler = handler, !.cut = cut]
<1>1. after \in PodStates
  BY DEF Sound, PodStates
<1>2. /\ after.pid = pod.pid /\ after.ready = pod.ready
      /\ after.readiness = pod.readiness
      /\ after.pc = pod.pc /\ after.handler = handler
      /\ after.status = pod.status /\ after.quiesced = quiesced
      /\ after.identity = pod.identity /\ after.server = pod.server
      /\ after.held = pod.held /\ after.exit = pod.exit
      /\ after.boot = pod.boot
      /\ after.quiesceMarker = pod.quiesceMarker
      /\ after.failureMarker = pod.failureMarker
  BY DEF Sound, PodStates
<1> HIDE DEF after
<1>3. PodConsistent(after) /\ Quiet(pod, after)
  BY <1>2 DEF Sound, PodConsistent, UsesWorkspace, Alive, Quiet
<1> QED
  BY <1>1, <1>3 DEF after, Sound

LEMMA QuietTransitive ==
  ASSUME NEW a, NEW b, NEW c, Quiet(a, b), Quiet(b, c)
  PROVE  Quiet(a, c)
  BY DEF Quiet

LEMMA ShutdownPod ==
  ASSUME NEW pod, Sound(pod), pod.pc \in RunningScript
  PROVE  /\ Sound(Shutdown(pod)) /\ Quiet(pod, Shutdown(pod))
         /\ Shutdown(pod).pc = pod.pc
<1>0. pod.pc # "exited"
  BY DEF RunningScript
<1>1. CASE pod.stopping
  BY <1>1 DEF Shutdown, Quiet
<1>2. CASE ~pod.stopping /\ ~pod.pid
  <2> DEFINE told == [pod EXCEPT !.stopping = TRUE, !.cut = pod.pc]
  <2>1. /\ told = [pod EXCEPT !.stopping = TRUE, !.quiesced = pod.quiesced,
                              !.handler = pod.handler, !.cut = pod.pc]
        /\ told.pc = pod.pc
    BY DEF Sound, PodStates
  <2>2. Sound(told) /\ Quiet(pod, told)
    <3>1. pod.quiesced \in BOOLEAN
          /\ pod.handler \in {"none", "quiesce", "shutdown",
                              "shutdown in quiesce"}
      BY DEF Sound, PodStates
    <3>2. pod.handler \in {"quiesce", "shutdown in quiesce"} =>
            pod.quiesced /\ pod.quiesceMarker = 0 /\ pod.failureMarker = 0
      BY DEF Sound, PodConsistent
    <3> HIDE DEF told
    <3> QED
      BY <1>0, <2>1, <3>1, <3>2, HandlerPod
  <2>3. Shutdown(pod) = WithoutReadiness(told)
    BY <1>2 DEF Shutdown
  <2>4. WithoutReadiness(told).pc = told.pc
    BY <2>2 DEF WithoutReadiness, Sound, PodStates
  <2> QED
    BY <2>1, <2>2, <2>3, <2>4, WithoutReadinessPod, QuietTransitive
<1>3. CASE ~pod.stopping /\ pod.pid
  <2> DEFINE sig == Signalled(pod)
             h == IF sig.handler = "quiesce" THEN "shutdown in quiesce"
                  ELSE "shutdown"
             after == [sig EXCEPT !.stopping = TRUE, !.quiesced = sig.quiesced,
                                  !.handler = h, !.cut = pod.pc]
  <2>1. /\ Sound(sig) /\ Quiet(pod, sig) /\ sig.pc = pod.pc
    BY SignalledPod
  <2>2. /\ Shutdown(pod) = after /\ after.pc = sig.pc
        /\ sig.quiesced \in BOOLEAN
    <3>1. sig \in PodStates
      BY <2>1 DEF Sound
    <3> HIDE DEF sig
    <3>2. after = [sig EXCEPT !.stopping = TRUE, !.cut = pod.pc, !.handler = h]
          /\ after.pc = sig.pc /\ sig.quiesced \in BOOLEAN
      BY <3>1 DEF PodStates
    <3> QED
      BY <1>3, <3>2 DEF Shutdown, sig
  <2> HIDE DEF sig
  <2>3. h = "shutdown in quiesce" => sig.quiesced /\ sig.quiesceMarker = 0
                                       /\ sig.failureMarker = 0
    BY <2>1 DEF Sound, PodConsistent
  <2>4. Sound(after) /\ Quiet(sig, after)
    BY <1>0, <2>1, <2>2, <2>3, HandlerPod
  <2> QED
    BY <2>1, <2>2, <2>4, QuietTransitive
<1> QED
  BY <1>1, <1>2, <1>3 DEF Sound, PodStates

(* The end of quiesce leaves one marker; the server has ended.             *)
LEMMA QuiescedWithPod ==
  ASSUME NEW pod, Sound(pod), NEW status,
         pod.handler \notin {"quiesce", "shutdown in quiesce"},
         pod.quiesceMarker = 0, pod.failureMarker = 0, pod.quiesced,
         status = "0" => pod.exit = "0"
  PROVE  Sound(QuiescedWith(pod, status)) /\ Quiet(pod, QuiescedWith(pod, status))
<1> DEFINE after == QuiescedWith(pod, status)
<1>1. after \in PodStates
  BY DEF Sound, QuiescedWith, PodStates
<1>2. /\ after.pc = pod.pc /\ after.handler = pod.handler
      /\ after.status = pod.status /\ after.quiesced = pod.quiesced
      /\ after.identity = pod.identity /\ after.server = pod.server
      /\ after.held = pod.held /\ after.exit = pod.exit
      /\ after.boot = pod.boot /\ after.pid = pod.pid
      /\ after.ready = pod.ready /\ after.readiness = pod.readiness
  BY DEF Sound, QuiescedWith, PodStates
<1>3. \/ /\ after.quiesceMarker = pod.boot /\ after.failureMarker = 0
         /\ status = "0"
      \/ after.quiesceMarker = 0
  BY DEF Sound, QuiescedWith, PodStates
<1> HIDE DEF after
<1>4. PodConsistent(after) /\ Quiet(pod, after)
  BY <1>2, <1>3 DEF Sound, PodConsistent, UsesWorkspace, Alive, Quiet
<1> QED
  BY <1>1, <1>4 DEF after, Sound

LEMMA QuiescePod ==
  ASSUME NEW pod, Sound(pod), pod.pc \in RunningScript, ~pod.quiesced
  PROVE  Sound(Quiesce(pod)) /\ Quiet(pod, Quiesce(pod))
<1>1. /\ pod.quiesceMarker = 0 /\ pod.failureMarker = 0
      /\ pod.stopping \in BOOLEAN /\ pod.pc # "exited"
      /\ pod.handler \in {"none", "shutdown"}
  BY DEF Sound, PodConsistent, PodStates, RunningScript
<1>2. CASE pod.pid
  <2> DEFINE sig == Signalled(pod)
             after == [sig EXCEPT !.stopping = sig.stopping, !.quiesced = TRUE,
                                  !.handler = "quiesce", !.cut = sig.cut]
  <2>1. /\ Sound(sig) /\ Quiet(pod, sig) /\ sig.pc = pod.pc
        /\ sig.quiesceMarker = 0 /\ sig.failureMarker = 0
    BY <1>1, SignalledPod
  <2>2. /\ Quiesce(pod) = after /\ sig.stopping \in BOOLEAN
        /\ sig.cut \in RunningScript \cup {"none"}
    <3>1. sig \in PodStates
      BY <2>1 DEF Sound
    <3> HIDE DEF sig
    <3>2. /\ after = [sig EXCEPT !.quiesced = TRUE, !.handler = "quiesce"]
          /\ sig.stopping \in BOOLEAN /\ sig.cut \in RunningScript \cup {"none"}
      BY <3>1 DEF PodStates
    <3> QED
      BY <1>2, <3>2 DEF Quiesce, sig
  <2> HIDE DEF sig
  <2>3. Sound(after) /\ Quiet(sig, after)
    BY <1>1, <2>1, <2>2, HandlerPod
  <2> QED
    BY <2>1, <2>2, <2>3, QuietTransitive
<1>3. CASE ~pod.pid
  <2> DEFINE noted == [pod EXCEPT !.quiesced = TRUE]
  <2>1. /\ noted = [pod EXCEPT !.stopping = pod.stopping, !.quiesced = TRUE,
                               !.handler = pod.handler, !.cut = pod.cut]
        /\ pod.cut \in RunningScript \cup {"none"}
    BY DEF Sound, PodStates
  <2>5. /\ noted.handler = pod.handler /\ noted.quiesced
        /\ noted.quiesceMarker = 0 /\ noted.failureMarker = 0
        /\ noted.exit = pod.exit
    BY <1>1 DEF Sound, PodStates
  <2>2. pod.status = "0" => pod.exit = "0"
    BY DEF Sound, PodConsistent
  <2>3. Quiesce(pod) = QuiescedWith(noted, pod.status)
    BY <1>3 DEF Quiesce
  <2> HIDE DEF noted
  <2>4. Sound(noted) /\ Quiet(pod, noted)
    BY <1>1, <2>1, HandlerPod
  <2> QED
    BY <1>1, <2>2, <2>3, <2>4, <2>5, QuiescedWithPod, QuietTransitive
<1> QED
  BY <1>2, <1>3 DEF Sound, PodStates

LEMMA LeavesPod ==
  ASSUME NEW pod, Sound(pod), pod.pc \in RunningScript
  PROVE  Sound(Leaves(pod)) /\ Quiet(pod, Leaves(pod))
<1> DEFINE down == Shutdown(pod)
           after == [down EXCEPT !.pc = "leaving"]
<1>1. Sound(down) /\ Quiet(pod, down) /\ down.pc # "exited"
  BY ShutdownPod DEF RunningScript
<1> HIDE DEF down
<1>2. after \in PodStates
  BY <1>1 DEF Sound, PodStates
<1>3. /\ after.pc = "leaving" /\ after.handler = down.handler
      /\ after.status = down.status /\ after.quiesced = down.quiesced
      /\ after.identity = down.identity /\ after.server = down.server
      /\ after.held = down.held /\ after.exit = down.exit
      /\ after.boot = down.boot
      /\ after.ready = down.ready /\ after.readiness = down.readiness
      /\ after.quiesceMarker = down.quiesceMarker
      /\ after.failureMarker = down.failureMarker
  BY <1>1 DEF Sound, PodStates
<1>4. Leaves(pod) = after
  BY DEF Leaves, down
<1> HIDE DEF after
<1>5. PodConsistent(after) /\ Quiet(down, after)
  BY <1>1, <1>3 DEF Sound, PodConsistent, UsesWorkspace, Alive, Quiet
<1> QED
  BY <1>1, <1>2, <1>4, <1>5, QuietTransitive DEF Sound

-----------------------------------------------------------------------------
\* Steps of the whole system.

LEMMA PodOfIInv ==
  ASSUME IInv, NEW p \in Pods
  PROVE  Sound(pods[p])
  BY DEF IInv, Sound, TypeOK

(* A pod that changes quietly keeps the invariant.                         *)
LEMMA QuietStep ==
  ASSUME IInv, NEW p \in Pods, NEW pod, Sound(pod), Quiet(pods[p], pod),
         pods' = [pods EXCEPT ![p] = pod], lease' = lease
  PROVE  IInv'
<1>1. TypeOK'
  BY DEF IInv, TypeOK, Sound
<1>2. pods'[p] = pod /\ \A q \in Pods \ {p} : pods'[q] = pods[q]
  BY DEF IInv, TypeOK
<1>3. ASSUME NEW q \in Pods
      PROVE  PodConsistent(pods[q])' /\ LeaseConsistent(q)'
  <2>1. CASE q = p
    BY <1>2, <2>1 DEF IInv, Sound, LeaseConsistent, Quiet, Owner
  <2>2. CASE q # p
    BY <1>2, <2>2 DEF IInv, LeaseConsistent, Owner
  <2> QED
    BY <2>1, <2>2
<1> QED
  BY <1>1, <1>3 DEF IInv

(* The process that holds the lease gives it back.                         *)
LEMMA ReleaseStep ==
  ASSUME IInv, NEW p \in Pods, NEW pod, Sound(pod), pods[p].held, ~pod.held,
         pods' = [pods EXCEPT ![p] = pod], lease' = {}
  PROVE  IInv'
<1>1. TypeOK'
  BY DEF IInv, TypeOK, Sound
<1>2. pods'[p] = pod /\ \A q \in Pods \ {p} : pods'[q] = pods[q]
  BY DEF IInv, TypeOK
<1>3. ASSUME NEW q \in Pods
      PROVE  PodConsistent(pods[q])' /\ LeaseConsistent(q)'
  <2>1. CASE q = p
    BY <1>2, <2>1 DEF Sound, LeaseConsistent
  <2>2. CASE q # p
    <3>1. ASSUME pods[q].held PROVE FALSE
      <4>1. lease = {Owner(p)} /\ lease = {Owner(q)}
        BY <3>1 DEF IInv, LeaseConsistent
      <4>2. Owner(p) = Owner(q)
        BY <4>1
      <4> QED
        BY <2>2, <4>2 DEF Owner
    <3> QED
      BY <1>2, <2>2, <3>1 DEF IInv, LeaseConsistent
  <2> QED
    BY <2>1, <2>2
<1> QED
  BY <1>1, <1>3 DEF IInv

LEMMA AcquireStep ==
  ASSUME IInv, NEW p \in Pods, AcquireLease(p)
  PROVE  IInv'
<1> DEFINE before == pods[p]
           pod == [before EXCEPT !.server = "loading", !.held = TRUE]
<1>1. /\ before.server = "configuring" /\ lease = {}
      /\ pods' = [pods EXCEPT ![p] = pod]
      /\ lease' = {<<p, before.boot>>}
  BY DEF AcquireLease, ServerStep, Owner
<1>2. Sound(before)
  BY PodOfIInv
<1>3. Sound(pod) /\ pod.boot = before.boot /\ pod.exit = "none"
      /\ pod.server = "loading"
  <2> HIDE DEF before
  <2>1. pod \in PodStates
    BY <1>2 DEF Sound, PodStates
  <2>2. /\ pod.server = "loading" /\ pod.held /\ pod.boot = before.boot
        /\ pod.pc = before.pc /\ pod.handler = before.handler
        /\ pod.status = before.status /\ pod.quiesced = before.quiesced
        /\ pod.identity = before.identity /\ pod.ready = before.ready
        /\ pod.readiness = before.readiness /\ pod.exit = before.exit
        /\ pod.quiesceMarker = before.quiesceMarker
        /\ pod.failureMarker = before.failureMarker
    BY <1>2 DEF Sound, PodStates
  <2>3. PodConsistent(pod)
    BY <1>1, <1>2, <2>2 DEF Sound, PodConsistent, UsesWorkspace, Alive
  <2>4. before.exit = "none"
    BY <1>1, <1>2 DEF Sound, PodConsistent
  <2> QED
    BY <2>1, <2>2, <2>3, <2>4 DEF Sound
<1> HIDE DEF pod
<1>4. pods'[p] = pod /\ \A q \in Pods \ {p} : pods'[q] = pods[q]
  BY <1>1 DEF IInv, TypeOK
<1>5. TypeOK'
  <2>1. before.boot \in Boots
    BY <1>2 DEF Sound, PodStates
  <2>2. pods' \in [Pods -> PodStates]
    BY <1>1, <1>3 DEF IInv, TypeOK, Sound
  <2> QED
    BY <1>1, <2>1, <2>2 DEF TypeOK
<1>6. ASSUME NEW q \in Pods
      PROVE  PodConsistent(pods[q])' /\ LeaseConsistent(q)'
  <2>1. CASE q = p
    BY <1>1, <1>3, <1>4, <2>1 DEF Sound, LeaseConsistent, Owner
  <2>2. CASE q # p
    <3>1. ~pods[q].held
      BY <1>1 DEF IInv, LeaseConsistent
    <3>2. PodConsistent(pods[q])
      BY DEF IInv
    <3> QED
      BY <1>1, <1>4, <2>2, <3>1, <3>2 DEF LeaseConsistent, Owner
  <2> QED
    BY <2>1, <2>2
<1> QED
  BY <1>5, <1>6 DEF IInv

-----------------------------------------------------------------------------
\* The server's own steps.

\* The server's state, its lease and its marker aside.
SameOtherwise(pod, after) ==
  /\ after.boot = pod.boot /\ after.pc = pod.pc /\ after.handler = pod.handler
  /\ after.quiesced = pod.quiesced /\ after.pid = pod.pid
  /\ after.status = pod.status /\ after.identity = pod.identity
  /\ after.exit = pod.exit /\ after.readiness = pod.readiness
  /\ after.quiesceMarker = pod.quiesceMarker
  /\ after.failureMarker = pod.failureMarker

(* A server that goes on: with or without the lease, and with its marker.  *)
LEMMA ServerMoves ==
  ASSUME NEW pod, Sound(pod), Alive(pod), NEW after \in PodStates,
         SameOtherwise(pod, after), Alive(after),
         UsesWorkspace(after) => after.held,
         after.server = "clean" => ~after.held,
         after.ready \in {pod.ready, pod.boot}
  PROVE  Sound(after) /\ after.exit = "none"
<1>1. pod.exit = "none" /\ pod.pc # "booting"
  BY DEF Sound, PodConsistent, Alive
<1>2. PodConsistent(after)
  BY <1>1 DEF Sound, SameOtherwise, PodConsistent, Alive
<1> QED
  BY <1>1, <1>2 DEF Sound, SameOtherwise

(* ... without a change of what it holds, and not to a clean end.          *)
LEMMA ServerGoesOn ==
  ASSUME IInv, NEW p \in Pods, Alive(pods[p]), lease' = lease,
         NEW server \in {"configuring", "loading", "serving", "failing",
                         "ready", "stopping", "faulty"},
         NEW ready \in {pods[p].ready, pods[p].boot},
         server \in {"loading", "serving", "ready", "stopping"} => pods[p].held,
         pods' = [pods EXCEPT ![p] = [pods[p] EXCEPT !.server = server,
                                                     !.ready = ready]]
  PROVE  IInv'
<1> DEFINE pod == pods[p]
           after == [pod EXCEPT !.server = server, !.ready = ready]
<1>1. Sound(pod)
  BY PodOfIInv
<1>2. after \in PodStates
  BY <1>1 DEF Sound, PodStates
<1>3. /\ SameOtherwise(pod, after) /\ after.held = pod.held
      /\ after.server = server /\ after.ready = ready
  BY <1>1 DEF Sound, PodStates, SameOtherwise
<1>4. pods' = [pods EXCEPT ![p] = after]
  OBVIOUS
<1> HIDE DEF after
<1>5. Sound(after) /\ after.exit = "none"
  BY <1>1, <1>2, <1>3, ServerMoves DEF UsesWorkspace, Alive
<1>6. Quiet(pod, after)
  BY <1>3, <1>5 DEF Quiet, SameOtherwise
<1> QED
  BY <1>4, <1>5, <1>6, QuietStep

(* The server ends with the lease as it is, or gives it back first.        *)
LEMMA ServerEndsStep ==
  ASSUME IInv, NEW p \in Pods, Alive(pods[p]),
         NEW after \in ReleaseLease(pods[p]),
         pods' = [pods EXCEPT ![p] = ServerEnds(pods[p], "failed")],
         lease' = after.lease
  PROVE  IInv'
<1> DEFINE pod == ServerEnds(pods[p], "failed")
<1>1. Sound(pod) /\ Quiet(pods[p], pod)
  BY PodOfIInv, ServerEndsPod DEF Statuses
<1>2. ~pod.held
  BY PodOfIInv DEF ServerEnds, Sound, PodStates
<1> HIDE DEF pod
<1>3. \/ after.lease = lease
      \/ after.lease = {} /\ pods[p].held
  BY DEF ReleaseLease
<1>4. pods' = [pods EXCEPT ![p] = pod]
  BY DEF pod
<1>5. CASE after.lease = lease
  BY <1>1, <1>4, <1>5, QuietStep
<1>6. CASE after.lease = {} /\ pods[p].held
  BY <1>1, <1>2, <1>4, <1>6, ReleaseStep
<1> QED
  BY <1>3, <1>5, <1>6

LEMMA ServerKeepsIInv ==
  ASSUME IInv, NEW p \in Pods, Server(p)
  PROVE  IInv'
<1> DEFINE pod == pods[p]
<1>0. Sound(pod)
  BY PodOfIInv
<1>1. \A s : [pod EXCEPT !.server = s]
               = [pod EXCEPT !.server = s, !.ready = pod.ready]
  BY <1>0 DEF Sound, PodStates
<1>2. CASE RegisterSignals(p)
  BY <1>1, <1>2, ServerGoesOn DEF RegisterSignals, ServerStep, Alive
<1>3. CASE ConfigurationFails(p)
  <2>1. Alive(pod)
    BY <1>3 DEF ConfigurationFails, ServerStep, Alive
  <2>2. Sound(ServerEnds(pod, "failed")) /\ Quiet(pod, ServerEnds(pod, "failed"))
    BY <1>0, <2>1, ServerEndsPod DEF Statuses
  <2> QED
    BY <1>3, <2>2, QuietStep DEF ConfigurationFails, ServerStep
<1>4. CASE AcquireLease(p)
  BY <1>4, AcquireStep
<1>5. CASE AcquireFails(p)
  BY <1>1, <1>5, ServerGoesOn DEF AcquireFails, ServerStep, Alive
<1>6. CASE StartFails(p) \/ ShutdownEnds(p)
  <2>1. PICK after \in ReleaseLease(pod),
             server \in {"failing", "clean", "faulty"} :
          /\ pod.server \in {"loading", "stopping"}
          /\ server = "clean" => ~after.held
          /\ pods' = [pods EXCEPT ![p] = [pod EXCEPT !.server = server,
                                                     !.held = after.held]]
          /\ lease' = after.lease
    BY <1>6, Zenon DEF StartFails, ShutdownEnds, ServerStep
  <2> DEFINE next == [pod EXCEPT !.server = server, !.held = after.held]
  <2>2. pod.held /\ Alive(pod)
    BY <1>0, <2>1 DEF Sound, PodConsistent, UsesWorkspace, Alive
  <2>3. \/ after.held = pod.held /\ after.lease = lease
        \/ after.held = FALSE /\ after.lease = {}
    BY DEF ReleaseLease
  <2>4. after.held \in BOOLEAN
    BY <1>0, <2>3 DEF Sound, PodStates
  <2>5. next \in PodStates
    BY <1>0, <2>4 DEF Sound, PodStates
  <2>6. /\ SameOtherwise(pod, next) /\ next.held = after.held
        /\ next.server = server /\ next.ready = pod.ready
    BY <1>0 DEF Sound, PodStates, SameOtherwise
  <2>7. pods' = [pods EXCEPT ![p] = next]
    BY <2>1
  <2> HIDE DEF next
  <2>10. Sound(next) /\ next.exit = "none"
    BY <1>0, <2>1, <2>2, <2>5, <2>6, ServerMoves DEF UsesWorkspace, Alive
  <2>8. CASE after.held = pod.held /\ after.lease = lease
    <3>1. Quiet(pod, next)
      BY <2>1, <2>2, <2>6, <2>8, <2>10 DEF Quiet, SameOtherwise
    <3> QED
      BY <2>1, <2>7, <2>8, <2>10, <3>1, QuietStep
  <2>9. CASE after.held = FALSE /\ after.lease = {}
    BY <2>1, <2>2, <2>6, <2>7, <2>9, <2>10, ReleaseStep
  <2> QED
    BY <2>3, <2>8, <2>9
<1>7. CASE StartSucceeds(p)
  <2>1. pod.held
    BY <1>0, <1>7 DEF StartSucceeds, ServerStep, Sound, PodConsistent,
                      UsesWorkspace
  <2> QED
    BY <1>1, <1>7, <2>1, ServerGoesOn DEF StartSucceeds, ServerStep, Alive
<1>8. CASE ServeFails(p)
  BY <1>1, <1>8, ServerGoesOn DEF ServeFails, ServerStep, Alive
<1>9. CASE FailedStartEnds(p)
  BY <1>9, ServerEndsStep DEF FailedStartEnds, ServerStep, Alive
<1>10. CASE PublishManagedReadyMarker(p)
  <2>1. pod.held
    BY <1>0, <1>10 DEF PublishManagedReadyMarker, ServerStep, Sound,
                       PodConsistent, UsesWorkspace
  <2> QED
    BY <1>10, <2>1, ServerGoesOn
    DEF PublishManagedReadyMarker, ServerStep, Alive
<1>11. CASE NoticeSignal(p)
  <2>1. pod.held
    BY <1>0, <1>11 DEF NoticeSignal, ServerStep, Sound, PodConsistent,
                       UsesWorkspace
  <2> QED
    BY <1>1, <1>11, <2>1, ServerGoesOn DEF NoticeSignal, ServerStep, Alive
<1>12. CASE RemoveManagedReadyMarker(p)
  <2> DEFINE exit == IF pod.server = "clean" THEN "0" ELSE "failed"
             ended == ServerEnds(pod, exit)
             after == [ended EXCEPT !.ready = 0]
  <2>1. Alive(pod) /\ exit \in Statuses
    BY <1>12 DEF RemoveManagedReadyMarker, Alive, Statuses
  <2>2. Sound(ended)
    BY <1>0, <2>1, ServerEndsPod
  <2>3. /\ ended.held = FALSE /\ ended.exit = exit /\ ended.boot = pod.boot
        /\ ended.server = "exited"
    BY <1>0 DEF Sound, ServerEnds, PodStates
  <2>4. pods' = [pods EXCEPT ![p] = after] /\ lease' = lease
    BY <1>12 DEF RemoveManagedReadyMarker
  <2> HIDE DEF ended, exit
  <2>5. after \in PodStates
    BY <2>2, ZeroIsBoot DEF Sound, PodStates
  <2>6. /\ after.ready = 0 /\ after.readiness = ended.readiness
        /\ after.pc = ended.pc /\ after.handler = ended.handler
        /\ after.status = ended.status /\ after.quiesced = ended.quiesced
        /\ after.identity = ended.identity /\ after.server = ended.server
        /\ after.held = ended.held /\ after.exit = ended.exit
        /\ after.boot = ended.boot /\ after.pid = ended.pid
        /\ after.quiesceMarker = ended.quiesceMarker
        /\ after.failureMarker = ended.failureMarker
    BY <2>2 DEF Sound, PodStates
  <2> HIDE DEF after
  <2>7. Sound(after)
    BY <2>2, <2>5, <2>6 DEF Sound, PodConsistent, UsesWorkspace, Alive
  <2>8. Quiet(pod, after)
    BY <2>3, <2>6 DEF Quiet, exit
  <2> QED
    BY <2>4, <2>7, <2>8, QuietStep
<1> QED
  BY <1>2, <1>3, <1>4, <1>5, <1>6, <1>7, <1>8, <1>9, <1>10, <1>11, <1>12
  DEF Server

-----------------------------------------------------------------------------
\* The script's steps.

\* The server and the files that only traps write stay as they are.
SameServer(pod, after) ==
  /\ after.boot = pod.boot /\ after.handler = pod.handler
  /\ after.quiesced = pod.quiesced /\ after.held = pod.held
  /\ after.exit = pod.exit /\ after.ready = pod.ready
  /\ after.quiesceMarker = pod.quiesceMarker
  /\ after.failureMarker = pod.failureMarker

(* The script goes on in its main part.                                    *)
LEMMA ScriptMoves ==
  ASSUME NEW pod, Sound(pod), NEW after \in PodStates, SameServer(pod, after),
         pod.pc # "exited", after.pc \notin {"booting", "exited"},
         \/ after.server = pod.server
         \/ pod.server = "none" /\ after.server = "starting",
         after.status = pod.status \/ after.status = pod.exit,
         {after.identity, after.readiness} \subseteq
           {0, pod.identity, pod.ready, pod.readiness}
  PROVE  Sound(after) /\ Quiet(pod, after)
<1>1. PodConsistent(after)
  BY DEF Sound, SameServer, PodConsistent, UsesWorkspace, Alive
<1>2. Quiet(pod, after)
  BY DEF SameServer, Quiet
<1> QED
  BY <1>1, <1>2 DEF Sound

LEMMA SupervisorKeepsIInv ==
  ASSUME IInv, NEW p \in Pods, Supervisor(p)
  PROVE  IInv'
<1> DEFINE pod == pods[p]
<1>0. Sound(pod)
  BY PodOfIInv
<1>1. CASE KillServer(p)
  BY <1>0, <1>1, KilledPod, QuietStep DEF KillServer
<1>2. CASE ShutdownReturns(p)
  <2> DEFINE told == WithoutReadiness(pod)
             h == IF told.handler = "shutdown" THEN "none" ELSE "quiesce"
             after == [told EXCEPT !.handler = h]
  <2>1. Sound(told) /\ Quiet(pod, told)
    BY <1>0, WithoutReadinessPod
  <2>2. told.handler = pod.handler /\ told.pc = pod.pc
    BY <1>0 DEF WithoutReadiness, Sound, PodStates
  <2>3. /\ pod.handler \in {"shutdown", "shutdown in quiesce"}
        /\ pods' = [pods EXCEPT ![p] = after] /\ lease' = lease
    BY <1>2 DEF ShutdownReturns
  <2> HIDE DEF told
  <2>4. told.pc # "exited"
    BY <2>1, <2>2, <2>3 DEF Sound, PodConsistent
  <2>5. h = "quiesce" => told.quiesced /\ told.quiesceMarker = 0
                           /\ told.failureMarker = 0
    BY <2>1, <2>2, <2>3 DEF Sound, PodConsistent
  <2>6. /\ after = [told EXCEPT !.stopping = told.stopping,
                                !.quiesced = told.quiesced, !.handler = h,
                                !.cut = told.cut]
        /\ told.stopping \in BOOLEAN /\ told.quiesced \in BOOLEAN
        /\ told.cut \in RunningScript \cup {"none"}
    BY <2>1 DEF Sound, PodStates
  <2> HIDE DEF after, h
  <2>7. h \in {"none", "quiesce"}
    BY DEF h
  <2>8. Sound(after) /\ Quiet(told, after)
    BY <2>1, <2>4, <2>5, <2>6, <2>7, HandlerPod
  <2> QED
    BY <2>1, <2>3, <2>8, QuietTransitive, QuietStep
<1>3. CASE QuiesceReturns(p)
  <2> DEFINE ended == [pod EXCEPT !.handler = "none", !.pid = FALSE]
             after == QuiescedWith(ended, pod.exit)
  <2>1. /\ pods' = [pods EXCEPT ![p] = after] /\ lease' = lease
        /\ pod.handler = "quiesce"
    BY <1>3 DEF QuiesceReturns
  <2>2. ended \in PodStates
    BY <1>0 DEF Sound, PodStates
  <2>3. /\ ended.handler = "none" /\ ended.pid = FALSE
        /\ ended.boot = pod.boot /\ ended.pc = pod.pc
        /\ ended.quiesced = pod.quiesced /\ ended.status = pod.status
        /\ ended.identity = pod.identity /\ ended.server = pod.server
        /\ ended.held = pod.held /\ ended.exit = pod.exit
        /\ ended.ready = pod.ready /\ ended.readiness = pod.readiness
        /\ ended.quiesceMarker = pod.quiesceMarker
        /\ ended.failureMarker = pod.failureMarker
    BY <1>0 DEF Sound, PodStates
  <2> HIDE DEF ended
  <2>4. pod.quiesced /\ pod.quiesceMarker = 0 /\ pod.failureMarker = 0
    BY <1>0, <2>1 DEF Sound, PodConsistent
  <2>5. Sound(ended) /\ Quiet(pod, ended)
    BY <1>0, <2>2, <2>3 DEF Sound, PodConsistent, UsesWorkspace, Alive, Quiet
  <2>6. Sound(after) /\ Quiet(ended, after)
    BY <2>3, <2>4, <2>5, QuiescedWithPod
  <2> HIDE DEF after
  <2> QED
    BY <2>1, <2>5, <2>6, QuietTransitive, QuietStep
<1>4. CASE SpawnServer(p)
  <2> DEFINE after == [pod EXCEPT !.pc = "waiting", !.pid = TRUE,
                                  !.server = "starting"]
  <2>1. /\ pods' = [pods EXCEPT ![p] = after] /\ lease' = lease
        /\ pod.pc = "booting"
    BY <1>4 DEF SpawnServer, ScriptStep
  <2>2. after \in PodStates
    BY <1>0 DEF Sound, PodStates, RunningScript
  <2>3. /\ SameServer(pod, after) /\ after.pc = "waiting"
        /\ after.server = "starting" /\ after.status = pod.status
        /\ after.identity = pod.identity /\ after.readiness = pod.readiness
    BY <1>0 DEF Sound, PodStates, SameServer
  <2> HIDE DEF after
  <2>4. pod.server = "none"
    BY <1>0, <2>1 DEF Sound, PodConsistent
  <2>5. Sound(after) /\ Quiet(pod, after)
    BY <1>0, <2>1, <2>2, <2>3, <2>4, ScriptMoves
  <2> QED
    BY <2>1, <2>5, QuietStep
<1>5. CASE SeeReadyMarker(p)
  <2> DEFINE after == [pod EXCEPT !.pc = "publishing", !.identity = pod.ready]
  <2>1. /\ pods' = [pods EXCEPT ![p] = after] /\ lease' = lease
        /\ pod.pc = "waiting"
    BY <1>5 DEF SeeReadyMarker, ScriptStep
  <2>2. after \in PodStates
    BY <1>0 DEF Sound, PodStates, RunningScript
  <2>3. /\ SameServer(pod, after) /\ after.pc = "publishing"
        /\ after.server = pod.server /\ after.status = pod.status
        /\ after.identity = pod.ready /\ after.readiness = pod.readiness
    BY <1>0 DEF Sound, PodStates, SameServer
  <2> HIDE DEF after
  <2>4. Sound(after) /\ Quiet(pod, after)
    BY <1>0, <2>1, <2>2, <2>3, ScriptMoves
  <2> QED
    BY <2>1, <2>4, QuietStep
<1>6. CASE PublishReadiness(p)
  <2>1. PICK readiness \in {pod.identity, pod.readiness} :
          ScriptStep(p, "publishing", [pod EXCEPT !.pc = "watching",
                                                  !.readiness = readiness,
                                                  !.identity = 0])
    BY <1>6 DEF PublishReadiness
  <2> DEFINE after == [pod EXCEPT !.pc = "watching", !.readiness = readiness,
                                  !.identity = 0]
  <2>2. /\ pods' = [pods EXCEPT ![p] = after] /\ lease' = lease
        /\ pod.pc = "publishing"
    BY <2>1 DEF ScriptStep
  <2>3. after \in PodStates
    BY <1>0, ZeroIsBoot DEF Sound, PodStates, RunningScript
  <2>4. /\ SameServer(pod, after) /\ after.pc = "watching"
        /\ after.server = pod.server /\ after.status = pod.status
        /\ after.identity = 0 /\ after.readiness = readiness
    BY <1>0 DEF Sound, PodStates, SameServer
  <2> HIDE DEF after
  <2>5. Sound(after) /\ Quiet(pod, after)
    BY <1>0, <2>2, <2>3, <2>4, ScriptMoves
  <2> QED
    BY <2>2, <2>5, QuietStep
<1>7. CASE SeeServerGone(p)
  <2> DEFINE after == [pod EXCEPT !.pc = "reaped", !.pid = FALSE,
                                  !.status = pod.exit]
  <2>1. /\ pods' = [pods EXCEPT ![p] = after] /\ lease' = lease
        /\ pod.pc = "watching"
    BY <1>7 DEF SeeServerGone, ScriptStep
  <2>2. after \in PodStates
    BY <1>0 DEF Sound, PodStates, RunningScript
  <2>3. /\ SameServer(pod, after) /\ after.pc = "reaped"
        /\ after.server = pod.server /\ after.status = pod.exit
        /\ after.identity = pod.identity /\ after.readiness = pod.readiness
    BY <1>0 DEF Sound, PodStates, SameServer
  <2> HIDE DEF after
  <2>4. Sound(after) /\ Quiet(pod, after)
    BY <1>0, <2>1, <2>2, <2>3, ScriptMoves
  <2> QED
    BY <2>1, <2>4, QuietStep
<1>8. CASE ReadinessFails(p) \/ SeeStopping(p) \/ LeaveWithStatus(p)
  <2>1. /\ pod.pc \in RunningScript /\ lease' = lease
        /\ pods' = [pods EXCEPT ![p] = Leaves(pod)]
    BY <1>8
    DEF ReadinessFails, SeeStopping, LeaveWithStatus, ScriptStep, RunningScript
  <2> QED
    BY <1>0, <2>1, LeavesPod, QuietStep
<1>9. CASE Exit(p)
  BY <1>0, <1>9, ScriptEndsPod, QuietStep DEF Exit, ScriptStep
<1> QED
  BY <1>1, <1>2, <1>3, <1>4, <1>5, <1>6, <1>7, <1>8, <1>9 DEF Supervisor

-----------------------------------------------------------------------------
LEMMA StepIInv == IInv /\ [Next]_vars => IInv'
<1> SUFFICES ASSUME IInv, [Next]_vars PROVE IInv'
  OBVIOUS
<1>1. ASSUME NEW p \in Pods, Boot(p) PROVE IInv'
  <2> DEFINE pod == pods[p]
             after == [NoContainer EXCEPT !.boot = pod.boot + 1, !.pc = "booting"]
  <2>1. /\ pods' = [pods EXCEPT ![p] = after] /\ lease' = lease /\ Startable(p)
    BY <1>1 DEF Boot
  <2>2. pod.boot + 1 \in Boots
    <3>1. pod.boot \in Boots
      BY PodOfIInv DEF Sound, PodStates
    <3> QED
      BY <2>1, <3>1, RestartsAssumption DEF Startable, Boots
  <2>3. after \in PodStates
    BY <2>2, ZeroIsBoot DEF NoContainer, PodStates, RunningScript, Statuses
  <2>4. PodConsistent(after) /\ Quiet(pod, after)
    BY DEF NoContainer, PodConsistent, UsesWorkspace, Alive, Quiet
  <2> HIDE DEF after
  <2> QED
    BY <2>1, <2>3, <2>4, QuietStep DEF Sound
<1>2. ASSUME NEW p \in Pods, ContainerDies(p) PROVE IInv'
  <2> DEFINE dead == Killed(pods[p])
             after == ScriptEnds(dead)
  <2>1. pods' = [pods EXCEPT ![p] = after] /\ lease' = lease
    BY <1>2 DEF ContainerDies
  <2>2. Sound(dead) /\ Quiet(pods[p], dead)
    BY PodOfIInv, KilledPod
  <2> HIDE DEF dead
  <2>3. Sound(after) /\ Quiet(dead, after)
    BY <2>2, ScriptEndsPod
  <2> HIDE DEF after
  <2> QED
    BY <2>1, <2>2, <2>3, QuietTransitive, QuietStep
<1>3. ASSUME NEW p \in Pods, ServerDies(p) PROVE IInv'
  BY <1>3, PodOfIInv, KilledPod, QuietStep DEF ServerDies
<1>4. ASSUME NEW p \in Pods, TrapTerm(p) PROVE IInv'
  BY <1>4, PodOfIInv, ShutdownPod, QuietStep DEF TrapTerm
<1>5. ASSUME NEW p \in Pods, TrapUsr1(p) PROVE IInv'
  BY <1>5, PodOfIInv, QuiescePod, QuietStep DEF TrapUsr1
<1>6. ASSUME NEW p \in Pods, Supervisor(p) PROVE IInv'
  BY <1>6, SupervisorKeepsIInv
<1>7. ASSUME NEW p \in Pods, Server(p) PROVE IInv'
  BY <1>7, ServerKeepsIInv
<1>8. CASE RemoveStaleLock
  <2>1. ASSUME NEW p \in Pods PROVE ~pods[p].held
    BY <1>8, <2>1 DEF RemoveStaleLock, IInv, PodConsistent, LeaseConsistent
  <2>2. TypeOK'
    BY <1>8 DEF RemoveStaleLock, IInv, TypeOK
  <2> QED
    BY <1>8, <2>1, <2>2 DEF RemoveStaleLock, IInv, LeaseConsistent
<1>9. CASE UNCHANGED vars
  BY <1>9 DEF vars, IInv, TypeOK, LeaseConsistent, Owner
<1> QED
  BY <1>1, <1>2, <1>3, <1>4, <1>5, <1>6, <1>7, <1>8, <1>9 DEF Next

(* The invariant behind the theorems: the lease, the server and the files  *)
(* of every pod agree with each other in every reachable state.            *)
THEOREM ProcessInvariant == Spec => []IInv
<1>1. Init => IInv
  BY InitIInv
<1>2. IInv /\ [Next]_vars => IInv'
  BY StepIInv
<1> QED
  BY <1>1, <1>2, PTL DEF Spec

(* At most one AIServer uses the workspace, however servers are killed,    *)
(* containers restarted, stale locks removed and releases fail.            *)
THEOREM LeaseExclusiveHolds == Spec => []LeaseExclusive
<1>1. ASSUME IInv PROVE LeaseExclusive
  <2> SUFFICES ASSUME NEW p \in Pods, NEW q \in Pods,
                      UsesWorkspace(pods[p]), UsesWorkspace(pods[q])
               PROVE  p = q
    BY DEF LeaseExclusive
  <2>1. lease = {Owner(p)} /\ lease = {Owner(q)}
    BY <1>1 DEF IInv, PodConsistent, LeaseConsistent
  <2>2. Owner(p) = Owner(q)
    BY <2>1
  <2> QED
    BY <2>2 DEF Owner
<1> QED
  BY <1>1, ProcessInvariant, PTL

-----------------------------------------------------------------------------
\* The files and the stop, on top of the invariant above.

\* What a stop finds and leaves of one pod: the script knows its server, notes
\* where the stop came, and a stop that came while it waited for the marker
\* leaves none to be seen.
StopConsistent(pod) ==
  /\ Alive(pod) /\ pod.pc # "exited" => pod.pid
  /\ pod.handler \in {"shutdown", "shutdown in quiesce"} => pod.stopping
  /\ pod.pc \in {"waiting", "publishing", "watching"} /\ ~pod.stopping =>
       pod.pid \/ pod.quiesced
  /\ pod.stopping /\ pod.pc = "booting" => pod.cut = "booting"
  /\ pod.stopping /\ pod.pc = "waiting" => pod.cut \in {"booting", "waiting"}
  /\ pod.stopping /\ pod.pc = "publishing" =>
       pod.cut \in {"booting", "publishing"}
  /\ /\ pod.stopping /\ pod.pc = "waiting" /\ pod.cut = "waiting"
     /\ pod.handler \notin {"shutdown", "shutdown in quiesce"}
     => pod.ready = 0 /\ ~Alive(pod)
  /\ pod.readiness # 0 =>
       \/ pod.pc = "exited" \/ RemovalAhead(pod) \/ AwaitsStop(pod)
       \/ PublishedAfterStop(pod)


StopInv == \A p \in Pods : StopConsistent(pods[p])

\* What the server and the signals to it may change: the script's variables and
\* readiness stay, and only a living server writes its marker.
SameScript(pod, after) ==
  /\ after.pc = pod.pc /\ after.handler = pod.handler
  /\ after.stopping = pod.stopping /\ after.quiesced = pod.quiesced
  /\ after.pid = pod.pid /\ after.cut = pod.cut
  /\ after.readiness = pod.readiness
  /\ Alive(after) => Alive(pod)
  /\ after.ready \in {0, pod.ready} \/ Alive(pod)

LEMMA SameScriptStops ==
  ASSUME NEW pod, NEW after, StopConsistent(pod), SameScript(pod, after)
  PROVE  StopConsistent(after)
  BY DEF StopConsistent, SameScript, RemovalAhead, AwaitsStop,
         PublishedAfterStop

LEMMA KilledSame ==
  ASSUME NEW pod \in PodStates
  PROVE  SameScript(pod, Killed(pod)) /\ Killed(pod) \in PodStates
<1>1. SameScript(pod, Killed(pod))
  BY DEF PodStates, Killed, ServerEnds, SameScript, Alive
<1>2. ServerEnds(pod, "failed") \in PodStates
  BY DEF PodStates, ServerEnds, Statuses
<1> QED
  BY <1>1, <1>2 DEF Killed

LEMMA ScriptEndsStops ==
  ASSUME NEW pod \in PodStates
  PROVE  StopConsistent(ScriptEnds(pod))
<1> DEFINE after == ScriptEnds(pod)
<1>1. after.pc = "exited" /\ after.handler = "none" /\ ~after.stopping
  BY DEF ScriptEnds, PodStates
<1> HIDE DEF after
<1>2. StopConsistent(after)
  BY <1>1 DEF StopConsistent
<1> QED
  BY <1>2 DEF after

LEMMA SignalledSame ==
  ASSUME NEW pod \in PodStates
  PROVE  SameScript(pod, Signalled(pod)) /\ Signalled(pod) \in PodStates
<1>1. CASE pod.server = "starting"
  BY <1>1, KilledSame DEF Signalled
<1>2. CASE pod.server # "starting"
  BY <1>2 DEF Signalled, SameScript, PodStates, Alive
<1> QED
  BY <1>1, <1>2

LEMMA PodStep ==
  ASSUME TypeOK, StopInv, NEW p \in Pods, NEW after, StopConsistent(after),
         pods' = [pods EXCEPT ![p] = after]
  PROVE  StopInv'
<1>1. pods'[p] = after /\ \A q \in Pods \ {p} : pods'[q] = pods[q]
  BY DEF TypeOK
<1>2. ASSUME NEW q \in Pods PROVE StopConsistent(pods'[q])
  <2>1. CASE q = p
    BY <1>1, <2>1
  <2>2. CASE q # p
    BY <1>1, <2>2 DEF StopInv
  <2> QED
    BY <2>1, <2>2
<1> QED
  BY <1>2 DEF StopInv

LEMMA SameScriptStep ==
  ASSUME TypeOK, StopInv, NEW p \in Pods, NEW after, SameScript(pods[p], after),
         pods' = [pods EXCEPT ![p] = after]
  PROVE  StopInv'
  BY SameScriptStops, PodStep DEF StopInv

(* What shutdown does when it has not run yet.                             *)
LEMMA ShutdownFirst ==
  ASSUME NEW pod \in PodStates, ~pod.stopping
  PROVE  LET after == Shutdown(pod) IN
         /\ after.pc = pod.pc /\ after.stopping /\ after.cut = pod.pc
         /\ Alive(after) => Alive(pod)
         /\ \/ /\ ~pod.pid /\ ~after.pid /\ after.handler = pod.handler
               /\ after.readiness = 0 /\ after.ready = 0
            \/ /\ pod.pid /\ after.pid
               /\ after.handler \in {"shutdown", "shutdown in quiesce"}
<1>1. CASE ~pod.pid
  BY <1>1 DEF Shutdown, WithoutReadiness, PodStates, Alive
<1>2. CASE pod.pid
  <2> DEFINE sig == Signalled(pod)
  <2>1. sig \in PodStates /\ SameScript(pod, sig)
    BY SignalledSame
  <2>2. Shutdown(pod) =
          [sig EXCEPT !.stopping = TRUE, !.cut = pod.pc,
                      !.handler = IF @ = "quiesce" THEN "shutdown in quiesce"
                                  ELSE "shutdown"]
    BY <1>2 DEF Shutdown
  <2> HIDE DEF sig
  <2> QED
    BY <1>2, <2>1, <2>2 DEF PodStates, SameScript, Alive
<1> QED
  BY <1>1, <1>2 DEF PodStates

LEMMA ShutdownStops ==
  ASSUME NEW pod, Sound(pod), StopConsistent(pod), ~pod.stopping,
         pod.pc # "exited"
  PROVE  StopConsistent(Shutdown(pod))
<1> DEFINE after == Shutdown(pod)
<1>1. pod \in PodStates
  BY DEF Sound
<1>2. /\ after.pc = pod.pc /\ after.stopping /\ after.cut = pod.pc
      /\ Alive(after) => Alive(pod)
      /\ \/ /\ ~pod.pid /\ ~after.pid /\ after.handler = pod.handler
            /\ after.readiness = 0 /\ after.ready = 0
         \/ /\ pod.pid /\ after.pid
            /\ after.handler \in {"shutdown", "shutdown in quiesce"}
  BY <1>1, ShutdownFirst
<1> HIDE DEF after
<1>3. StopConsistent(after)
  BY <1>2 DEF StopConsistent, RemovalAhead, AwaitsStop, PublishedAfterStop
<1> QED
  BY <1>3 DEF after

(* exit, from where the script does it with no trap at work.               *)
LEMMA LeavesStops ==
  ASSUME NEW pod, Sound(pod), StopConsistent(pod), pod.handler = "none",
         pod.pc \in {"waiting", "watching", "reaped"}
  PROVE  StopConsistent(Leaves(pod))
<1> DEFINE down == Shutdown(pod)
           after == Leaves(pod)
<1>1. down \in PodStates
  BY ShutdownPod DEF Sound, RunningScript
<1>2. /\ after.pc = "leaving"
      /\ \A f \in {"handler", "stopping", "quiesced", "pid", "cut", "server",
                   "ready", "readiness"} : after[f] = down[f]
  BY <1>1 DEF Leaves, PodStates
<1>3. /\ after.handler = down.handler /\ after.stopping = down.stopping
      /\ after.quiesced = down.quiesced /\ after.pid = down.pid
      /\ after.cut = down.cut /\ after.server = down.server
      /\ after.readiness = down.readiness
  BY <1>2
<1>4. StopConsistent(down) /\ down.stopping /\ down.pc = pod.pc
  <2>1. CASE pod.stopping
    BY <2>1 DEF Shutdown
  <2>2. CASE ~pod.stopping
    BY <2>2, ShutdownStops, ShutdownFirst DEF Sound
  <2> QED
    BY <2>1, <2>2 DEF Sound, PodStates
<1> HIDE DEF after, down
<1>5. StopConsistent(after)
  BY <1>2, <1>3, <1>4
  DEF StopConsistent, RemovalAhead, AwaitsStop, PublishedAfterStop, Alive
<1> QED
  BY <1>5 DEF after

LEMMA ServerKeepsStops ==
  ASSUME TypeOK, StopInv, NEW p \in Pods, Server(p)
  PROVE  StopInv'
<1> DEFINE pod == pods[p]
<1>0. pod \in PodStates
  BY DEF TypeOK
<1>1. ASSUME NEW after, ServerStep(p, pod.server, after), SameScript(pod, after)
      PROVE  StopInv'
  BY <1>1, SameScriptStep DEF ServerStep
<1>2. CASE RegisterSignals(p)
  <2>1. SameScript(pod, [pod EXCEPT !.server = "configuring"])
    BY <1>0, <1>2 DEF RegisterSignals, ServerStep, SameScript, Alive, PodStates
  <2> QED
    BY <1>1, <1>2, <2>1 DEF RegisterSignals, ServerStep
<1>3. CASE ConfigurationFails(p)
  <2>1. SameScript(pod, ServerEnds(pod, "failed"))
    BY <1>0 DEF ServerEnds, SameScript, Alive, PodStates
  <2> QED
    BY <1>1, <1>3, <2>1 DEF ConfigurationFails, ServerStep
<1>4. CASE AcquireLease(p)
  <2>1. SameScript(pod, [pod EXCEPT !.server = "loading", !.held = TRUE])
    BY <1>0, <1>4 DEF AcquireLease, ServerStep, SameScript, Alive, PodStates
  <2> QED
    BY <1>1, <1>4, <2>1 DEF AcquireLease, ServerStep
<1>5. CASE AcquireFails(p) \/ ServeFails(p)
  <2>1. SameScript(pod, [pod EXCEPT !.server = "failing"])
    BY <1>0, <1>5
    DEF AcquireFails, ServeFails, ServerStep, SameScript, Alive, PodStates
  <2> QED
    BY <1>1, <1>5, <2>1 DEF AcquireFails, ServeFails, ServerStep
<1>6. CASE StartFails(p)
  <2>1. PICK held : ServerStep(p, "loading", [pod EXCEPT !.server = "failing",
                                                         !.held = held])
    BY <1>6 DEF StartFails
  <2>2. SameScript(pod, [pod EXCEPT !.server = "failing", !.held = held])
    BY <1>0, <2>1 DEF ServerStep, SameScript, Alive, PodStates
  <2> QED
    BY <1>1, <2>1, <2>2 DEF ServerStep
<1>7. CASE StartSucceeds(p)
  <2>1. SameScript(pod, [pod EXCEPT !.server = "serving"])
    BY <1>0, <1>7 DEF StartSucceeds, ServerStep, SameScript, Alive, PodStates
  <2> QED
    BY <1>1, <1>7, <2>1 DEF StartSucceeds, ServerStep
<1>8. CASE FailedStartEnds(p)
  <2>1. SameScript(pod, ServerEnds(pod, "failed"))
    BY <1>0 DEF ServerEnds, SameScript, Alive, PodStates
  <2> QED
    BY <1>1, <1>8, <2>1 DEF FailedStartEnds, ServerStep
<1>9. CASE PublishManagedReadyMarker(p)
  <2>1. SameScript(pod, [pod EXCEPT !.server = "ready", !.ready = pod.boot])
    BY <1>0, <1>9
    DEF PublishManagedReadyMarker, ServerStep, SameScript, Alive, PodStates
  <2> QED
    BY <1>1, <1>9, <2>1 DEF PublishManagedReadyMarker, ServerStep
<1>10. CASE NoticeSignal(p)
  <2>1. SameScript(pod, [pod EXCEPT !.server = "stopping"])
    BY <1>0, <1>10 DEF NoticeSignal, ServerStep, SameScript, Alive, PodStates
  <2> QED
    BY <1>1, <1>10, <2>1 DEF NoticeSignal, ServerStep
<1>11. CASE ShutdownEnds(p)
  <2>1. PICK held, server : ServerStep(p, "stopping",
                              [pod EXCEPT !.server = server, !.held = held])
    BY <1>11 DEF ShutdownEnds
  <2>2. SameScript(pod, [pod EXCEPT !.server = server, !.held = held])
    BY <1>0, <2>1 DEF ServerStep, SameScript, Alive, PodStates
  <2> QED
    BY <1>1, <2>1, <2>2 DEF ServerStep
<1>12. CASE RemoveManagedReadyMarker(p)
  <2> DEFINE exit == IF pod.server = "clean" THEN "0" ELSE "failed"
  <2>1. SameScript(pod, [ServerEnds(pod, exit) EXCEPT !.ready = 0])
    BY <1>0 DEF ServerEnds, SameScript, Alive, PodStates
  <2>2. pods' = [pods EXCEPT ![p] =
                   [ServerEnds(pod, exit) EXCEPT !.ready = 0]]
    BY <1>12 DEF RemoveManagedReadyMarker
  <2> QED
    BY <2>1, <2>2, SameScriptStep
<1> QED
  BY <1>2, <1>3, <1>4, <1>5, <1>6, <1>7, <1>8, <1>9, <1>10, <1>11, <1>12
  DEF Server

LEMMA QuiesceStops ==
  ASSUME NEW pod \in PodStates, StopConsistent(pod), ~pod.stopping
  PROVE  StopConsistent(Quiesce(pod))
<1> DEFINE after == Quiesce(pod)
<1>1. /\ after.pc = pod.pc /\ ~after.stopping /\ after.quiesced
      /\ after.pid = pod.pid
      /\ Alive(after) => Alive(pod)
      /\ after.handler \in {pod.handler, "quiesce"}
  <2>1. CASE ~pod.pid
    BY <2>1 DEF Quiesce, QuiescedWith, PodStates, Alive
  <2>2. CASE pod.pid
    <3> DEFINE sig == Signalled(pod)
    <3>1. sig \in PodStates /\ SameScript(pod, sig)
      BY SignalledSame
    <3>2. after = [sig EXCEPT !.quiesced = TRUE, !.handler = "quiesce"]
      BY <2>2 DEF Quiesce
    <3> HIDE DEF sig, after
    <3> QED
      BY <3>1, <3>2 DEF PodStates, SameScript, Alive
  <2> QED
    BY <2>1, <2>2 DEF PodStates
<1> HIDE DEF after
<1>2. after.handler \notin {"shutdown", "shutdown in quiesce"}
  BY <1>1 DEF StopConsistent
<1>3. Alive(after) /\ after.pc # "exited" => after.pid
  BY <1>1 DEF StopConsistent
<1>4. AwaitsStop(after)
  BY <1>1 DEF AwaitsStop
<1>5. StopConsistent(after)
  BY <1>1, <1>2, <1>3, <1>4 DEF StopConsistent
<1> QED
  BY <1>5 DEF after

LEMMA SupervisorKeepsStops ==
  ASSUME IInv, StopInv, NEW p \in Pods, Supervisor(p)
  PROVE  StopInv'
<1> DEFINE pod == pods[p]
<1>0. /\ TypeOK /\ Sound(pod) /\ pod \in PodStates /\ StopConsistent(pod)
  BY PodOfIInv DEF IInv, StopInv, Sound
<1>1. CASE KillServer(p)
  BY <1>0, <1>1, KilledSame, SameScriptStep DEF KillServer
<1>2. CASE ShutdownReturns(p)
  <2> DEFINE after == [WithoutReadiness(pod) EXCEPT
                         !.handler = IF @ = "shutdown" THEN "none" ELSE "quiesce"]
  <2>1. /\ pods' = [pods EXCEPT ![p] = after]
        /\ pod.handler \in {"shutdown", "shutdown in quiesce"} /\ ~Alive(pod)
    BY <1>2 DEF ShutdownReturns
  <2>2. /\ after.pc = pod.pc /\ after.stopping = pod.stopping
        /\ after.cut = pod.cut /\ after.server = pod.server
        /\ after.readiness = 0 /\ after.ready = 0
        /\ after.handler \in {"none", "quiesce"}
    BY <1>0, <2>1 DEF WithoutReadiness, PodStates
  <2> HIDE DEF after
  <2>3. StopConsistent(after)
    BY <1>0, <2>1, <2>2 DEF StopConsistent, Alive
  <2> QED
    BY <1>0, <2>1, <2>3, PodStep
<1>3. CASE QuiesceReturns(p)
  <2> DEFINE after == QuiescedWith([pod EXCEPT !.handler = "none",
                                               !.pid = FALSE], pod.exit)
  <2>1. /\ pods' = [pods EXCEPT ![p] = after]
        /\ pod.handler = "quiesce" /\ ~Alive(pod)
    BY <1>3 DEF QuiesceReturns
  <2>2. /\ after.pc = pod.pc /\ after.stopping = pod.stopping
        /\ after.cut = pod.cut /\ after.server = pod.server
        /\ after.readiness = pod.readiness /\ after.ready = pod.ready
        /\ after.quiesced = pod.quiesced /\ after.handler = "none"
    BY <1>0 DEF QuiescedWith, PodStates
  <2>3. pod.quiesced
    BY <1>0, <2>1 DEF Sound, PodConsistent
  <2> HIDE DEF after
  <2>4. StopConsistent(after)
    BY <1>0, <2>1, <2>2, <2>3
    DEF StopConsistent, RemovalAhead, AwaitsStop, PublishedAfterStop, Alive
  <2> QED
    BY <1>0, <2>1, <2>4, PodStep
<1>4. CASE SpawnServer(p)
  <2> DEFINE after == [pod EXCEPT !.pc = "waiting", !.pid = TRUE,
                                  !.server = "starting"]
  <2>1. /\ pods' = [pods EXCEPT ![p] = after] /\ pod.pc = "booting"
        /\ pod.handler = "none"
    BY <1>4 DEF SpawnServer, ScriptStep
  <2>2. /\ after.pc = "waiting" /\ after.pid /\ after.handler = pod.handler
        /\ after.stopping = pod.stopping /\ after.cut = pod.cut
        /\ after.readiness = pod.readiness /\ after.quiesced = pod.quiesced
    BY <1>0 DEF PodStates
  <2> HIDE DEF after
  <2>3. StopConsistent(after)
    BY <1>0, <2>1, <2>2
    DEF StopConsistent, RemovalAhead, AwaitsStop, PublishedAfterStop
  <2> QED
    BY <1>0, <2>1, <2>3, PodStep
<1>5. CASE SeeReadyMarker(p)
  <2> DEFINE after == [pod EXCEPT !.pc = "publishing", !.identity = pod.ready]
  <2>1. /\ pods' = [pods EXCEPT ![p] = after] /\ pod.pc = "waiting"
        /\ pod.handler = "none" /\ pod.ready # 0
    BY <1>5 DEF SeeReadyMarker, ScriptStep
  <2>2. /\ after.pc = "publishing" /\ after.pid = pod.pid
        /\ after.handler = pod.handler /\ after.server = pod.server
        /\ after.stopping = pod.stopping /\ after.cut = pod.cut
        /\ after.readiness = pod.readiness /\ after.quiesced = pod.quiesced
    BY <1>0 DEF PodStates
  <2> HIDE DEF after
  <2>3. StopConsistent(after)
    BY <1>0, <2>1, <2>2
    DEF StopConsistent, RemovalAhead, AwaitsStop, PublishedAfterStop, Alive
  <2> QED
    BY <1>0, <2>1, <2>3, PodStep
<1>6. CASE PublishReadiness(p)
  <2>1. PICK readiness :
          ScriptStep(p, "publishing", [pod EXCEPT !.pc = "watching",
                                                  !.readiness = readiness,
                                                  !.identity = 0])
    BY <1>6 DEF PublishReadiness
  <2> DEFINE after == [pod EXCEPT !.pc = "watching", !.readiness = readiness,
                                  !.identity = 0]
  <2>2. /\ pods' = [pods EXCEPT ![p] = after] /\ pod.pc = "publishing"
        /\ pod.handler = "none"
    BY <2>1 DEF ScriptStep
  <2>3. /\ after.pc = "watching" /\ after.pid = pod.pid
        /\ after.handler = pod.handler /\ after.server = pod.server
        /\ after.stopping = pod.stopping /\ after.cut = pod.cut
        /\ after.quiesced = pod.quiesced
    BY <1>0 DEF PodStates
  <2> HIDE DEF after
  <2>4. StopConsistent(after)
    BY <1>0, <2>2, <2>3
    DEF StopConsistent, RemovalAhead, AwaitsStop, PublishedAfterStop, Alive
  <2> QED
    BY <1>0, <2>2, <2>4, PodStep
<1>7. CASE SeeServerGone(p)
  <2> DEFINE after == [pod EXCEPT !.pc = "reaped", !.pid = FALSE,
                                  !.status = pod.exit]
  <2>1. /\ pods' = [pods EXCEPT ![p] = after]
        /\ ~pod.stopping /\ ~Alive(pod)
    BY <1>7 DEF SeeServerGone, ScriptStep
  <2>2. /\ after.pc = "reaped" /\ after.handler = pod.handler
        /\ after.server = pod.server /\ after.stopping = pod.stopping
    BY <1>0 DEF PodStates
  <2> HIDE DEF after
  <2>3. StopConsistent(after)
    BY <1>0, <2>1, <2>2 DEF StopConsistent, RemovalAhead, Alive
  <2> QED
    BY <1>0, <2>1, <2>3, PodStep
<1>8. CASE ReadinessFails(p) \/ SeeStopping(p) \/ LeaveWithStatus(p)
  <2>1. /\ pod.pc \in {"waiting", "watching", "reaped"} /\ pod.handler = "none"
        /\ pods' = [pods EXCEPT ![p] = Leaves(pod)]
    BY <1>8 DEF ReadinessFails, SeeStopping, LeaveWithStatus, ScriptStep
  <2> QED
    BY <1>0, <2>1, LeavesStops, PodStep
<1>9. CASE Exit(p)
  BY <1>0, <1>9, ScriptEndsStops, PodStep DEF Exit, ScriptStep
<1> QED
  BY <1>1, <1>2, <1>3, <1>4, <1>5, <1>6, <1>7, <1>8, <1>9 DEF Supervisor

LEMMA StepStopInv == IInv /\ StopInv /\ [Next]_vars => StopInv'
<1> SUFFICES ASSUME IInv, StopInv, [Next]_vars PROVE StopInv'
  OBVIOUS
<1>0. /\ TypeOK
      /\ \A p \in Pods : /\ pods[p] \in PodStates /\ Sound(pods[p])
                         /\ StopConsistent(pods[p])
  BY PodOfIInv DEF IInv, StopInv, Sound
<1>1. ASSUME NEW p \in Pods, Boot(p) PROVE StopInv'
  <2> DEFINE after == [NoContainer EXCEPT !.boot = pods[p].boot + 1,
                                          !.pc = "booting"]
  <2>1. pods' = [pods EXCEPT ![p] = after]
    BY <1>1 DEF Boot
  <2>2. StopConsistent(after)
    BY DEF NoContainer, StopConsistent, Alive
  <2> QED
    BY <1>0, <2>1, <2>2, PodStep
<1>2. ASSUME NEW p \in Pods, ContainerDies(p) PROVE StopInv'
  <2>1. StopConsistent(ScriptEnds(Killed(pods[p])))
    BY <1>0, KilledSame, ScriptEndsStops
  <2> QED
    BY <1>0, <1>2, <2>1, PodStep DEF ContainerDies
<1>3. ASSUME NEW p \in Pods, ServerDies(p) PROVE StopInv'
  BY <1>0, <1>3, KilledSame, SameScriptStep DEF ServerDies
<1>4. ASSUME NEW p \in Pods, TrapTerm(p) PROVE StopInv'
  <2>1. StopConsistent(Shutdown(pods[p]))
    BY <1>0, <1>4, ShutdownStops DEF TrapTerm, RunningScript
  <2> QED
    BY <1>0, <1>4, <2>1, PodStep DEF TrapTerm
<1>5. ASSUME NEW p \in Pods, TrapUsr1(p) PROVE StopInv'
  <2>1. StopConsistent(Quiesce(pods[p]))
    BY <1>0, <1>5, QuiesceStops DEF TrapUsr1
  <2> QED
    BY <1>0, <1>5, <2>1, PodStep DEF TrapUsr1
<1>6. ASSUME NEW p \in Pods, Supervisor(p) PROVE StopInv'
  BY <1>6, SupervisorKeepsStops
<1>7. ASSUME NEW p \in Pods, Server(p) PROVE StopInv'
  BY <1>0, <1>7, ServerKeepsStops
<1>8. CASE RemoveStaleLock \/ UNCHANGED vars
  BY <1>8 DEF RemoveStaleLock, vars, StopInv
<1> QED
  BY <1>1, <1>2, <1>3, <1>4, <1>5, <1>6, <1>7, <1>8 DEF Next

(* Readiness names the process of this boot and is taken away by the stop  *)
(* unless it is published after it; quiesce leaves it to the stop.  The    *)
(* quiesce marker means that this boot's server has shut down clean and    *)
(* left no lock (run.sh).                                                  *)
THEOREM FilesAccountedHolds == Spec => []FilesAccounted
<1>1. Init => StopInv
  <2>1. StopConsistent(NoContainer)
    BY DEF NoContainer, StopConsistent, Alive
  <2> QED
    BY <2>1 DEF Init, StopInv
<1>2. IInv /\ StopInv /\ [Next]_vars => StopInv'
  BY StepStopInv
<1>3. ASSUME IInv, StopInv PROVE FilesAccounted
  <2> SUFFICES ASSUME NEW p \in Pods
               PROVE  /\ pods[p].readiness # 0 =>
                           /\ pods[p].readiness = pods[p].boot
                           /\ \/ pods[p].pc = "exited"
                              \/ RemovalAhead(pods[p]) \/ AwaitsStop(pods[p])
                              \/ PublishedAfterStop(pods[p])
                      /\ pods[p].quiesceMarker # 0 =>
                           /\ pods[p].quiesceMarker = pods[p].boot
                           /\ pods[p].server = "exited" /\ pods[p].exit = "0"
                           /\ Owner(p) \notin lease
                           /\ pods[p].failureMarker = 0
    BY DEF FilesAccounted
  <2>1. PodConsistent(pods[p]) /\ LeaseConsistent(p) /\ StopConsistent(pods[p])
    BY <1>3 DEF IInv, StopInv
  <2>2. pods[p].readiness # 0 => pods[p].readiness = pods[p].boot
    BY <2>1 DEF PodConsistent
  <2>3. pods[p].readiness # 0 =>
          \/ pods[p].pc = "exited"
          \/ RemovalAhead(pods[p]) \/ AwaitsStop(pods[p])
          \/ PublishedAfterStop(pods[p])
    BY <2>1 DEF StopConsistent
  <2>4. pods[p].quiesceMarker # 0 =>
          /\ pods[p].quiesceMarker = pods[p].boot
          /\ pods[p].server = "exited" /\ pods[p].exit = "0"
          /\ Owner(p) \notin lease /\ pods[p].failureMarker = 0
    BY <2>1 DEF PodConsistent, LeaseConsistent
  <2> QED
    BY <2>2, <2>3, <2>4
<1> QED
  BY <1>1, <1>2, <1>3, ProcessInvariant, PTL DEF Spec
=============================================================================
