------------------------ MODULE StarterDockerProofs ------------------------
(***************************************************************************)
(* Proofs about StarterDocker, for any number of starts and any set of     *)
(* waiters: the composition is a Starter, and it keeps its three           *)
(* properties.                                                             *)
(*                                                                         *)
(* All runs share one container, so its owner has to be found in the       *)
(* threads.  Orderly: while no run is lost and the daemon finishes no      *)
(* failed command later, the only thread that may still create it is the   *)
(* current one, before its stop() has read _running; so what stop() does   *)
(* to the container is the last that happens to it.  Faultless: while      *)
(* besides no command fails, stop() finds _running set whenever there is a *)
(* container.                                                              *)
(***************************************************************************)
EXTENDS StarterDocker, StarterProofs

\* Every variable of the docker runtime stays in its range.
UpStates == {"idle", "check", "up", "created", "mark", "returned", "raised"}
DownStates == {"idle", "check", "down", "kill", "down_again", "clear", "clear_raising",
               "returned", "raised"}
DockerTypeOK ==
    /\ up \in [Runs -> UpStates]
    /\ running \in [Runs -> BOOLEAN]
    /\ container \in {"absent", "starting", "accepting", "killed"}
    /\ down \in DownStates
    /\ lost \in SUBSET Runs
    /\ failed \in BOOLEAN
    /\ pending \in SUBSET Effects
    /\ belated \in BOOLEAN

\* A server thread is inside the backend's start() just while the Starter's
\* thread runs it, and the controller inside its stop() just while it stops.
Ended == {"returned", "raised"}
Places ==
    /\ \A r \in Runs :
        /\ srv[r] \in {"unborn", "spawned", "checked"} => up[r] = "idle" /\ target[r] = None
        /\ srv[r] = "running" => up[r] # "idle" /\ target[r] # None
        /\ srv[r] = "exited" => up[r] = "returned"
        /\ up[r] \notin {"idle"} \cup Ended => srv[r] = "running"
    /\ down # "idle" <=> ctl = "stopping"
    /\ ctl = "stopping" => server # None
    /\ serverThread # None /\ ctl # "spawn_server" => srv[serverThread] # "unborn"

\* The daemon has only failed commands to finish.
OnlyFailures == pending # {} \/ belated => failed

\* A run is settled when its thread has ended or is past the commands of start().
Settled(r) == ~Alive(r) \/ up[r] \in Ended

\* From where stop() has read _running on, the run being stopped is settled.
AfterStop == {"check_thread", "joining", "fin_ready", "fin_server", "fin_thread"}
Checked == ctl \in AfterStop \/ down \notin {"idle", "check"}

\* While no run is lost and the daemon is never late, every thread runs its own backend, the runs let go of
\* are settled, _running is set by a start() that returned, and a container is
\* there from its creation by the current run until the stop.
Orderly ==
    lost = {} /\ ~belated =>
        /\ \A r \in Runs : target[r] \in {None, r}
        /\ \A r \in abandoned : srv[r] # "unborn" /\ Settled(r)
        /\ Checked /\ serverThread # None => Settled(serverThread)
        /\ \A r \in Runs : running[r] => up[r] = "returned"
        /\ \A r \in Runs : up[r] \in {"created", "mark"} => container # "absent"
        /\ down \in {"returned", "raised"} => ~running[server]

\* While besides no command failed, a settled run has _running set until its stop
\* clears it, and no container is left by the stop.
Stopped == ctl \in AfterStop \/ down \in {"clear", "returned"}
Faultless ==
    lost = {} /\ ~failed =>
        /\ \A r \in Runs : srv[r] \notin {"raising", "stored", "failed"} /\ up[r] # "raised"
        /\ down \notin {"kill", "down_again", "clear_raising", "raised"}
        /\ serverThread # None /\ up[serverThread] = "returned" /\ ~Stopped => running[serverThread]
        /\ container # "absent" => serverThread # None /\ ~Stopped

-----------------------------------------------------------------------------
\* The composed system is a Starter: what starter.py guarantees with any backend
\* it guarantees with Dnp3DockerServer.
LEMMA StepIsStarterStep == [DockerNext]_allVars => [Next]_vars
<1> SUFFICES ASSUME [DockerNext]_allVars PROVE [Next]_vars
  OBVIOUS
<1>1. CASE StartReplaces
  BY <1>1 DEF StartReplaces, Next, StartStep
<1>2. CASE StopCalled
  BY <1>2 DEF StopCalled, Next, StopStep
<1>3. CASE StopEnds
  BY <1>3 DEF StopEnds, Next, StopStep
<1>4. CASE DownStep \/ ProgramAccepts
  BY <1>4 DEF DownStep, ProgramAccepts, CheckStop, DownSucceeds, CommandRaises, DownTimesOut,
     KillSucceeds, ClearRunning
<1>5. CASE StarterStep
  BY <1>5 DEF StarterStep, ControllerGoesOn, Next, StartStep, StopStep, ServerStep, ProbeStep
<1>6. ASSUME NEW r \in Runs, StartCalled(r) PROVE [Next]_vars
  BY <1>6 DEF StartCalled, Next, ServerStep
<1>7. ASSUME NEW r \in Runs, UpStep(r) PROVE [Next]_vars
  BY <1>7 DEF UpStep, CheckRunning, UpCreates, UpSucceeds, UpFails, MarkRunning
<1>8. ASSUME NEW r \in Runs, StartEnds(r) PROVE [Next]_vars
  BY <1>8 DEF StartEnds, Next, BackendStep
<1>9. ASSUME NEW effect \in Effects, DaemonFinishes(effect) PROVE [Next]_vars
  BY <1>9 DEF DaemonFinishes
<1>10. CASE UNCHANGED allVars
  BY <1>10 DEF allVars
<1> QED
  BY <1>1, <1>2, <1>3, <1>4, <1>5, <1>6, <1>7, <1>8, <1>9, <1>10 DEF DockerNext

\* The Starter with containers takes no step that the Starter over an arbitrary backend
\* may not take.
THEOREM DockerStarterIsStarter == DockerSpec => Spec
<1>1. DockerInit => Init
  BY DEF DockerInit
<1> QED
  BY <1>1, StepIsStarterStep, PTL DEF DockerSpec, Spec

\* Types.
LEMMA DockerTypesStep ==
  TypeOK /\ DockerTypeOK /\ Places /\ [DockerNext]_allVars => DockerTypeOK'
<1> SUFFICES ASSUME TypeOK, DockerTypeOK, Places, [DockerNext]_allVars PROVE DockerTypeOK'
  OBVIOUS
<1> USE DEF DockerTypeOK, UpStates, DownStates, Effects, After, dockerVars, dockerHistory
<1>1. CASE StartReplaces
  BY <1>1 DEF StartReplaces, ThreadAlive, TypeOK
<1>2. CASE StopCalled \/ StopEnds
  BY <1>2 DEF StopCalled, StopEnds
<1>3. CASE DownStep
  <2>1. CASE CheckStop
    <3>1. CASE lost' = lost
      BY <2>1, <3>1 DEF CheckStop
    <3>2. CASE lost' = lost \cup {server} /\ ThreadAlive
      BY <2>1, <3>2 DEF CheckStop, Places, TypeOK
    <3> QED
      BY <2>1, <3>1, <3>2 DEF CheckStop
  <2>2. CASE ~CheckStop
    BY <1>3, <2>2 DEF DownStep, DownSucceeds, CommandRaises, DownTimesOut, FailsTo, KillSucceeds,
       ClearRunning
  <2> QED
    BY <2>1, <2>2
<1>4. CASE StarterStep
  BY <1>4 DEF StarterStep
<1>5. CASE ProgramAccepts
  BY <1>5 DEF ProgramAccepts
<1>6. ASSUME NEW r \in Runs, StartCalled(r) \/ UpStep(r) \/ StartEnds(r) PROVE DockerTypeOK'
  BY <1>6 DEF StartCalled, UpStep, CheckRunning, UpCreates, UpSucceeds, UpFails, MarkRunning, StartEnds
<1>7. ASSUME NEW effect \in Effects, DaemonFinishes(effect) PROVE DockerTypeOK'
  BY <1>7 DEF DaemonFinishes
<1>8. CASE UNCHANGED allVars
  BY <1>8 DEF allVars
<1> QED
  BY <1>1, <1>2, <1>3, <1>4, <1>5, <1>6, <1>7, <1>8 DEF DockerNext

-----------------------------------------------------------------------------
\* Where the Starter's threads are in the methods of Dnp3DockerServer.
LEMMA PlacesCorrect == DockerSpec => [](DockerTypeOK /\ Places)
<1>1. DockerInit => DockerTypeOK /\ Places
  <2>1. DockerInit => DockerTypeOK
    BY DEF DockerInit, DockerTypeOK, UpStates, DownStates
  <2>2. DockerInit => Places
    BY DEF DockerInit, Init, Places, Ended
  <2> QED
    BY <2>1, <2>2
<1>2. TypeOK /\ Control /\ DockerTypeOK /\ Places /\ [DockerNext]_allVars => Places'
  <2> SUFFICES ASSUME TypeOK, Control, DockerTypeOK, Places, [DockerNext]_allVars PROVE Places'
    OBVIOUS
  <2> USE DEF Places, Ended, TypeOK, DockerTypeOK, dockerVars, attributes, control, history
  <2>1. CASE StartReplaces
    BY <2>1 DEF StartReplaces, StartServer
  <2>2. CASE StopCalled
    BY <2>2 DEF StopCalled, StopServer
  <2>3. CASE StopEnds
    BY <2>3 DEF StopEnds, StopReturns, StopRaises
  <2>4. CASE DownStep
    BY <2>4 DEF DownStep, CheckStop, DownSucceeds, CommandRaises, DownTimesOut, FailsTo, KillSucceeds,
       ClearRunning, vars
  <2>5. CASE ProgramAccepts
    BY <2>5 DEF ProgramAccepts, vars
  <2>6. CASE StarterStep
    <3>1. CASE AssignThread
      BY <2>6, <3>1 DEF StarterStep, AssignThread
    <3>2. CASE SpawnServer
      BY <2>6, <3>2 DEF StarterStep, SpawnServer, Control, NotSpawned, Starting, LettingGo
    <3>3. CASE FinServer \/ FinThread \/ ClearReady \/ ClearError \/ SpawnMonitor \/ EndDelay
      BY <2>6, <3>3 DEF StarterStep, FinServer, FinThread, ClearReady, ClearError, SpawnMonitor, EndDelay
    <3>4. CASE CheckThread \/ Join \/ FinReady \/ FinError
      BY <2>6, <3>4 DEF StarterStep, CheckThread, Join, FinReady, FinError
    <3>5. ASSUME NEW r \in Runs, ReadServer(r) \/ FailStep(r) PROVE Places'
      BY <2>6, <3>5 DEF StarterStep, ReadServer, FailStep, StoreError, EndFailed
    <3>6. ASSUME NEW m \in Runs, MonitorStep(m) \/ ProbeSucceeds(m) \/ ProbeFails(m) PROVE Places'
      BY <2>6, <3>6 DEF StarterStep, MonitorStep, FirstRead, SecondRead, ReadError, SetReady,
         ProbeSucceeds, ProbeFails
    <3>7. ASSUME NEW w \in Waiters, WaitStep(w) PROVE Places'
      BY <2>6, <3>7 DEF StarterStep, WaitStep, WaitCall, WaitTimesOut
    <3> QED
      BY <2>6, <3>1, <3>2, <3>3, <3>4, <3>5, <3>6, <3>7 DEF StarterStep, ControllerGoesOn
  <2>7. ASSUME NEW r \in Runs, StartCalled(r) PROVE Places'
    BY <2>7 DEF StartCalled, CallStart
  <2>8. ASSUME NEW r \in Runs, UpStep(r) PROVE Places'
    BY <2>8 DEF UpStep, CheckRunning, UpCreates, UpSucceeds, UpFails, MarkRunning, vars
  <2>9. ASSUME NEW r \in Runs, StartEnds(r) PROVE Places'
    BY <2>9 DEF StartEnds, StartReturns, StartRaises
  <2>10. ASSUME NEW effect \in Effects, DaemonFinishes(effect) PROVE Places'
    BY <2>10 DEF DaemonFinishes, vars
  <2>11. CASE UNCHANGED allVars
    BY <2>11 DEF allVars, vars
  <2> QED
    BY <2>1, <2>2, <2>3, <2>4, <2>5, <2>6, <2>7, <2>8, <2>9, <2>10, <2>11 DEF DockerNext
<1> QED
  BY <1>1, <1>2, DockerTypesStep, DockerStarterIsStarter, TypeCorrect, ControlCorrect, PTL DEF DockerSpec

-----------------------------------------------------------------------------
\* Only what failed is finished later.
LEMMA FailuresCorrect == DockerSpec => []OnlyFailures
<1>1. DockerInit => OnlyFailures
  BY DEF DockerInit, OnlyFailures
<1>2. DockerTypeOK /\ OnlyFailures /\ [DockerNext]_allVars => OnlyFailures'
  <2> SUFFICES ASSUME DockerTypeOK, OnlyFailures, [DockerNext]_allVars PROVE OnlyFailures'
    OBVIOUS
  <2> USE DEF OnlyFailures, DockerTypeOK, dockerVars, dockerHistory
  <2>1. CASE StartReplaces \/ StopCalled \/ StopEnds \/ ProgramAccepts \/ StarterStep
    BY <2>1 DEF StartReplaces, StopCalled, StopEnds, ProgramAccepts, StarterStep
  <2>2. CASE DownStep
    BY <2>2 DEF DownStep, CheckStop, DownSucceeds, CommandRaises, DownTimesOut, FailsTo, KillSucceeds,
       ClearRunning
  <2>3. ASSUME NEW effect \in Effects, DaemonFinishes(effect) PROVE OnlyFailures'
    BY <2>3 DEF DaemonFinishes
  <2>4. ASSUME NEW r \in Runs, StartCalled(r) \/ UpStep(r) \/ StartEnds(r) PROVE OnlyFailures'
    BY <2>4 DEF StartCalled, UpStep, CheckRunning, UpCreates, UpSucceeds, UpFails, MarkRunning, StartEnds
  <2>5. CASE UNCHANGED allVars
    BY <2>5 DEF allVars
  <2> QED
    BY <2>1, <2>2, <2>3, <2>4, <2>5 DEF DockerNext
<1> QED
  BY <1>1, <1>2, PlacesCorrect, PTL DEF DockerSpec

-----------------------------------------------------------------------------
\* While no run is lost, a thread that still has commands to run is the current
\* one, and the Starter has neither let go of it nor begun to stop its container.
LEMMA Unsettled ==
  TypeOK /\ Control /\ Threads /\ Orderly /\ lost = {} /\ ~belated =>
    \A r \in Runs : ~Settled(r) =>
        /\ r = serverThread /\ server = r /\ r \notin abandoned
        /\ ~Checked /\ ctl \notin LettingGo
<1> SUFFICES ASSUME TypeOK, Control, Threads, Orderly, lost = {}, ~belated, NEW r \in Runs,
                    ~Settled(r)
             PROVE  /\ r = serverThread /\ server = r /\ r \notin abandoned
                    /\ ~Checked /\ ctl \notin LettingGo
  OBVIOUS
<1>1. Alive(r) /\ r \notin abandoned
  BY DEF Settled, Orderly
<1>2. r = serverThread /\ serverThread # None /\ ctl \notin LettingGo
  BY <1>1 DEF Threads, ThreadAlive, Runs, None
<1>3. ~Checked
  BY <1>2 DEF Orderly
<1>4. server = r
  BY <1>2 DEF Control
<1> QED
  BY <1>1, <1>2, <1>3, <1>4

\* The threads, the container and _running stay in order.
LEMMA OrderlyStep ==
  TypeOK /\ Control /\ Threads /\ DockerTypeOK /\ Places /\ Orderly /\ RunningHasContainer
    /\ [DockerNext]_allVars => Orderly' /\ RunningHasContainer'
<1> SUFFICES ASSUME TypeOK, Control, Threads, DockerTypeOK, Places, Orderly, RunningHasContainer,
                    [DockerNext]_allVars, lost' = {}, ~belated'
             PROVE  Orderly' /\ RunningHasContainer'
  BY DEF Orderly, RunningHasContainer
<1>1. lost = {} /\ ~belated
  BY DEF DockerNext, DaemonFinishes, StartReplaces, StopCalled, StopEnds, DownStep, CheckStop, DownSucceeds, CommandRaises,
     DownTimesOut, FailsTo, KillSucceeds, ClearRunning, ProgramAccepts, StarterStep, StartCalled, UpStep,
     CheckRunning, UpCreates, UpSucceeds, UpFails, MarkRunning, StartEnds, dockerHistory, allVars
<1>2. \A r \in Runs : ~Settled(r) =>
        /\ r = serverThread /\ server = r /\ r \notin abandoned
        /\ ~Checked /\ ctl \notin LettingGo
  BY <1>1, Unsettled
<1>3. \A r \in Runs : up[r] \notin {"idle"} \cup Ended => ~Settled(r)
  BY DEF Places, Settled, Alive, AliveStates
<1> DEFINE Good == /\ \A r \in Runs : target[r] \in {None, r}
                   /\ \A r \in abandoned : srv[r] # "unborn" /\ Settled(r)
                   /\ Checked /\ serverThread # None => Settled(serverThread)
                   /\ \A r \in Runs : running[r] => up[r] = "returned"
                   /\ \A r \in Runs : up[r] \in {"created", "mark"} => container # "absent"
                   /\ down \in {"returned", "raised"} => ~running[server]
                   /\ server # None /\ running[server] /\ down = "idle" => container # "absent"
<1>4. Good
  BY <1>1 DEF Orderly, RunningHasContainer
<1> SUFFICES Good'
  BY DEF Orderly, RunningHasContainer
<1> USE DEF TypeOK, DockerTypeOK, Settled, Alive, AliveStates, Checked, AfterStop, Ended,
        dockerVars, dockerHistory, attributes, control, history
<1>5. CASE StartReplaces
  <2>1. runs' \in Runs /\ ~running[runs']
    BY <1>4, <1>5, StarterAssumption DEF StarterAssumption, StartReplaces, StartServer, Control, Places, Runs
  <2> QED
    BY <1>4, <1>5, <2>1 DEF StartReplaces, StartServer, Places
<1>6. CASE StopCalled
  BY <1>4, <1>6 DEF StopCalled, StopServer
<1>7. CASE StopEnds
  BY <1>4, <1>7 DEF StopEnds, StopReturns, StopRaises, Places
<1>8. CASE DownStep
  <2>1. ctl = "stopping" /\ server = serverThread /\ server \in Runs /\ UNCHANGED vars
    BY <1>8 DEF DownStep, CheckStop, DownSucceeds, CommandRaises, DownTimesOut, KillSucceeds, ClearRunning,
       Places, Control, LettingGo
  <2>2. CASE CheckStop
    BY <1>4, <2>1, <2>2 DEF CheckStop, ThreadAlive, vars
  <2>3. CASE ~CheckStop
    <3>1. Checked /\ down' \notin {"idle", "check"}
      BY <1>8, <2>3 DEF DownStep, DownSucceeds, CommandRaises, DownTimesOut, KillSucceeds, ClearRunning
    <3>2. \A r \in Runs : up[r] \notin {"created", "mark"}
      BY <1>2, <1>3, <3>1
    <3> QED
      BY <1>4, <1>8, <2>1, <2>3, <3>1, <3>2 DEF DownStep, DownSucceeds, CommandRaises, DownTimesOut,
         FailsTo, KillSucceeds, ClearRunning, vars
  <2> QED
    BY <2>2, <2>3
<1>9. CASE ProgramAccepts
  BY <1>4, <1>9 DEF ProgramAccepts, vars
<1>10. CASE StarterStep
  <2> USE <1>4, <1>10 DEF StarterStep
  <2>1. CASE ClearReady \/ ClearError \/ SpawnMonitor \/ EndDelay
    BY <2>1 DEF ClearReady, ClearError, SpawnMonitor, EndDelay
  <2>2. CASE AssignThread
    BY <2>2 DEF AssignThread, Places
  <2>3. CASE SpawnServer
    BY <2>3 DEF SpawnServer, Places, Control, NotSpawned, Starting
  <2>4. CASE CheckThread \/ Join \/ FinReady
    BY <2>4 DEF CheckThread, Join, FinReady, Places
  <2>5. CASE FinServer
    BY <2>5 DEF FinServer, Places, ThreadAlive
  <2>6. CASE FinThread \/ FinError
    BY <2>6 DEF FinThread, FinError, Control
  <2>7. ASSUME NEW r \in Runs, ReadServer(r) PROVE Good'
    BY <1>2, <2>7 DEF ReadServer, Places
  <2>8. ASSUME NEW r \in Runs, FailStep(r) PROVE Good'
    BY <2>8 DEF FailStep, StoreError, EndFailed
  <2>9. ASSUME NEW m \in Runs, MonitorStep(m) \/ ProbeSucceeds(m) \/ ProbeFails(m) PROVE Good'
    BY <2>9 DEF MonitorStep, FirstRead, SecondRead, ReadError, SetReady, ProbeSucceeds, ProbeFails
  <2>10. ASSUME NEW w \in Waiters, WaitStep(w) PROVE Good'
    BY <2>10 DEF WaitStep, WaitCall, WaitTimesOut
  <2> QED
    BY <2>1, <2>2, <2>3, <2>4, <2>5, <2>6, <2>7, <2>8, <2>9, <2>10 DEF ControllerGoesOn
<1>11. ASSUME NEW r \in Runs, StartCalled(r) PROVE Good'
  <2>1. ~Settled(r)
    BY <1>11 DEF StartCalled, CallStart, Places
  <2> QED
    BY <1>2, <1>4, <1>11, <2>1 DEF StartCalled, CallStart, Places
<1>12. ASSUME NEW r \in Runs, UpStep(r) PROVE Good'
  <2> USE <1>4, <1>12
  <2>1. CASE CheckRunning(r) \/ UpSucceeds(r) \/ UpFails(r)
    BY <2>1 DEF CheckRunning, UpSucceeds, UpFails, vars
  <2>2. CASE UpCreates(r)
    BY <2>2 DEF UpCreates, After, vars
  <2>3. CASE MarkRunning(r)
    <3>1. ~Settled(r) /\ target[r] = r
      BY <1>3, <2>3 DEF MarkRunning, Places
    <3> QED
      BY <1>2, <2>3, <3>1 DEF MarkRunning, vars
  <2> QED
    BY <2>1, <2>2, <2>3 DEF UpStep
<1>13. ASSUME NEW r \in Runs, StartEnds(r) PROVE Good'
  BY <1>4, <1>13 DEF StartEnds, StartReturns, StartRaises
<1>14. ASSUME NEW effect \in Effects PROVE ~DaemonFinishes(effect)
  BY DEF DaemonFinishes
<1>15. CASE UNCHANGED allVars
  BY <1>4, <1>15 DEF allVars, vars
<1> QED
  BY <1>5, <1>6, <1>7, <1>8, <1>9, <1>10, <1>11, <1>12, <1>13, <1>14, <1>15 DEF DockerNext

\* The runs come one after the other, and a run that serves has a container.
LEMMA OrderlyCorrect == DockerSpec => [](Orderly /\ RunningHasContainer)
<1>1. DockerInit => Orderly /\ RunningHasContainer
  BY DEF DockerInit, Init, Orderly, RunningHasContainer, Checked, AfterStop
<1> QED
  BY <1>1, OrderlyStep, DockerStarterIsStarter, TypeCorrect, ControlCorrect, ThreadsCorrect,
     PlacesCorrect, PTL DEF DockerSpec

\* While the _running flag of the current backend is set and it is not being
\* stopped, the container is there, unless a run was lost.
THEOREM RunningContainer == DockerSpec => []RunningHasContainer
  BY OrderlyCorrect, PTL

-----------------------------------------------------------------------------
\* While besides every command succeeds, a stop finds _running set and leaves no
\* container.
LEMMA FaultlessStep ==
  TypeOK /\ Control /\ Threads /\ DockerTypeOK /\ Places /\ OnlyFailures /\ Orderly /\ Faultless
    /\ [DockerNext]_allVars => Faultless'
<1> SUFFICES ASSUME TypeOK, Control, Threads, DockerTypeOK, Places, OnlyFailures, Orderly,
                    Faultless, [DockerNext]_allVars, lost' = {}, ~failed'
             PROVE  Faultless'
  BY DEF Faultless
<1>1. lost = {} /\ ~failed
  BY DEF DockerNext, DaemonFinishes, StartReplaces, StopCalled, StopEnds, DownStep, CheckStop, DownSucceeds, CommandRaises,
     DownTimesOut, FailsTo, KillSucceeds, ClearRunning, ProgramAccepts, StarterStep, StartCalled, UpStep,
     CheckRunning, UpCreates, UpSucceeds, UpFails, MarkRunning, StartEnds, dockerHistory, allVars
<1>0. ~belated /\ pending = {}
  BY <1>1 DEF OnlyFailures
<1>2. \A r \in Runs : ~Settled(r) =>
        /\ r = serverThread /\ server = r /\ r \notin abandoned
        /\ ~Checked /\ ctl \notin LettingGo
  BY <1>0, <1>1, Unsettled
<1>3. \A r \in Runs : up[r] \notin {"idle"} \cup Ended => ~Settled(r)
  BY DEF Places, Settled, Alive, AliveStates
<1>4. /\ \A r \in Runs : target[r] \in {None, r}
      /\ \A r \in Runs : running[r] => up[r] = "returned"
  BY <1>0, <1>1 DEF Orderly
<1> DEFINE Good == /\ \A r \in Runs : srv[r] \notin {"raising", "stored", "failed"} /\ up[r] # "raised"
                   /\ down \notin {"kill", "down_again", "clear_raising", "raised"}
                   /\ serverThread # None /\ up[serverThread] = "returned" /\ ~Stopped
                        => running[serverThread]
                   /\ container # "absent" => serverThread # None /\ ~Stopped
<1>5. Good
  BY <1>1 DEF Faultless
<1> SUFFICES Good'
  BY DEF Faultless
<1> USE <1>5
    DEF TypeOK, DockerTypeOK, Stopped, AfterStop, dockerVars, dockerHistory, attributes, control, history
<1>6. CASE StartReplaces \/ StopCalled
  BY <1>6 DEF StartReplaces, StartServer, StopCalled, StopServer, Places
<1>7. CASE StopEnds
  BY <1>7 DEF StopEnds, StopReturns, StopRaises, Places
<1>8. CASE DownStep
  <2>1. ctl = "stopping" /\ server = serverThread /\ server \in Runs /\ UNCHANGED vars
    BY <1>8 DEF DownStep, CheckStop, DownSucceeds, CommandRaises, DownTimesOut, KillSucceeds, ClearRunning,
       Places, Control, LettingGo
  <2>2. CASE CheckStop
    <3>1. running[server]
      <4> SUFFICES ASSUME ~running[server] PROVE FALSE
        OBVIOUS
      <4>1. srv[server] = "exited"
        BY <2>1, <2>2 DEF CheckStop, ThreadAlive, Alive, AliveStates, Places, SrvStates
      <4> QED
        BY <2>1, <2>2, <4>1 DEF CheckStop, Places, Runs, None
    <3> QED
      BY <2>1, <2>2, <3>1 DEF CheckStop, vars
  <2>3. CASE DownSucceeds \/ ClearRunning
    BY <2>1, <2>3 DEF DownSucceeds, After, ClearRunning, vars
  <2>4. ~KillSucceeds /\ ~CommandRaises /\ ~DownTimesOut
    BY DEF KillSucceeds, CommandRaises, DownTimesOut, FailsTo
  <2> QED
    BY <1>8, <2>2, <2>3, <2>4 DEF DownStep
<1>9. CASE ProgramAccepts
  BY <1>9 DEF ProgramAccepts, vars
<1>10. CASE StarterStep
  <2> USE <1>10 DEF StarterStep
  <2>1. CASE ClearReady \/ ClearError \/ SpawnMonitor \/ EndDelay
    BY <2>1 DEF ClearReady, ClearError, SpawnMonitor, EndDelay
  <2>2. CASE AssignThread
    BY <2>2 DEF AssignThread, Places, Control, Starting, NotSpawned, Runs, None
  <2>3. CASE SpawnServer
    BY <2>3 DEF SpawnServer
  <2>4. CASE CheckThread \/ Join \/ FinReady \/ FinServer
    BY <2>4 DEF CheckThread, Join, FinReady, FinServer
  <2>5. CASE FinThread \/ FinError
    BY <2>5 DEF FinThread, FinError, Control
  <2>6. ASSUME NEW r \in Runs, ReadServer(r) PROVE Good'
    <3>1. server # None
      BY <1>2, <2>6 DEF ReadServer, Places, Settled, Alive, AliveStates, Ended, Runs, None
    <3> QED
      BY <2>6, <3>1 DEF ReadServer
  <2>7. ASSUME NEW r \in Runs, FailStep(r) PROVE Good'
    BY <2>7 DEF FailStep, StoreError, EndFailed
  <2>8. ASSUME NEW m \in Runs, MonitorStep(m) \/ ProbeSucceeds(m) \/ ProbeFails(m) PROVE Good'
    BY <2>8 DEF MonitorStep, FirstRead, SecondRead, ReadError, SetReady, ProbeSucceeds, ProbeFails
  <2>9. ASSUME NEW w \in Waiters, WaitStep(w) PROVE Good'
    BY <2>9 DEF WaitStep, WaitCall, WaitTimesOut
  <2> QED
    BY <2>1, <2>2, <2>3, <2>4, <2>5, <2>6, <2>7, <2>8, <2>9 DEF ControllerGoesOn
<1>11. ASSUME NEW r \in Runs, StartCalled(r) PROVE Good'
  <2>1. server # None
    BY <1>2, <1>11 DEF StartCalled, CallStart, Places, Settled, Alive, AliveStates, Ended, Runs, None
  <2> QED
    BY <1>11, <2>1 DEF StartCalled, CallStart
<1>12. ASSUME NEW r \in Runs, UpStep(r) PROVE Good'
  <2> USE <1>12
  <2>1. ~UpFails(r)
    BY DEF UpFails
  <2>2. ~Settled(r) /\ target[r] = r
    BY <1>3, <1>4 DEF UpStep, CheckRunning, UpCreates, UpSucceeds, UpFails, MarkRunning, Places, Ended
  <2>3. r = serverThread /\ r # None /\ ~Stopped
    BY <1>2, <2>2 DEF Checked, Runs, None
  <2>4. CASE CheckRunning(r)
    BY <1>4, <2>2, <2>4 DEF CheckRunning, vars
  <2>5. CASE UpCreates(r)
    BY <2>3, <2>5 DEF UpCreates, After, vars
  <2>7. CASE UpSucceeds(r)
    BY <2>3, <2>7 DEF UpSucceeds, vars
  <2>6. CASE MarkRunning(r)
    BY <2>2, <2>3, <2>6 DEF MarkRunning, vars
  <2> QED
    BY <2>1, <2>4, <2>5, <2>6, <2>7 DEF UpStep
<1>13. ASSUME NEW r \in Runs, StartEnds(r) PROVE Good'
  BY <1>13 DEF StartEnds, StartReturns, StartRaises
<1>14. ASSUME NEW effect \in Effects PROVE ~DaemonFinishes(effect)
  BY <1>0 DEF DaemonFinishes
<1>15. CASE UNCHANGED allVars
  BY <1>15 DEF allVars, vars
<1> QED
  BY <1>6, <1>7, <1>8, <1>9, <1>10, <1>11, <1>12, <1>13, <1>14, <1>15 DEF DockerNext

\* A container that stop_server leaves behind has a cause: a docker command that
\* failed, or a run stopped before its up had returned or replaced without a stop.
THEOREM LeftContainer == DockerSpec => []LeftContainerHasCause
<1>1. DockerInit => Faultless
  BY DEF DockerInit, Init, Faultless, Stopped, AfterStop
<1>2. Control /\ Faultless => LeftContainerHasCause
  BY DEF Control, LettingGo, Faultless, LeftContainerHasCause
<1> QED
  BY <1>1, <1>2, FaultlessStep, OrderlyCorrect, DockerStarterIsStarter, TypeCorrect, ControlCorrect,
     ThreadsCorrect, PlacesCorrect, FailuresCorrect, PTL DEF DockerSpec

-----------------------------------------------------------------------------
\* The text of something, or of nothing.
IsText(t) == t = <<>> \/ \E x : t = <<x>>

\* Whatever variables the application has, each set to something or to nothing,
\* every configuration and every port reach the outstation in the container.
THEOREM EveryConfigArrives ==
  \A environ, port, Numbers : \A config \in [Parameters -> Numbers] :
      (\A n \in DOMAIN environ : IsText(environ[n])) => Arrives(environ, port, config)
<1> SUFFICES ASSUME NEW environ, \A n \in DOMAIN environ : IsText(environ[n]),
                    NEW port, NEW Numbers, NEW config \in [Parameters -> Numbers]
             PROVE  Arrives(environ, port, config)
  OBVIOUS
<1> DEFINE settings == Settings(port, config)
           env == ComposeEnvironment(environ, port, config)
           inside == ContainerEnvironment(env)
           made == Outstation(inside)
<1>1. /\ DOMAIN settings = {"DNP3_HOST", "DNP3_PORT", "DNP3_DATABASE_SIZE", "DNP3_EVENT_BUFFER_SIZE",
                            "DNP3_LOCAL_ADDR", "DNP3_REMOTE_ADDR"}
      /\ settings["DNP3_HOST"] = <<"0.0.0.0">> /\ settings["DNP3_PORT"] = <<port>>
      /\ settings["DNP3_DATABASE_SIZE"] = <<config["database_size"]>>
      /\ settings["DNP3_EVENT_BUFFER_SIZE"] = <<config["event_buffer_size"]>>
      /\ settings["DNP3_LOCAL_ADDR"] = <<config["local_addr"]>>
      /\ settings["DNP3_REMOTE_ADDR"] = <<config["remote_addr"]>>
  BY DEF Settings, Field
<1>2. /\ DOMAIN env = DOMAIN environ \cup DOMAIN settings
      /\ \A n \in DOMAIN settings : env[n] = settings[n]
      /\ \A n \in DOMAIN environ \ DOMAIN settings : env[n] = environ[n]
  BY DEF ComposeEnvironment
<1> HIDE DEF settings, env
<1>3. /\ DOMAIN inside = {"DNP3_HOST", "DNP3_PORT", "DNP3_LOCAL_ADDR", "DNP3_REMOTE_ADDR",
                          "DNP3_DATABASE_SIZE", "DNP3_EVENT_BUFFER_SIZE", "LOG_LEVEL"}
      /\ \A n \in DOMAIN inside : inside[n] = Substituted(env, n, Defaults[n])
  BY DEF ContainerEnvironment, Defaults
<1>4. \A n \in DOMAIN settings : inside[n] = settings[n]
  <2>1. \A x : <<x>> # <<>>
    OBVIOUS
  <2>2. \A n \in DOMAIN settings : settings[n] # <<>>
    BY <1>1, <2>1
  <2> QED
    BY <1>1, <1>2, <1>3, <2>2 DEF Substituted
<1>5. inside["LOG_LEVEL"] = Substituted(environ, "LOG_LEVEL", "INFO")
  BY <1>1, <1>2, <1>3 DEF Substituted, Defaults
<1>6. Published(env) = <<port>>
  BY <1>1, <1>2 DEF Published, Substituted
<1> HIDE DEF inside
<1>7. \A x : Head(<<x>>) = x
  OBVIOUS
<1>8. /\ made.ip = "0.0.0.0" /\ made.port = port
      /\ made.config = [database_size |-> config["database_size"],
                        event_buffer_size |-> config["event_buffer_size"],
                        local_addr |-> config["local_addr"], remote_addr |-> config["remote_addr"]]
  BY <1>1, <1>3, <1>4, <1>7 DEF Outstation, Read
<1>9. made.config = config
  BY <1>8 DEF Parameters
<1>10. \E x : Substituted(environ, "LOG_LEVEL", "INFO") = <<x>>
  BY DEF Substituted, IsText
<1>11. <<made.level>> = Substituted(environ, "LOG_LEVEL", "INFO")
  BY <1>3, <1>5, <1>7, <1>10 DEF Outstation, Read
<1> QED
  BY <1>6, <1>8, <1>9, <1>11 DEF Arrives, settings, env, inside

\* The outstation in any container has the configuration of its server.
THEOREM ConfiguredContainer == DockerSpec => []ContainerGetsConfig
<1>1. ConfigArrives
  <2> SUFFICES ASSUME NEW environ \in Environs, NEW port \in {502, 20000},
                      NEW config \in [Parameters -> {0, 1, 10}]
               PROVE  Arrives(environ, port, config)
    BY DEF ConfigArrives
  <2>1. PICK names \in SUBSET DOMAIN Foreign :
           environ \in {[n \in names |-> <<>>], [n \in names |-> <<Foreign[n]>>]}
    BY DEF Environs
  <2>2. \A n \in DOMAIN environ : IsText(environ[n])
    BY <2>1 DEF IsText
  <2> DEFINE Numbers == {0, 1, 10}
  <2>3. config \in [Parameters -> Numbers]
    OBVIOUS
  <2> HIDE DEF Numbers
  <2> QED
    BY <2>2, <2>3, EveryConfigArrives
<1>2. ContainerGetsConfig
  BY <1>1 DEF ContainerGetsConfig
<1> QED
  BY <1>2, PTL
=============================================================================
