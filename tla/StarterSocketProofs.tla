------------------------ MODULE StarterSocketProofs ------------------------
(***************************************************************************)
(* Proofs about StarterSocket, for any number of starts and any set of     *)
(* waiters: the composition is a Starter, so all that StarterProofs shows  *)
(* holds of it, and it keeps four properties of its own.                   *)
(*                                                                         *)
(* Positions and Registrations tie where a thread is in the backend's      *)
(* start() to where the Starter's thread is, and self._server to a server  *)
(* that exists.  Stopping says what stop_server has achieved at each of    *)
(* its lines: when it lets go of a run, that run's thread has ended, or    *)
(* left its loop, or is lost.  A thread the Starter let go of while it was *)
(* alive may start a later run's backend, so OwnOrLost has to be shown     *)
(* together with it: the thread's run is lost by then.                     *)
(***************************************************************************)
EXTENDS StarterSocket, StarterProofs

\* Every variable of the socket servers stays in its range.
SocketTypeOK ==
    /\ transport \in {"tcp", "udp"}
    /\ phase \in [Runs -> SS!Phases]
    /\ registered \in [Runs -> Runs \cup {None}]
    /\ request \in [Runs -> BOOLEAN]
    /\ stopPc \in [{Controller} -> SS!StopPhases]
    /\ stopOf \in [{Controller} -> Runs \cup {None}]
    /\ stopping \in [{Controller} -> Runs \cup {None}]
    /\ stopPc[Controller] = "calling" => stopOf[Controller] # None
    /\ lost \in SUBSET Runs

\* A server thread is inside the backend's start() just while the Starter's
\* thread runs it, and only a published server can have been asked to stop.
InStart == {"binding", "bound", "registered", "serving", "closing", "closed"}
Published == {"registered", "serving", "closing", "closed"}
Past == {"closing", "closed", "returned", "raised"}
Positions ==
    \A r \in Runs :
        /\ srv[r] \in {"unborn", "spawned", "checked"} => phase[r] = "idle" /\ target[r] = None
        /\ phase[r] # "idle" => target[r] # None
        /\ phase[r] \in InStart => srv[r] = "running"
        /\ request[r] => phase[r] \in Published \cup {"returned"}

\* self._server of a backend is None or the server of a thread in its start().
Registrations ==
    \A b \in Runs : registered[b] # None =>
        target[registered[b]] = b /\ phase[registered[b]] \in Published

\* Only a lost thread runs a backend that was not made for it.
OwnOrLost == \A r \in Runs : target[r] \in {None, r} \/ r \in lost

\* A run is settled when its thread has ended or left its loop, or when it or
\* another that runs the same backend is lost.
Excused(r) == r \in lost \/ \E k \in lost : target[r] # None /\ target[k] = target[r]
Settled(r) == ~Alive(r) \/ phase[r] \in Past \/ Excused(r)

\* stop_server settles the current run before it lets go of it.
AfterStop == {"check_thread", "joining", "fin_ready", "fin_server"}
Stopping ==
    /\ ctl # "stopping" => stopPc[Controller] \notin {"calling", "waiting"}
    /\ ctl = "stopping" =>
          /\ stopOf[Controller] = server
          /\ stopPc[Controller] = "calling" =>
                registered[server] = serverThread \/ Settled(serverThread)
          /\ stopPc[Controller] = "waiting" =>
                stopping[Controller] = serverThread \/ Settled(serverThread)
          /\ stopPc[Controller] \in {"done", "raised"} => Settled(serverThread)
    /\ ctl \in AfterStop => Settled(serverThread)
    /\ ctl \in {"stopping"} \cup AfterStop => serverThread # None
    /\ \A r \in abandoned : srv[r] # "unborn" /\ Settled(r)

\* While no run is lost, the current server is asked to stop, and leaves its loop,
\* only by the stop_server under way.
Asked(r) == request[r] \/ phase[r] \in {"closing", "closed", "returned"}
NoOtherStop ==
    lost = {} =>
        /\ serverThread # None /\ Asked(serverThread) =>
              \/ ctl \in AfterStop \cup {"fin_thread"}
              \/ ctl = "stopping" /\ stopPc[Controller] \in {"waiting", "done"}
        /\ ctl = "stopping" /\ stopPc[Controller] = "calling" =>
              registered[server] = serverThread

\* _server and _server_thread refer to the last run or to none.
LastRun ==
    /\ server \in {None, runs}
    /\ serverThread \in {None, runs} \/ ctl \in {"clear_ready", "clear_error", "assign_thread"}

\* The probe of the last run's monitor was answered by that run's server.
Up(r) == IF transport = "tcp" THEN SS!Open(r) \/ SS!LoopOver(r)
         ELSE phase[r] = "serving" \/ SS!LoopOver(r)
ProbedOwn ==
    runs # None /\ mon[runs] \in {"set", "done"} /\ abandoned = {} => Up(runs)


-----------------------------------------------------------------------------
\* The composed system is a Starter: what starter.py guarantees with any backend
\* it guarantees with EnipServer and BacnetServer.
LEMMA StepIsStarterStep == [SocketNext]_allVars => [Next]_vars
<1> SUFFICES ASSUME [SocketNext]_allVars PROVE [Next]_vars
  OBVIOUS
<1>1. CASE StartReplaces
  BY <1>1 DEF StartReplaces, Next, StartStep
<1>2. CASE ControllerStep
  BY <1>2 DEF ControllerStep, ControllerGoesOn, Next, StartStep, StopStep
<1>3. CASE StopCalled
  BY <1>3 DEF StopCalled, Next, StopStep
<1>4. CASE StopEnds
  BY <1>4 DEF StopEnds, Next, StopStep
<1>5. CASE BackendStop
  BY <1>5 DEF BackendStop
<1>6. ASSUME NEW r \in Runs, ThreadStep(r) \/ StartCalled(r) PROVE [Next]_vars
  BY <1>6 DEF ThreadStep, StartCalled, Next, ServerStep
<1>7. ASSUME NEW r \in Runs, BackendStart(r) PROVE [Next]_vars
  BY <1>7 DEF BackendStart
<1>8. ASSUME NEW r \in Runs, StartEnds(r) PROVE [Next]_vars
  BY <1>8 DEF StartEnds, Next, BackendStep
<1>9. ASSUME NEW m \in Runs, WatchStep(m) \/ ProbeAnswered(m) \/ ProbeUnanswered(m)
      PROVE  [Next]_vars
  BY <1>9 DEF WatchStep, ProbeAnswered, ProbeUnanswered, Next, ProbeStep
<1>10. ASSUME NEW w \in Waiters, Wait(w) PROVE [Next]_vars
  BY <1>10 DEF Wait, Next
<1>11. CASE UNCHANGED allVars
  BY <1>11 DEF allVars
<1> QED
  BY <1>1, <1>2, <1>3, <1>4, <1>5, <1>6, <1>7, <1>8, <1>9, <1>10, <1>11 DEF SocketNext

\* The Starter with the socket servers takes no step that the Starter over an arbitrary
\* backend may not take.
THEOREM SocketStarterIsStarter == SocketSpec => Spec
<1>1. SocketInit => Init
  BY DEF SocketInit
<1> QED
  BY <1>1, StepIsStarterStep, PTL DEF SocketSpec, Spec

\* _server and _server_thread name the last run.
LEMMA LastRunCorrect == Spec => []LastRun
<1>1. Init => LastRun
  BY DEF Init, LastRun
<1>2. TypeOK /\ Control /\ LastRun /\ [Next]_vars => LastRun'
  <2> SUFFICES ASSUME TypeOK, Control, LastRun, [Next]_vars PROVE LastRun'
    OBVIOUS
  <2> USE DEF LastRun, attributes, control, history
  <2>1. CASE StartServer
    BY <2>1 DEF StartServer
  <2>2. CASE ClearReady \/ ClearError
    BY <2>2 DEF ClearReady, ClearError
  <2>3. CASE AssignThread \/ SpawnServer \/ SpawnMonitor \/ EndDelay
    BY <2>3 DEF AssignThread, SpawnServer, SpawnMonitor, EndDelay
  <2>4. CASE StopServer \/ StopReturns \/ StopRaises \/ CheckThread \/ Join
    BY <2>4 DEF StopServer, StopReturns, StopRaises, CheckThread, Join
  <2>5. CASE FinReady \/ FinServer \/ FinThread \/ FinError
    BY <2>5 DEF FinReady, FinServer, FinThread, FinError
  <2>6. ASSUME NEW r \in Runs, ServerStep(r) \/ BackendStep(r) PROVE LastRun'
    BY <2>6 DEF ServerStep, BackendStep, ReadServer, CallStart, FailStep, StoreError, EndFailed, StartReturns, StartRaises
  <2>7. ASSUME NEW m \in Runs, MonitorStep(m) \/ ProbeStep(m) PROVE LastRun'
    BY <2>7 DEF MonitorStep, ProbeStep, FirstRead, SecondRead, ReadError, SetReady,
       ProbeSucceeds, ProbeFails
  <2>8. ASSUME NEW w \in Waiters, WaitStep(w) PROVE LastRun'
    BY <2>8 DEF WaitStep, WaitCall, WaitTimesOut
  <2>9. CASE UNCHANGED vars
    BY <2>9 DEF vars
  <2> QED
    BY <2>1, <2>2, <2>3, <2>4, <2>5, <2>6, <2>7, <2>8, <2>9 DEF Next, StartStep, StopStep
<1> QED
  BY <1>1, <1>2, TypeCorrect, ControlCorrect, PTL DEF Spec

-----------------------------------------------------------------------------
\* Types.
LEMMA SocketTypes == SocketSpec => []SocketTypeOK
<1>1. SocketInit => SocketTypeOK
  BY DEF SocketInit, SocketTypeOK, SS!InitWith, SS!Phases, SS!StopPhases, None
<1>2. TypeOK /\ SocketTypeOK /\ [SocketNext]_allVars => SocketTypeOK'
  <2> SUFFICES ASSUME TypeOK, SocketTypeOK, [SocketNext]_allVars PROVE SocketTypeOK'
    OBVIOUS
  <2> USE DEF SocketTypeOK, SS!Phases, SS!StopPhases, SS!startVars, SS!stopVars
  <2>1. CASE StartReplaces
    <3>1. lost' \in SUBSET Runs
      BY <2>1 DEF StartReplaces, TypeOK, ThreadAlive
    <3> QED
      BY <2>1, <3>1 DEF StartReplaces, socketVars
  <2>2. CASE StopCalled
    <3>1. lost' \in SUBSET Runs
      BY <2>2 DEF StopCalled, StopServer, TypeOK
    <3>2. stopPc' \in [{Controller} -> SS!StopPhases] /\ stopOf' \in [{Controller} -> Runs \cup {None}]
      BY <2>2 DEF StopCalled, SS!CallStop, TypeOK
    <3>3. stopping' \in [{Controller} -> Runs \cup {None}]
      BY <2>2 DEF StopCalled, SS!CallStop
    <3>4. stopOf'[Controller] # None
      BY <2>2 DEF StopCalled, StopServer, SS!CallStop
    <3> QED
      BY <2>2, <3>1, <3>2, <3>3, <3>4 DEF StopCalled, SS!CallStop
  <2>3. CASE BackendStop
    <3>1. CASE SS!Shutdown(Controller)
      <4>1. CASE registered[stopOf[Controller]] = None
        BY <2>3, <3>1, <4>1 DEF BackendStop, SS!Shutdown
      <4>2. CASE registered[stopOf[Controller]] # None
        BY <2>3, <3>1, <4>2 DEF BackendStop, SS!Shutdown
      <4> QED
        BY <4>1, <4>2
    <3>2. CASE SS!AwaitLoop(Controller)
      BY <2>3, <3>2 DEF BackendStop, SS!AwaitLoop
    <3> QED
      BY <2>3, <3>1, <3>2 DEF BackendStop, SS!StopStep
  <2>4. ASSUME NEW r \in Runs, StartCalled(r) PROVE SocketTypeOK'
    BY <2>4 DEF StartCalled, SS!CallStart
  <2>5. ASSUME NEW r \in Runs, BackendStart(r) PROVE SocketTypeOK'
    <3>1. CASE SS!Bind(r) \/ SS!Serve(r) \/ SS!CloseSocket(r)
      BY <2>5, <3>1 DEF BackendStart, SS!Bind, SS!Serve, SS!CloseSocket
    <3>2. CASE SS!Register(r) \/ SS!Unregister(r)
      BY <2>5, <3>2 DEF BackendStart, SS!Register, SS!Unregister
    <3>3. CASE SS!LeaveLoop(r)
      BY <2>5, <3>3 DEF BackendStart, SS!LeaveLoop
    <3> QED
      BY <2>5, <3>1, <3>2, <3>3 DEF BackendStart, SS!StartStep
  <2>6. CASE UNCHANGED <<socketVars, lost>>
    BY <2>6 DEF socketVars
  <2> QED
    BY <2>1, <2>2, <2>3, <2>4, <2>5, <2>6 DEF SocketNext, ControllerStep, StopEnds, ThreadStep,
       StartEnds, WatchStep, ProbeAnswered, ProbeUnanswered, Wait, allVars
<1> QED
  BY <1>1, <1>2, SocketStarterIsStarter, TypeCorrect, PTL DEF SocketSpec

-----------------------------------------------------------------------------
\* What the socket servers' history rests on is not touched by the monitors,
\* the waiters and the steps of start_server and stop_server between the calls
\* of the backend.
Untouched == <<srv, target, socketVars, lost>>

\* Steps that leave the server threads and the socket servers alone.
LEMMA Bystanders ==
  /\ \A m \in Runs : WatchStep(m) \/ ProbeAnswered(m) \/ ProbeUnanswered(m)
        => UNCHANGED <<Untouched, server, serverThread, ctl, runs, abandoned>>
  /\ \A w \in Waiters : Wait(w)
        => UNCHANGED <<Untouched, server, serverThread, ctl, runs, abandoned>>
  /\ StopEnds => UNCHANGED <<Untouched, server, serverThread, runs, abandoned>>
  /\ ControllerStep => SpawnServer \/ UNCHANGED <<srv, target>>
  /\ ControllerStep => UNCHANGED <<target, socketVars, lost, runs>>
<1> USE DEF Untouched, attributes, control, history
<1>1. \A m \in Runs : WatchStep(m) \/ ProbeAnswered(m) \/ ProbeUnanswered(m)
        => UNCHANGED <<Untouched, server, serverThread, ctl, runs, abandoned>>
  BY DEF WatchStep, ProbeAnswered, ProbeUnanswered, MonitorStep, FirstRead, SecondRead,
     ReadError, SetReady, ProbeSucceeds, ProbeFails
<1>2. \A w \in Waiters : Wait(w)
        => UNCHANGED <<Untouched, server, serverThread, ctl, runs, abandoned>>
  BY DEF Wait, WaitStep, WaitCall, WaitTimesOut
<1>3. StopEnds => UNCHANGED <<Untouched, server, serverThread, runs, abandoned>>
  BY DEF StopEnds, StopReturns, StopRaises
<1>4. /\ ControllerStep => SpawnServer \/ UNCHANGED <<srv, target>>
      /\ ControllerStep => UNCHANGED <<target, socketVars, lost, runs>>
  BY DEF ControllerStep, ControllerGoesOn, ClearReady, ClearError, AssignThread, SpawnServer,
     SpawnMonitor, EndDelay, CheckThread, Join, FinReady, FinServer, FinThread, FinError
<1> QED
  BY <1>1, <1>2, <1>3, <1>4

\* A thread is inside start() of SocketServer exactly while the Starter's thread
\* runs it, and self._server is a server that is there.
LEMMA PositionsCorrect == SocketSpec => [](Positions /\ Registrations)
<1> DEFINE Inv == Positions /\ Registrations
<1>1. SocketInit => Inv
  BY DEF SocketInit, Init, Positions, Registrations, SS!InitWith, InStart
<1>2. TypeOK /\ Control /\ SocketTypeOK /\ Inv /\ [SocketNext]_allVars => Inv'
  <2> SUFFICES ASSUME TypeOK, Control, SocketTypeOK, Inv, [SocketNext]_allVars PROVE Inv'
    OBVIOUS
  <2> USE DEF Positions, Registrations, InStart, Published
  <2>1. CASE UNCHANGED Untouched
    BY <2>1 DEF Untouched, socketVars
  <2>2. CASE StartReplaces
    BY <2>2, <2>1 DEF StartReplaces, StartServer, Untouched, socketVars
  <2>3. CASE SpawnServer /\ UNCHANGED <<socketVars, lost>>
    BY <2>3 DEF SpawnServer, Control, NotSpawned, TypeOK, socketVars
  <2>4. CASE StopCalled
    BY <2>4 DEF StopCalled, StopServer, SS!CallStop, SS!startVars
  <2>5. CASE BackendStop
    <3>1. CASE SS!AwaitLoop(Controller) \/ registered[stopOf[Controller]] = None
      BY <2>5, <3>1 DEF BackendStop, SS!StopStep, SS!AwaitLoop, SS!Shutdown, SS!startVars, vars
    <3>2. CASE SS!Shutdown(Controller) /\ registered[stopOf[Controller]] # None
      <4>1. stopOf[Controller] \in Runs
        BY <3>2 DEF SS!Shutdown, SocketTypeOK
      <4>2. phase[registered[stopOf[Controller]]] \in Published
        BY <3>2, <4>1
      <4> QED
        BY <2>5, <3>2, <4>1, <4>2 DEF BackendStop, SS!Shutdown, SS!startVars, SocketTypeOK, vars
    <3> QED
      BY <2>5, <3>1, <3>2 DEF BackendStop, SS!StopStep
  <2>6. ASSUME NEW r \in Runs, ThreadStep(r) PROVE Inv'
    BY <2>6 DEF ThreadStep, ReadServer, CallStart, FailStep, StoreError, EndFailed, TypeOK, socketVars
  <2>7. ASSUME NEW r \in Runs, StartCalled(r) PROVE Inv'
    BY <2>7 DEF StartCalled, CallStart, SS!CallStart, SS!stopVars, TypeOK, SocketTypeOK
  <2>8. ASSUME NEW r \in Runs, BackendStart(r) PROVE Inv'
    <3> USE DEF BackendStart, SocketTypeOK, TypeOK, vars
    <3>1. CASE SS!Bind(r)
      BY <2>8, <3>1 DEF SS!Bind
    <3>2. CASE SS!Serve(r) \/ SS!CloseSocket(r)
      BY <2>8, <3>2 DEF SS!Serve, SS!CloseSocket
    <3>3. CASE SS!Register(r)
      BY <2>8, <3>3 DEF SS!Register
    <3>4. CASE SS!Unregister(r)
      BY <2>8, <3>4 DEF SS!Unregister
    <3>5. CASE SS!LeaveLoop(r)
      BY <2>8, <3>5 DEF SS!LeaveLoop
    <3> QED
      BY <2>8, <3>1, <3>2, <3>3, <3>4, <3>5 DEF SS!StartStep
  <2>9. ASSUME NEW r \in Runs, StartEnds(r) PROVE Inv'
    BY <2>9 DEF StartEnds, StartReturns, StartRaises, TypeOK, socketVars
  <2>10. UNCHANGED allVars => UNCHANGED Untouched
    BY DEF allVars, vars, Untouched
  <2>11. CASE ControllerStep
    BY <2>1, <2>3, <2>11, Bystanders DEF Untouched
  <2>12. CASE StopEnds \/ (\E m \in Runs : WatchStep(m) \/ ProbeAnswered(m) \/ ProbeUnanswered(m))
             \/ (\E w \in Waiters : Wait(w))
    BY <2>1, <2>12, Bystanders
  <2> QED
    BY <2>1, <2>2, <2>4, <2>5, <2>6, <2>7, <2>8, <2>9, <2>10, <2>11, <2>12 DEF SocketNext
<1> QED
  BY <1>1, <1>2, SocketStarterIsStarter, TypeCorrect, ControlCorrect, SocketTypes, PTL DEF SocketSpec

-----------------------------------------------------------------------------
\* What a step never takes back: a thread that has ended stays ended, a start()
\* past its loop stays past it, a target stays, and a lost run stays lost.
LEMMA Forward ==
  TypeOK /\ Control /\ SocketTypeOK /\ Positions /\ [SocketNext]_allVars =>
    /\ lost \subseteq lost'
    /\ abandoned \subseteq abandoned'
    /\ \A r \in Runs :
         /\ srv[r] # "unborn" => srv'[r] # "unborn"
         /\ srv[r] # "unborn" \/ ctl # "spawn_server" => (~Alive(r) => ~Alive(r)')
         /\ phase[r] \in Past => phase'[r] \in Past
         /\ target[r] # None => target'[r] = target[r]
<1> SUFFICES ASSUME TypeOK, Control, SocketTypeOK, Positions, [SocketNext]_allVars
             PROVE  /\ lost \subseteq lost'
                    /\ abandoned \subseteq abandoned'
                    /\ \A r \in Runs :
                         /\ srv[r] # "unborn" => srv'[r] # "unborn"
                         /\ srv[r] # "unborn" \/ ctl # "spawn_server" => (~Alive(r) => ~Alive(r)')
                         /\ phase[r] \in Past => phase'[r] \in Past
                         /\ target[r] # None => target'[r] = target[r]
  OBVIOUS
<1>1. /\ lost \subseteq lost'
      /\ \A r \in Runs : phase[r] \in Past => phase'[r] \in Past
  <2> USE DEF SocketTypeOK, Past
  <2>1. CASE StartReplaces
    BY <2>1 DEF StartReplaces, socketVars
  <2>2. CASE StopCalled
    BY <2>2 DEF StopCalled, SS!CallStop, SS!startVars
  <2>3. CASE BackendStop
    BY <2>3 DEF BackendStop, SS!StopStep, SS!Shutdown, SS!AwaitLoop, SS!startVars
  <2>4. ASSUME NEW r \in Runs, StartCalled(r) PROVE <1>1!1 /\ <1>1!2
    BY <2>4 DEF StartCalled, SS!CallStart
  <2>5. ASSUME NEW r \in Runs, BackendStart(r) PROVE <1>1!1 /\ <1>1!2
    BY <2>5 DEF BackendStart, SS!StartStep, SS!Bind, SS!Register, SS!Serve, SS!LeaveLoop,
       SS!CloseSocket, SS!Unregister
  <2>6. CASE UNCHANGED <<phase, lost>>
    BY <2>6
  <2> QED
    BY <2>1, <2>2, <2>3, <2>4, <2>5, <2>6 DEF SocketNext, ControllerStep, StopEnds, ThreadStep,
       StartEnds, WatchStep, ProbeAnswered, ProbeUnanswered, Wait, allVars, socketVars
<1>2. /\ abandoned \subseteq abandoned'
      /\ \A r \in Runs :
           /\ srv[r] # "unborn" => srv'[r] # "unborn"
           /\ srv[r] # "unborn" \/ ctl # "spawn_server" => (~Alive(r) => ~Alive(r)')
           /\ target[r] # None => target'[r] = target[r]
  <2> DEFINE Goal == <1>2!1 /\ <1>2!2
  <2> SUFFICES Goal
    OBVIOUS
  <2> USE DEF TypeOK, Alive, AliveStates, attributes, control, history
  <2>1. CASE StartStep
    <3>1. CASE SpawnServer
      BY <3>1 DEF SpawnServer, Control, NotSpawned, Starting
    <3>2. CASE ~SpawnServer
      BY <2>1, <3>2 DEF StartStep, StartServer, ClearReady, ClearError, AssignThread,
         SpawnMonitor, EndDelay
    <3> QED
      BY <3>1, <3>2
  <2>2. CASE StopStep
    BY <2>2 DEF StopStep, StopServer, StopReturns, StopRaises, CheckThread, Join,
       FinReady, FinServer, FinThread, FinError
  <2>3. ASSUME NEW r \in Runs, ServerStep(r) \/ BackendStep(r) PROVE Goal
    BY <2>3 DEF ServerStep, BackendStep, ReadServer, CallStart, FailStep, StoreError, EndFailed, StartReturns,
       StartRaises, Positions
  <2>4. ASSUME NEW m \in Runs, MonitorStep(m) \/ ProbeStep(m) PROVE Goal
    BY <2>4 DEF MonitorStep, ProbeStep, FirstRead, SecondRead, ReadError, SetReady,
       ProbeSucceeds, ProbeFails
  <2>5. ASSUME NEW w \in Waiters, WaitStep(w) PROVE Goal
    BY <2>5 DEF WaitStep, WaitCall, WaitTimesOut
  <2>6. CASE UNCHANGED vars
    BY <2>6 DEF vars
  <2> QED
    BY <2>1, <2>2, <2>3, <2>4, <2>5, <2>6, StepIsStarterStep DEF Next
<1> QED
  BY <1>1, <1>2

\* So a run that is settled stays settled.
LEMMA SettledStays ==
  TypeOK /\ Control /\ SocketTypeOK /\ Positions /\ [SocketNext]_allVars =>
    \A r \in Runs : Settled(r) /\ (srv[r] # "unborn" \/ ctl # "spawn_server") => Settled(r)'
<1> SUFFICES ASSUME TypeOK, Control, SocketTypeOK, Positions, [SocketNext]_allVars, NEW r \in Runs,
                    Settled(r), srv[r] # "unborn" \/ ctl # "spawn_server"
             PROVE  Settled(r)'
  OBVIOUS
<1>1. lost \subseteq Runs
  BY DEF SocketTypeOK
<1>2. CASE Excused(r)
  <2>1. Excused(r)'
    BY <1>1, <1>2, Forward DEF Excused
  <2> QED
    BY <2>1 DEF Settled
<1>3. CASE ~Excused(r)
  BY <1>3, Forward DEF Settled
<1> QED
  BY <1>2, <1>3

-----------------------------------------------------------------------------
\* A server thread that starts another run's backend is lost.
LEMMA OwnOrLostStep ==
  TypeOK /\ Control /\ Threads /\ SocketTypeOK /\ Positions /\ OwnOrLost /\ Stopping
    /\ [SocketNext]_allVars => OwnOrLost'
<1> SUFFICES ASSUME TypeOK, Control, Threads, SocketTypeOK, Positions, OwnOrLost, Stopping,
                    [SocketNext]_allVars, NEW r \in Runs
             PROVE  (target[r] \in {None, r} \/ r \in lost)'
  BY DEF OwnOrLost
<1>1. lost \subseteq lost'
  BY Forward
<1>2. CASE target[r] # None
  BY <1>1, <1>2, Forward DEF OwnOrLost
<1>3. CASE target[r] = None /\ StartCalled(r)
  <2>1. srv[r] = "checked" /\ target'[r] = server
    BY <1>3 DEF StartCalled, CallStart, TypeOK
  <2>2. CASE r \in abandoned
    <3>1. r \in lost
      BY <2>1, <2>2, <1>3 DEF Stopping, Settled, Excused, Alive, AliveStates, Positions, Past
    <3> QED
      BY <1>1, <3>1
  <2>3. CASE r \notin abandoned
    <3>1. r = serverThread
      BY <2>1, <2>3 DEF Threads, Alive, AliveStates
    <3>2. ctl \notin LettingGo \cup {"fin_error"}
      BY <2>1, <2>3, <3>1 DEF Threads, ThreadAlive, Alive, AliveStates, Control, Runs, None
    <3>3. server = r
      BY <3>1, <3>2 DEF Control
    <3> QED
      BY <2>1, <3>3
  <2> QED
    BY <2>2, <2>3
<1>4. CASE target[r] = None /\ ~StartCalled(r)
  <2>1. target'[r] = None
    <3>1. ASSUME NEW t \in Runs, StartCalled(t) PROVE target'[r] = None
      BY <1>4, <3>1 DEF StartCalled, CallStart, TypeOK
    <3>2. ASSUME NEW t \in Runs, ThreadStep(t) \/ BackendStart(t) \/ StartEnds(t)
          PROVE  target'[r] = None
      BY <1>4, <3>2 DEF ThreadStep, ReadServer, FailStep, StoreError, EndFailed, CallStart, BackendStart, StartEnds,
         StartReturns, StartRaises, TypeOK, vars
    <3>3. CASE StartReplaces \/ StopCalled \/ BackendStop \/ UNCHANGED allVars
      BY <1>4, <3>3 DEF StartReplaces, StartServer, StopCalled, StopServer, BackendStop, allVars, vars
    <3> QED
      BY <1>4, <3>1, <3>2, <3>3, Bystanders DEF SocketNext, Untouched
  <2> QED
    BY <2>1
<1> QED
  BY <1>2, <1>3, <1>4

\* stop_server has settled the run before it lets go of it.
LEMMA StoppingStep ==
  TypeOK /\ Control /\ Threads /\ SocketTypeOK /\ Positions /\ Registrations /\ OwnOrLost
    /\ Stopping /\ [SocketNext]_allVars => Stopping'
<1> SUFFICES ASSUME TypeOK, Control, Threads, SocketTypeOK, Positions, Registrations, OwnOrLost,
                    Stopping, [SocketNext]_allVars
             PROVE  Stopping'
  OBVIOUS
<1>1. \A r \in Runs : Settled(r) /\ (srv[r] # "unborn" \/ ctl # "spawn_server") => Settled(r)'
  BY SettledStays
<1>2. \A r \in abandoned : srv'[r] # "unborn" /\ Settled(r)'
  BY <1>1, Forward DEF Stopping, TypeOK
<1> DEFINE Calls == /\ ctl # "stopping" => stopPc[Controller] \notin {"calling", "waiting"}
                    /\ ctl = "stopping" =>
                          /\ stopOf[Controller] = server
                          /\ stopPc[Controller] = "calling" =>
                                registered[server] = serverThread \/ Settled(serverThread)
                          /\ stopPc[Controller] = "waiting" =>
                                stopping[Controller] = serverThread \/ Settled(serverThread)
                          /\ stopPc[Controller] \in {"done", "raised"} => Settled(serverThread)
                    /\ ctl \in AfterStop => Settled(serverThread)
                    /\ ctl \in {"stopping"} \cup AfterStop => serverThread # None
<1> HIDE DEF Calls
<1>3. PICK t : t = serverThread
  OBVIOUS
<1>4. serverThread' = t /\ Settled(t)' => Settled(serverThread)'
  BY DEF Settled, Alive, Excused
<1>5. ctl \in {"stopping"} \cup AfterStop => t \in Runs /\ (Settled(serverThread) => Settled(t)')
  BY <1>1, <1>3 DEF Stopping, AfterStop, TypeOK
<1>6. ASSUME UNCHANGED <<ctl, server, serverThread, registered, stopPc, stopOf, stopping>> PROVE Calls'
  BY <1>3, <1>4, <1>5, <1>6 DEF Calls, Stopping
<1>7. CASE StartReplaces
  <2>1. Calls'
    BY <1>7 DEF StartReplaces, StartServer, socketVars, Calls, Stopping, AfterStop
  <2>2. \A r \in abandoned' : srv'[r] # "unborn" /\ Settled(r)'
    BY <1>2, <1>7 DEF StartReplaces, StartServer, ThreadAlive, Alive, AliveStates, Settled, Excused
  <2> QED
    BY <2>1, <2>2 DEF Calls, Stopping
<1>8. CASE ControllerStep
  <2>1. /\ ctl # "stopping" /\ ctl' # "stopping" /\ UNCHANGED socketVars
        /\ (ctl' \in AfterStop) => (ctl \in AfterStop /\ serverThread' = serverThread)
    BY <1>8 DEF ControllerStep, ControllerGoesOn, ClearReady, ClearError, AssignThread, SpawnServer,
       SpawnMonitor, EndDelay, CheckThread, Join, FinReady, FinServer, FinThread, FinError, AfterStop,
       attributes
  <2>2. Calls'
    BY <1>3, <1>4, <1>5, <2>1 DEF Calls, Stopping, socketVars
  <2>3. \A r \in abandoned' : srv'[r] # "unborn" /\ Settled(r)'
    <3>1. CASE FinServer
      <4>1. ThreadAlive => srv'[t] # "unborn" /\ Settled(t)'
        BY <1>3, <1>5, <3>1, Forward
        DEF FinServer, ThreadAlive, Alive, AliveStates, Stopping, AfterStop
      <4>2. abandoned' \subseteq abandoned \cup (IF ThreadAlive THEN {t} ELSE {})
        BY <1>3, <3>1 DEF FinServer
      <4> QED
        BY <1>2, <4>1, <4>2
    <3>2. CASE abandoned' = abandoned
      BY <1>2, <3>2
    <3> QED
      BY <1>8, <3>1, <3>2 DEF ControllerStep, ControllerGoesOn, ClearReady, ClearError, AssignThread,
         SpawnServer, SpawnMonitor, EndDelay, CheckThread, Join, FinReady, FinThread, FinError, history
  <2> QED
    BY <2>2, <2>3 DEF Calls, Stopping
<1>9. abandoned' = abandoned /\ Calls' => Stopping'
  BY <1>2 DEF Calls, Stopping
<1>10. CASE StopCalled
  <2>1. ctl = "idle" /\ server # None /\ server = serverThread /\ serverThread \in Runs
    BY <1>10 DEF StopCalled, StopServer, Control, LettingGo, TypeOK
  <2>2. /\ ctl' = "stopping" /\ UNCHANGED <<server, serverThread, srv, target, abandoned, registered, phase>>
        /\ stopOf'[Controller] = server
        /\ stopPc'[Controller] = IF registered[server] = None THEN "done" ELSE "calling"
    BY <1>10 DEF StopCalled, StopServer, SS!CallStop, SS!startVars, attributes, history, SocketTypeOK
  <2>3. registered[server] # serverThread => Settled(t)'
    BY <1>3, <1>10, <2>1, <2>2 DEF StopCalled, ThreadAlive, Settled, Alive, Excused
  <2>4. Calls'
    BY <1>3, <1>4, <2>1, <2>2, <2>3 DEF Calls, AfterStop
  <2> QED
    BY <1>9, <2>2, <2>4
<1>11. CASE BackendStop
  <2>1. ctl = "stopping" /\ UNCHANGED <<ctl, server, serverThread, abandoned, registered, stopOf>>
    BY <1>11 DEF BackendStop, SS!StopStep, SS!Shutdown, SS!AwaitLoop, SS!startVars, Stopping, vars,
       attributes, control, history
  <2>2. CASE SS!Shutdown(Controller)
    <3>1. stopOf[Controller] = server /\ stopPc[Controller] = "calling"
      BY <2>1, <2>2 DEF SS!Shutdown, Stopping
    <3>2. CASE registered[server] = None
      <4>1. stopPc'[Controller] = "raised"
        BY <2>2, <3>1, <3>2 DEF SS!Shutdown, SocketTypeOK
      <4>2. Settled(serverThread)
        BY <2>1, <3>1, <3>2 DEF Stopping
      <4> QED
        BY <1>3, <1>4, <1>5, <1>9, <2>1, <3>1, <4>1, <4>2 DEF Calls, AfterStop, Stopping
    <3>3. CASE registered[server] # None
      <4>1. stopPc'[Controller] = "waiting" /\ stopping'[Controller] = registered[server]
        BY <2>2, <3>1, <3>3 DEF SS!Shutdown, SocketTypeOK
      <4> QED
        BY <1>3, <1>4, <1>5, <1>9, <2>1, <3>1, <4>1 DEF Calls, AfterStop, Stopping
    <3> QED
      BY <3>2, <3>3
  <2>3. CASE SS!AwaitLoop(Controller)
    <3>1. stopPc[Controller] = "waiting" /\ stopPc'[Controller] = "done"
      BY <2>3 DEF SS!AwaitLoop, SocketTypeOK
    <3>2. Settled(serverThread)
      BY <2>1, <2>3, <3>1 DEF SS!AwaitLoop, SS!LoopOver, Stopping, Settled, Past
    <3> QED
      BY <1>3, <1>4, <1>5, <1>9, <2>1, <3>1, <3>2 DEF Calls, AfterStop, Stopping
  <2> QED
    BY <1>11, <2>2, <2>3 DEF BackendStop, SS!StopStep
<1>12. CASE StopEnds
  <2>1. /\ ctl = "stopping" /\ ctl' \in AfterStop
        /\ stopPc[Controller] \in {"done", "raised"}
        /\ UNCHANGED <<serverThread, abandoned, stopPc>>
    BY <1>12 DEF StopEnds, StopReturns, StopRaises, AfterStop, attributes, history, socketVars
  <2>2. Calls'
    BY <1>3, <1>4, <1>5, <2>1 DEF Calls, AfterStop, Stopping
  <2> QED
    BY <1>9, <2>1, <2>2
<1>13. ASSUME NEW r \in Runs, ThreadStep(r) \/ StartCalled(r) \/ StartEnds(r) PROVE Stopping'
  <2>1. UNCHANGED <<ctl, server, serverThread, registered, stopPc, stopOf, stopping, abandoned>>
    BY <1>13 DEF ThreadStep, ReadServer, FailStep, StoreError, EndFailed, StartCalled, CallStart, SS!CallStart, StartEnds,
       StartReturns, StartRaises, attributes, control, history, socketVars, SS!stopVars
  <2> QED
    BY <1>6, <1>9, <2>1
<1>14. ASSUME NEW r \in Runs, BackendStart(r) PROVE Stopping'
  <2>1. UNCHANGED <<ctl, server, serverThread, stopPc, stopOf, stopping, abandoned, srv, target, lost>>
    BY <1>14 DEF BackendStart, SS!StartStep, SS!Bind, SS!Register, SS!Serve, SS!LeaveLoop,
       SS!CloseSocket, SS!Unregister, vars, attributes, control, history, SS!stopVars
  <2>2. CASE registered' = registered
    BY <1>6, <1>9, <2>1, <2>2
  <2>3. CASE SS!Register(r) \/ SS!Unregister(r)
    <3>1. ctl = "stopping" /\ stopPc[Controller] = "calling" =>
             registered'[server] = serverThread \/ Settled(t)'
      <4> SUFFICES ASSUME ctl = "stopping", stopPc[Controller] = "calling",
                          registered[server] = serverThread, registered'[server] # serverThread
                   PROVE  Settled(t)'
        BY <1>3, <1>5, <2>1 DEF Stopping
      <4>1. server = serverThread /\ serverThread \in Runs
        BY DEF Control, LettingGo, Stopping, AfterStop, TypeOK
      <4>2. target[r] = server
        BY <2>3, <4>1 DEF SS!Register, SS!Unregister, SocketTypeOK
      <4>3. target[serverThread] = server
        BY <4>1 DEF Registrations, None, Runs
      <4>4. CASE r = serverThread
        BY <1>3, <2>3, <4>1, <4>2, <4>4
        DEF SS!Register, SS!Unregister, SocketTypeOK, Settled, Past
      <4>5. CASE r # serverThread
        <5>1. r \in lost
          BY <4>1, <4>2, <4>5 DEF OwnOrLost, None, Runs
        <5>2. Settled(serverThread)
          BY <4>1, <4>2, <4>3, <5>1 DEF Settled, Excused, None, Runs
        <5> QED
          BY <1>5, <5>2
      <4> QED
        BY <4>4, <4>5
    <3> QED
      BY <1>3, <1>4, <1>5, <1>9, <2>1, <3>1 DEF Calls, Stopping
  <2>4. registered' = registered \/ SS!Register(r) \/ SS!Unregister(r)
    BY <1>14 DEF BackendStart, SS!StartStep, SS!Bind, SS!Serve, SS!LeaveLoop, SS!CloseSocket
  <2> QED
    BY <2>2, <2>3, <2>4
<1>15. CASE (\E m \in Runs : WatchStep(m) \/ ProbeAnswered(m) \/ ProbeUnanswered(m))
         \/ (\E w \in Waiters : Wait(w)) \/ UNCHANGED allVars
  <2>1. UNCHANGED <<ctl, server, serverThread, registered, stopPc, stopOf, stopping, abandoned>>
    BY <1>15, Bystanders DEF Untouched, allVars, vars, attributes, control, history, socketVars
  <2> QED
    BY <1>6, <1>9, <2>1
<1> QED
  BY <1>7, <1>8, <1>10, <1>11, <1>12, <1>13, <1>14, <1>15 DEF SocketNext

\* The two hold together from the start.
LEMMA StoppingCorrect == SocketSpec => [](OwnOrLost /\ Stopping)
<1>1. SocketInit => OwnOrLost /\ Stopping
  BY DEF SocketInit, Init, OwnOrLost, Stopping, SS!InitWith, AfterStop
<1> QED
  BY <1>1, OwnOrLostStep, StoppingStep, SocketStarterIsStarter, TypeCorrect, ControlCorrect,
     ThreadsCorrect, SocketTypes, PositionsCorrect, PTL DEF SocketSpec

\* A server that goes on serving behind the Starter's back belongs to a run that
\* start_server replaced alive or whose backend's stop() did not find its server,
\* or it shares a backend with such a run; a join that times out leaves none.
THEOREM LeaksAreLost == SocketSpec => []LeakedServerWasLost
<1>1. Threads /\ Positions /\ Stopping => LeakedServerWasLost
  <2> SUFFICES ASSUME Threads, Positions, Stopping, NEW r \in Runs, SS!InLoop(r), r # serverThread
               PROVE  \E k \in lost : k = r \/ target[k] = target[r]
    BY DEF LeakedServerWasLost
  <2>1. srv[r] = "running" /\ phase[r] \notin Past
    BY DEF SS!InLoop, Positions, InStart, Past
  <2>2. r \in abandoned
    BY <2>1 DEF Threads, Alive, AliveStates
  <2>3. Excused(r)
    BY <2>1, <2>2 DEF Stopping, Settled, Alive, AliveStates
  <2> QED
    BY <2>3 DEF Excused
<1> QED
  BY <1>1, SocketStarterIsStarter, ThreadsCorrect, PositionsCorrect, StoppingCorrect, PTL

\* A clean stop leaves the port of SocketServer free for the next start().
THEOREM StopFreesPort == SocketSpec => []CleanStopFreesPort
<1>1. Control /\ Threads /\ Positions => CleanStopFreesPort
  BY DEF Control, Threads, Positions, CleanStopFreesPort, LettingGo, SS!Open, InStart, Alive,
     AliveStates, Runs, None
<1> QED
  BY <1>1, SocketStarterIsStarter, ControlCorrect, ThreadsCorrect, PositionsCorrect, PTL

-----------------------------------------------------------------------------
\* While no run is lost the one stop_server under way is all that can end the
\* current server's loop, so its backend's stop() finds that server.
LEMMA NoOtherStopCorrect == SocketSpec => [](NoOtherStop /\ StopRaceNeedsLostRun)
<1> DEFINE Inv == NoOtherStop /\ StopRaceNeedsLostRun
<1>1. SocketInit => Inv
  BY DEF SocketInit, Init, NoOtherStop, StopRaceNeedsLostRun, SS!InitWith
<1>2. TypeOK /\ Control /\ SocketTypeOK /\ Positions /\ Registrations /\ OwnOrLost /\ Stopping
        /\ Inv /\ [SocketNext]_allVars => Inv'
  <2> SUFFICES ASSUME TypeOK, Control, SocketTypeOK, Positions, Registrations, OwnOrLost, Stopping,
                      Inv, [SocketNext]_allVars
               PROVE  Inv'
    OBVIOUS
  <2>1. CASE lost' # {}
    BY <2>1 DEF NoOtherStop, StopRaceNeedsLostRun
  <2>2. CASE lost' = {}
    <3>1. lost = {} /\ stopPc[Controller] # "raised"
      BY <2>2, Forward DEF StopRaceNeedsLostRun
    <3>2. \A r \in Runs : target[r] \in {None, r}
      BY <3>1 DEF OwnOrLost
    <3>3. /\ serverThread # None /\ Asked(serverThread) =>
                \/ ctl \in AfterStop \cup {"fin_thread"}
                \/ ctl = "stopping" /\ stopPc[Controller] \in {"waiting", "done"}
          /\ ctl = "stopping" /\ stopPc[Controller] = "calling" => registered[server] = serverThread
      BY <3>1 DEF NoOtherStop
    <3> DEFINE Quiet == serverThread' # None /\ Asked(serverThread)' =>
                           \/ ctl' \in AfterStop \cup {"fin_thread"}
                           \/ ctl' = "stopping" /\ stopPc'[Controller] \in {"waiting", "done"}
               Found == ctl' = "stopping" /\ stopPc'[Controller] = "calling" =>
                           registered'[server'] = serverThread'
               Unraised == stopPc'[Controller] # "raised"
    <3>4. Quiet /\ Found /\ Unraised => Inv'
      BY DEF NoOtherStop, StopRaceNeedsLostRun
    <3> HIDE DEF Inv
    <3> USE DEF Asked
    <3>5. CASE StartReplaces
      BY <3>1, <3>3, <3>4, <3>5 DEF StartReplaces, StartServer, socketVars, AfterStop
    <3>6. CASE ControllerStep
      <4>1. UNCHANGED socketVars /\ ctl # "stopping" /\ ctl' # "stopping"
        BY <3>6 DEF ControllerStep, ControllerGoesOn, ClearReady, ClearError, AssignThread,
           SpawnServer, SpawnMonitor, EndDelay, CheckThread, Join, FinReady, FinServer, FinThread, FinError
      <4>2. Quiet
        <5>1. CASE AssignThread
          <6>1. runs \in Runs /\ srv[runs] = "unborn" /\ serverThread' = runs
            BY <5>1 DEF AssignThread, Control, Starting, NotSpawned
          <6>2. ~Asked(runs)
            BY <6>1 DEF Positions, Published
          <6> QED
            BY <4>1, <6>1, <6>2 DEF socketVars
        <5>2. CASE FinThread \/ FinError
          BY <5>2 DEF FinThread, FinError, Control
        <5>3. CASE ~AssignThread /\ ~FinThread /\ ~FinError
          <6>1. /\ serverThread' = serverThread
                /\ (ctl \in AfterStop) => (ctl' \in AfterStop \cup {"fin_thread"})
                /\ ctl # "fin_thread"
            BY <3>6, <5>3 DEF ControllerStep, ControllerGoesOn, ClearReady, ClearError, SpawnServer,
               SpawnMonitor, EndDelay, CheckThread, Join, FinReady, FinServer, AfterStop, attributes
          <6> QED
            BY <3>3, <4>1, <6>1 DEF socketVars
        <5> QED
          BY <5>1, <5>2, <5>3
      <4>3. Found /\ Unraised
        BY <3>1, <4>1 DEF socketVars
      <4> QED
        BY <3>4, <4>2, <4>3
    <3>7. CASE StopCalled
      <4>1. ctl = "idle" /\ server # None /\ server = serverThread /\ server \in Runs
        BY <3>7 DEF StopCalled, StopServer, Control, LettingGo, TypeOK
      <4>2. /\ UNCHANGED <<server, serverThread, srv, registered, phase, request>>
            /\ stopPc'[Controller] = IF registered[server] = None THEN "done" ELSE "calling"
        BY <3>7 DEF StopCalled, StopServer, SS!CallStop, SS!startVars, attributes, SocketTypeOK
      <4>3. registered[server] # None => registered[server] = server
        BY <3>2, <4>1 DEF Registrations, SocketTypeOK, None, Runs
      <4> QED
        BY <3>3, <3>4, <4>1, <4>2, <4>3 DEF AfterStop
    <3>8. CASE BackendStop
      <4>1. ctl = "stopping" /\ UNCHANGED <<ctl, server, serverThread, phase, registered>>
        BY <3>8 DEF BackendStop, SS!StopStep, SS!Shutdown, SS!AwaitLoop, SS!startVars, Stopping, vars,
           attributes, control
      <4>2. server = serverThread /\ stopOf[Controller] = server /\ serverThread # None
        BY <4>1 DEF Control, LettingGo, Stopping
      <4>3. stopPc'[Controller] \in {"waiting", "done"}
        BY <3>3, <3>8, <4>1, <4>2 DEF BackendStop, SS!StopStep, SS!Shutdown, SS!AwaitLoop, SocketTypeOK
      <4> QED
        BY <3>4, <4>1, <4>3
    <3>9. CASE StopEnds
      BY <3>1, <3>4, <3>9 DEF StopEnds, StopReturns, StopRaises, AfterStop, socketVars
    <3>10. ASSUME UNCHANGED <<ctl, server, serverThread, stopPc>> PROVE Unraised
      BY <3>1, <3>10
    <3>11. ASSUME NEW r \in Runs, ThreadStep(r) \/ StartCalled(r) \/ StartEnds(r) PROVE Inv'
      <4>1. UNCHANGED <<ctl, server, serverThread, stopPc, registered, request>>
        BY <3>11 DEF ThreadStep, ReadServer, FailStep, StoreError, EndFailed, StartCalled, CallStart, SS!CallStart, StartEnds,
           StartReturns, StartRaises, attributes, control, socketVars, SS!stopVars
      <4>2. Asked(serverThread)' /\ serverThread \in Runs => Asked(serverThread)
        BY <3>11, <4>1 DEF ThreadStep, StartCalled, SS!CallStart, StartEnds, socketVars, SocketTypeOK
      <4> QED
        BY <3>3, <3>4, <3>10, <4>1, <4>2 DEF TypeOK
    <3>12. ASSUME NEW r \in Runs, BackendStart(r) PROVE Inv'
      <4>1. UNCHANGED <<ctl, server, serverThread, stopPc, target>>
        BY <3>12 DEF BackendStart, SS!StartStep, SS!Bind, SS!Register, SS!Serve, SS!LeaveLoop,
           SS!CloseSocket, SS!Unregister, vars, attributes, control, SS!stopVars
      <4>2. serverThread \in Runs => (Asked(serverThread)' => Asked(serverThread))
        BY <3>12, <4>1 DEF BackendStart, SS!StartStep, SS!Bind, SS!Register, SS!Serve, SS!LeaveLoop,
           SS!CloseSocket, SS!Unregister, SocketTypeOK
      <4>3. Found
        <5> SUFFICES ASSUME ctl = "stopping", stopPc[Controller] = "calling"
                     PROVE  registered'[server] = serverThread
          BY <4>1
        <5>1. server = serverThread /\ server \in Runs /\ registered[server] = serverThread
          BY <3>3 DEF Control, LettingGo, Stopping, TypeOK
        <5>2. ~Asked(serverThread)
          BY <3>3, <5>1 DEF AfterStop, Runs, None
        <5>3. CASE SS!Register(r)
          BY <3>2, <5>1, <5>3 DEF SS!Register, SocketTypeOK, Positions, None, Runs
        <5>4. CASE SS!Unregister(r)
          BY <3>2, <5>1, <5>2, <5>4 DEF SS!Unregister, SocketTypeOK, Positions, None, Runs
        <5>5. CASE registered' = registered
          BY <5>1, <5>5
        <5> QED
          BY <3>12, <5>3, <5>4, <5>5 DEF BackendStart, SS!StartStep, SS!Bind, SS!Serve, SS!LeaveLoop,
             SS!CloseSocket
      <4> QED
        BY <3>3, <3>4, <3>10, <4>1, <4>2, <4>3 DEF TypeOK
    <3>13. CASE (\E m \in Runs : WatchStep(m) \/ ProbeAnswered(m) \/ ProbeUnanswered(m))
             \/ (\E w \in Waiters : Wait(w)) \/ UNCHANGED allVars
      <4>1. UNCHANGED <<ctl, server, serverThread, stopPc, phase, request, registered>>
        BY <3>13, Bystanders DEF Untouched, allVars, vars, attributes, control, socketVars
      <4> QED
        BY <3>3, <3>4, <3>10, <4>1
    <3> QED
      BY <3>5, <3>6, <3>7, <3>8, <3>9, <3>11, <3>12, <3>13 DEF SocketNext
  <2> QED
    BY <2>1, <2>2
<1> QED
  BY <1>1, <1>2, SocketStarterIsStarter, TypeCorrect, ControlCorrect, SocketTypes, PositionsCorrect,
     StoppingCorrect, PTL DEF SocketSpec

\* stop() of EnipServer and BacnetServer raises no AttributeError between its two
\* reads of self._server, unless a run was lost.
THEOREM StopSeldomRaises == SocketSpec => []StopRaceNeedsLostRun
  BY NoOtherStopCorrect, PTL

-----------------------------------------------------------------------------
\* start() goes through its phases in order.
LEMMA Moves ==
  SocketTypeOK /\ [SocketNext]_allVars =>
    \A r \in Runs : \/ phase'[r] = phase[r]
                    \/ phase[r] = "idle" /\ phase'[r] = "binding"
                    \/ phase[r] = "binding" /\ phase'[r] \in {"bound", "raised"}
                    \/ phase[r] = "bound" /\ phase'[r] = "registered"
                    \/ phase[r] = "registered" /\ phase'[r] = "serving"
                    \/ phase[r] = "serving" /\ phase'[r] = "closing"
                    \/ phase[r] = "closing" /\ phase'[r] = "closed"
                    \/ phase[r] = "closed" /\ phase'[r] = "returned"
<1> SUFFICES ASSUME SocketTypeOK, [SocketNext]_allVars, NEW r \in Runs, phase'[r] # phase[r]
             PROVE  \/ phase[r] = "idle" /\ phase'[r] = "binding"
                    \/ phase[r] = "binding" /\ phase'[r] \in {"bound", "raised"}
                    \/ phase[r] = "bound" /\ phase'[r] = "registered"
                    \/ phase[r] = "registered" /\ phase'[r] = "serving"
                    \/ phase[r] = "serving" /\ phase'[r] = "closing"
                    \/ phase[r] = "closing" /\ phase'[r] = "closed"
                    \/ phase[r] = "closed" /\ phase'[r] = "returned"
  OBVIOUS
<1>1. PICK t \in Runs : StartCalled(t) \/ BackendStart(t)
  BY DEF SocketNext, StartReplaces, ControllerStep, StopCalled, SS!CallStop, SS!startVars, BackendStop,
     SS!StopStep, SS!Shutdown, SS!AwaitLoop, StopEnds, ThreadStep, StartEnds, WatchStep, ProbeAnswered,
     ProbeUnanswered, Wait, allVars, socketVars
<1> QED
  BY <1>1 DEF StartCalled, SS!CallStart, BackendStart, SS!StartStep, SS!Bind, SS!Register, SS!Serve,
     SS!LeaveLoop, SS!CloseSocket, SS!Unregister, SocketTypeOK

\* A probe by the last run's monitor is answered by the last run's server.
LEMMA ProbedOwnCorrect == SocketSpec => []ProbedOwn
<1>1. SocketInit => ProbedOwn
  BY DEF SocketInit, Init, ProbedOwn, None
<1>2. TypeOK /\ Control /\ Threads /\ LastRun /\ SocketTypeOK /\ Positions /\ ProbedOwn
        /\ [SocketNext]_allVars => ProbedOwn'
  <2> SUFFICES ASSUME TypeOK, Control, Threads, LastRun, SocketTypeOK, Positions, ProbedOwn,
                      [SocketNext]_allVars, abandoned = {}, runs' # None, mon'[runs'] \in {"set", "done"}
               PROVE  Up(runs)'
    BY Forward DEF ProbedOwn
  <2>1. CASE StartReplaces
    <3>1. runs' \in Runs /\ runs' > runs /\ mon' = mon
      BY <2>1, StarterAssumption DEF StarterAssumption, StartReplaces, StartServer, Runs, TypeOK
    <3> QED
      BY <3>1 DEF Control
  <2>2. CASE ~StartReplaces
    <3>1. UNCHANGED <<runs, transport>>
      <4>1. CASE ControllerStep \/ StopEnds
        BY <4>1, Bystanders DEF Untouched, socketVars
      <4>2. CASE StopCalled \/ BackendStop
        BY <4>2 DEF StopCalled, StopServer, BackendStop, SS!CallStop, SS!StopStep, SS!Shutdown,
           SS!AwaitLoop, vars, control
      <4>3. ASSUME NEW r \in Runs, ThreadStep(r) \/ StartCalled(r) \/ StartEnds(r)
            PROVE  UNCHANGED <<runs, transport>>
        BY <4>3 DEF ThreadStep, ReadServer, FailStep, StoreError, EndFailed, StartCalled, CallStart, SS!CallStart, StartEnds,
           StartReturns, StartRaises, control, socketVars
      <4>4. ASSUME NEW r \in Runs, BackendStart(r) PROVE UNCHANGED <<runs, transport>>
        BY <4>4 DEF BackendStart, SS!StartStep, SS!Bind, SS!Register, SS!Serve, SS!LeaveLoop,
           SS!CloseSocket, SS!Unregister, vars, control
      <4>5. CASE UNCHANGED allVars
        BY <4>5 DEF allVars, vars, control, socketVars
      <4>6. CASE (\E m \in Runs : WatchStep(m) \/ ProbeAnswered(m) \/ ProbeUnanswered(m))
              \/ (\E w \in Waiters : Wait(w))
        BY <4>6, Bystanders DEF Untouched, socketVars
      <4> QED
        BY <2>2, <4>1, <4>2, <4>3, <4>4, <4>5, <4>6 DEF SocketNext
    <3>2. runs \in Runs
      BY <3>1 DEF TypeOK, Runs, None
    <3>3. mon[runs] \in {"set", "done"} \/ ProbeAnswered(runs)
      <4> SUFFICES ASSUME mon'[runs] # mon[runs] PROVE mon[runs] \in {"set", "done"} \/ ProbeAnswered(runs)
        BY <3>1
      <4>1. CASE ControllerStep
        BY <3>1, <3>2, <4>1 DEF ControllerStep, ControllerGoesOn, ClearReady, ClearError, AssignThread,
           SpawnServer, SpawnMonitor, EndDelay, CheckThread, Join, FinReady, FinServer, FinThread,
           FinError, TypeOK
      <4>2. ASSUME NEW m \in Runs, WatchStep(m) \/ ProbeAnswered(m) \/ ProbeUnanswered(m)
            PROVE  mon[runs] \in {"set", "done"} \/ ProbeAnswered(runs)
        BY <3>1, <3>2, <4>2 DEF WatchStep, MonitorStep, FirstRead, SecondRead, ReadError, SetReady,
           ProbeAnswered, ProbeUnanswered, ProbeSucceeds, ProbeFails, TypeOK
      <4>3. CASE StopCalled \/ BackendStop \/ StopEnds \/ (\E w \in Waiters : Wait(w)) \/ UNCHANGED allVars
        BY <4>3 DEF StopCalled, StopServer, BackendStop, StopEnds, StopReturns, StopRaises, Wait, WaitStep,
           WaitCall, WaitTimesOut, allVars, vars
      <4>4. ASSUME NEW r \in Runs, ThreadStep(r) \/ StartCalled(r) \/ BackendStart(r) \/ StartEnds(r)
            PROVE  FALSE
        BY <4>4 DEF ThreadStep, ReadServer, FailStep, StoreError, EndFailed, StartCalled, CallStart, BackendStart, StartEnds,
           StartReturns, StartRaises, vars
      <4> QED
        BY <2>2, <4>1, <4>2, <4>3, <4>4 DEF SocketNext
    <3>4. Up(runs)
      <4>1. CASE mon[runs] \in {"set", "done"}
        BY <3>2, <4>1 DEF ProbedOwn, Runs, None
      <4>2. CASE ProbeAnswered(runs)
        <5>1. PICK r \in Runs : IF transport = "tcp" THEN SS!Open(r) ELSE phase[r] = "serving"
          BY <4>2 DEF ProbeAnswered, Reachable
        <5>2. Alive(r)
          BY <5>1 DEF SS!Open, Positions, InStart, Alive, AliveStates
        <5>3. r = serverThread /\ ctl \notin LettingGo
          BY <5>2 DEF Threads, ThreadAlive, Runs, None
        <5>4. r = runs
          BY <5>3 DEF LastRun, LettingGo, Runs, None
        <5> QED
          BY <5>1, <5>4 DEF Up
      <4> QED
        BY <3>3, <4>1, <4>2
    <3>5. SS!Open(runs) \/ SS!LoopOver(runs) => SS!Open(runs)' \/ SS!LoopOver(runs)'
      BY <3>1, <3>2, Moves DEF SS!Open, SS!LoopOver
    <3>6. phase[runs] = "serving" \/ SS!LoopOver(runs) => phase'[runs] = "serving" \/ SS!LoopOver(runs)'
      BY <3>1, <3>2, Moves DEF SS!Open, SS!LoopOver
    <3> QED
      BY <3>1, <3>4, <3>5, <3>6 DEF Up
  <2> QED
    BY <2>1, <2>2
<1> QED
  BY <1>1, <1>2, SocketStarterIsStarter, TypeCorrect, ControlCorrect, ThreadsCorrect, LastRunCorrect,
     SocketTypes, PositionsCorrect, PTL DEF SocketSpec

\* ready_event is true to the port of EnipServer and BacnetServer, unless a live
\* thread was let go of or an earlier monitor was still probing.
THEOREM ReadyIsReachable == SocketSpec => []ReadyMeansReachable
<1>1. Control /\ TypeOK /\ ReadyFromCurrentMonitor /\ ProbedOwn => ReadyMeansReachable
  BY DEF ReadyFromCurrentMonitor, ProbedOwn, Up, ReadyMeansReachable, Runs, None
<1> QED
  BY <1>1, SocketStarterIsStarter, TypeCorrect, ControlCorrect, ReadyBlame, ProbedOwnCorrect, PTL
=============================================================================
