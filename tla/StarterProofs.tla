---------------------------- MODULE StarterProofs ----------------------------
(***************************************************************************)
(* Proofs about Starter, for any number of starts and any set of waiters.  *)
(*                                                                         *)
(* The argument rests on two facts, Control and Threads.  Control: what    *)
(* _server refers to is the backend of the run whose thread _server_thread *)
(* refers to, except while start_server or stop_server replaces the two.   *)
(* Threads: a server thread that is alive is the one _server_thread refers *)
(* to, unless the Starter let go of it (abandoned) or is about to.  With   *)
(* them, an error or a start() of another run can only come from a thread  *)
(* let go of while it was alive.                                           *)
(***************************************************************************)
EXTENDS Starter, TLAPS

\* Between StartServer and AssignThread the old thread is still the one
\* _server_thread refers to, and in fin_thread it is about to be dropped.
LettingGo == {"clear_ready", "clear_error", "assign_thread", "fin_thread"}
NotSpawned == {"clear_ready", "clear_error", "assign_thread", "spawn_server"}
Starting == NotSpawned \cup {"spawn_monitor"}

\* Runs that were never started have neither a thread nor a monitor, the
\* current run gets them in this order, and what _server refers to is the
\* backend of the current thread except while one of the two is replaced.
Control ==
    /\ serverThread <= runs
    /\ \A r \in Runs : r > runs => srv[r] = "unborn" /\ mon[r] = "unborn"
    /\ ctl \in Starting => runs \in Runs /\ mon[runs] = "unborn" /\ server = runs
    /\ ctl \in NotSpawned => srv[runs] = "unborn"
    /\ ctl = "fin_error" => serverThread = None
    /\ ctl \in {"fin_thread", "fin_error"} => server = None
    /\ ctl \notin LettingGo \cup {"fin_error"} => server = serverThread

\* A thread that is alive is the current one or was let go of, and the current
\* one counts as let go of as soon as _server is overwritten.
Threads ==
    /\ \A r \in Runs : Alive(r) => r = serverThread \/ r \in abandoned
    /\ ctl \in LettingGo /\ ThreadAlive => serverThread \in abandoned

\* An error was stored by a thread that ends with it, and while start_server
\* replaces the thread only one that was let go of can have stored it.
Errors ==
    /\ serverError # None => srv[serverError] \in {"stored", "failed"}
    /\ ctl = "assign_thread" => serverError \in {None} \cup abandoned

\* Every monitor of an earlier run that still runs was there when start_server
\* cleared the event.
Monitors ==
    ctl # "clear_ready" => \A m \in Runs : Watching(m) => m \in {runs} \cup late

-----------------------------------------------------------------------------
\* Every attribute and every thread's position of starter.py's Starter stays
\* in its range, however many starts there are.
THEOREM TypeCorrect == Spec => []TypeOK
<1>1. Init => TypeOK
  <2> SUFFICES ASSUME Init PROVE TypeOK
    OBVIOUS
  <2>1. runs \in 0..MaxStarts
    BY StarterAssumption DEF StarterAssumption, Init
  <2> QED
    BY <2>1 DEF Init, TypeOK, CtlStates, Results, SrvStates, MonStates, WaitStates
<1>2. TypeOK /\ [Next]_vars => TypeOK'
  <2> SUFFICES ASSUME TypeOK, [Next]_vars PROVE TypeOK'
    OBVIOUS
  <2> USE DEF TypeOK, attributes, control, history
  <2>1. CASE StartServer
    BY <2>1, StarterAssumption
    DEF StarterAssumption, StartServer, ThreadAlive, CtlStates, Runs, None
  <2>2. CASE AssignThread
    BY <2>2, StarterAssumption DEF StarterAssumption, AssignThread, CtlStates, Runs, None
  <2>3. CASE ClearReady \/ ClearError \/ EndDelay
    BY <2>3 DEF ClearReady, ClearError, EndDelay, CtlStates, Results, None
  <2>4. CASE SpawnServer \/ SpawnMonitor
    BY <2>4 DEF SpawnServer, SpawnMonitor, CtlStates, SrvStates, AliveStates, MonStates, WatchStates
  <2>5. CASE StopServer \/ StopReturns \/ StopRaises \/ CheckThread \/ Join
    BY <2>5 DEF StopServer, StopReturns, StopRaises, CheckThread, Join, CtlStates, Results
  <2>6. CASE FinReady \/ FinServer \/ FinThread \/ FinError
    BY <2>6 DEF FinReady, FinServer, FinThread, FinError, ThreadAlive, CtlStates, None
  <2>7. ASSUME NEW r \in Runs, ServerStep(r) \/ BackendStep(r) PROVE TypeOK'
    BY <2>7 DEF ServerStep, BackendStep, ReadServer, CallStart, FailStep, StoreError, EndFailed,
       StartReturns, StartRaises, SrvStates, AliveStates
  <2>8. ASSUME NEW m \in Runs, MonitorStep(m) \/ ProbeStep(m) PROVE TypeOK'
    BY <2>8 DEF MonitorStep, ProbeStep, FirstRead, SecondRead, ReadError, SetReady,
       ProbeSucceeds, ProbeFails, MonStates, WatchStates, WaitStates
  <2>9. ASSUME NEW w \in Waiters, WaitStep(w) PROVE TypeOK'
    BY <2>9 DEF WaitStep, WaitCall, WaitTimesOut, WaitStates
  <2>10. CASE UNCHANGED vars
    BY <2>10 DEF vars
  <2> QED
    BY <2>1, <2>2, <2>3, <2>4, <2>5, <2>6, <2>7, <2>8, <2>9, <2>10 DEF Next, StartStep, StopStep
<1> QED
  BY <1>1, <1>2, PTL DEF Spec

-----------------------------------------------------------------------------
\* start_server and stop_server keep _server, _server_thread and the thread
\* objects in step, whatever the threads do in between.
LEMMA ControlCorrect == Spec => []Control
<1>1. Init => Control
  BY DEF Init, Control, LettingGo, Starting, NotSpawned, None
<1>2. TypeOK /\ Control /\ [Next]_vars => Control'
  <2> SUFFICES ASSUME TypeOK, Control, [Next]_vars PROVE Control'
    OBVIOUS
  <2> USE StarterAssumption
      DEF StarterAssumption, TypeOK, Control, LettingGo, Starting, NotSpawned, None, Runs,
          attributes, control, history
  <2>1. CASE StartServer
    BY <2>1 DEF StartServer
  <2>2. CASE ClearReady \/ ClearError \/ AssignThread
    BY <2>2 DEF ClearReady, ClearError, AssignThread
  <2>3. CASE SpawnServer
    BY <2>3 DEF SpawnServer
  <2>4. CASE SpawnMonitor
    BY <2>4 DEF SpawnMonitor
  <2>5. CASE EndDelay \/ StopServer \/ StopReturns \/ StopRaises \/ CheckThread \/ Join
    BY <2>5 DEF EndDelay, StopServer, StopReturns, StopRaises, CheckThread, Join
  <2>6. CASE FinReady \/ FinServer \/ FinThread \/ FinError
    BY <2>6 DEF FinReady, FinServer, FinThread, FinError
  <2>7. ASSUME NEW r \in Runs, ServerStep(r) \/ BackendStep(r) PROVE Control'
    BY <2>7 DEF ServerStep, BackendStep, ReadServer, CallStart, FailStep, StoreError, EndFailed, StartReturns, StartRaises
  <2>8. ASSUME NEW m \in Runs, MonitorStep(m) \/ ProbeStep(m) PROVE Control'
    BY <2>8 DEF MonitorStep, ProbeStep, FirstRead, SecondRead, ReadError, SetReady,
       ProbeSucceeds, ProbeFails
  <2>9. ASSUME NEW w \in Waiters, WaitStep(w) PROVE Control'
    BY <2>9 DEF WaitStep, WaitCall, WaitTimesOut
  <2>10. CASE UNCHANGED vars
    BY <2>10 DEF vars
  <2> QED
    BY <2>1, <2>2, <2>3, <2>4, <2>5, <2>6, <2>7, <2>8, <2>9, <2>10 DEF Next, StartStep, StopStep
<1> QED
  BY <1>1, <1>2, TypeCorrect, PTL DEF Spec

-----------------------------------------------------------------------------
\* The Starter loses sight of a live server thread only where it overwrites
\* _server: in start_server, or in the finally clause of stop_server.
LEMMA ThreadsCorrect == Spec => []Threads
<1>1. Init => Threads
  BY DEF Init, Threads, Alive, AliveStates, LettingGo
<1>2. TypeOK /\ Control /\ Threads /\ [Next]_vars => Threads'
  <2> SUFFICES ASSUME TypeOK, Control, Threads, [Next]_vars PROVE Threads'
    OBVIOUS
  <2> USE DEF TypeOK, Threads, Alive, ThreadAlive, AliveStates, LettingGo, attributes, control, history
  <2>1. CASE StartServer \/ ClearReady \/ ClearError
    BY <2>1 DEF StartServer, ClearReady, ClearError, None, Runs
  <2>2. CASE AssignThread
    BY <2>2 DEF AssignThread, Control, NotSpawned, Starting, None, Runs
  <2>3. CASE SpawnServer
    BY <2>3 DEF SpawnServer, Control, NotSpawned, Starting
  <2>4. CASE SpawnMonitor \/ EndDelay \/ StopServer \/ StopReturns \/ StopRaises \/ CheckThread \/ Join
    BY <2>4 DEF SpawnMonitor, EndDelay, StopServer, StopReturns, StopRaises, CheckThread, Join
  <2>5. CASE FinReady \/ FinServer \/ FinThread \/ FinError
    BY <2>5 DEF FinReady, FinServer, FinThread, FinError, None
  <2>6. ASSUME NEW r \in Runs, ServerStep(r) \/ BackendStep(r) PROVE Threads'
    BY <2>6 DEF ServerStep, BackendStep, ReadServer, CallStart, FailStep, StoreError, EndFailed, StartReturns, StartRaises
  <2>7. ASSUME NEW m \in Runs, MonitorStep(m) \/ ProbeStep(m) PROVE Threads'
    BY <2>7 DEF MonitorStep, ProbeStep, FirstRead, SecondRead, ReadError, SetReady,
       ProbeSucceeds, ProbeFails
  <2>8. ASSUME NEW w \in Waiters, WaitStep(w) PROVE Threads'
    BY <2>8 DEF WaitStep, WaitCall, WaitTimesOut
  <2>9. CASE UNCHANGED vars
    BY <2>9 DEF vars
  <2> QED
    BY <2>1, <2>2, <2>3, <2>4, <2>5, <2>6, <2>7, <2>8, <2>9 DEF Next, StartStep, StopStep
<1> QED
  BY <1>1, <1>2, TypeCorrect, ControlCorrect, PTL DEF Spec

-----------------------------------------------------------------------------
\* What _server_error says of the current run of starter.py: it is never a
\* failure of another run, unless a thread let go of while alive stored it,
\* and the current run's own failure is not lost.
LEMMA ErrorsStep ==
  TypeOK /\ Control /\ Threads /\ Errors /\ ErrorBlamesCurrentRun /\ FailureVisible /\ [Next]_vars
    => Errors' /\ ErrorBlamesCurrentRun' /\ FailureVisible'
<1> SUFFICES ASSUME TypeOK, Control, Threads, Errors, ErrorBlamesCurrentRun, FailureVisible, [Next]_vars
             PROVE  Errors' /\ ErrorBlamesCurrentRun' /\ FailureVisible'
  OBVIOUS
<1> USE DEF TypeOK, Errors, ErrorBlamesCurrentRun, FailureVisible, attributes, control, history
<1>1. CASE StartServer \/ ClearReady
  BY <1>1 DEF StartServer, ClearReady
<1>2. CASE ClearError
  BY <1>2 DEF ClearError
<1>3. CASE AssignThread
  BY <1>3 DEF AssignThread, Control, NotSpawned, Starting
<1>4. CASE SpawnServer
  BY <1>4 DEF SpawnServer, Control, NotSpawned, Starting
<1>5. CASE SpawnMonitor \/ EndDelay \/ StopServer \/ StopReturns \/ StopRaises \/ CheckThread \/ Join
  BY <1>5 DEF SpawnMonitor, EndDelay, StopServer, StopReturns, StopRaises, CheckThread, Join
<1>6. CASE FinReady \/ FinServer \/ FinThread \/ FinError
  BY <1>6 DEF FinReady, FinServer, FinThread, FinError, Control
<1>7. ASSUME NEW r \in Runs, ServerStep(r) \/ BackendStep(r)
      PROVE  Errors' /\ ErrorBlamesCurrentRun' /\ FailureVisible'
  <2>1. CASE StoreError(r)
    <3>1. r = serverThread \/ r \in abandoned
      BY <2>1 DEF StoreError, Threads, Alive, AliveStates
    <3>2. r = serverThread /\ ctl \in LettingGo => r \in abandoned
      BY <2>1 DEF StoreError, Threads, ThreadAlive, Alive, AliveStates, Runs, None
    <3> QED
      BY <2>1, <3>1, <3>2 DEF StoreError, LettingGo, Runs, None
  <2>2. CASE EndFailed(r) \/ ReadServer(r) \/ CallStart(r) \/ BackendStep(r)
    BY <2>2 DEF EndFailed, ReadServer, CallStart, BackendStep, StartReturns, StartRaises
  <2> QED
    BY <1>7, <2>1, <2>2 DEF ServerStep, FailStep
<1>8. ASSUME NEW m \in Runs, MonitorStep(m) \/ ProbeStep(m)
      PROVE  Errors' /\ ErrorBlamesCurrentRun' /\ FailureVisible'
  BY <1>8 DEF MonitorStep, ProbeStep, FirstRead, SecondRead, ReadError, SetReady,
     ProbeSucceeds, ProbeFails
<1>9. ASSUME NEW w \in Waiters, WaitStep(w)
      PROVE  Errors' /\ ErrorBlamesCurrentRun' /\ FailureVisible'
  BY <1>9 DEF WaitStep, WaitCall, WaitTimesOut
<1>10. CASE UNCHANGED vars
  BY <1>10 DEF vars
<1> QED
  BY <1>1, <1>2, <1>3, <1>4, <1>5, <1>6, <1>7, <1>8, <1>9, <1>10 DEF Next, StartStep, StopStep

\* Errors, ErrorBlamesCurrentRun and FailureVisible hold from the start.
LEMMA ErrorsInit == Init => Errors /\ ErrorBlamesCurrentRun /\ FailureVisible
  BY DEF Init, Errors, ErrorBlamesCurrentRun, FailureVisible

\* The layer of the invariant about errors.
LEMMA ErrorsCorrect == Spec => [](Errors /\ ErrorBlamesCurrentRun /\ FailureVisible)
  BY ErrorsInit, ErrorsStep, TypeCorrect, ControlCorrect, ThreadsCorrect, PTL DEF Spec

\* start_server and wait_until_ready never blame the current run for another
\* run's failure, unless the thread of that run was alive when the Starter
\* overwrote _server.
THEOREM ErrorBlame == Spec => []ErrorBlamesCurrentRun
  BY ErrorsCorrect, PTL

\* Once the current run's thread has failed, _server_error is set, so the
\* failure is raised by start_server and wait_until_ready.
THEOREM FailureSeen == Spec => []FailureVisible
  BY ErrorsCorrect, PTL

-----------------------------------------------------------------------------
\* _run_server calls start() on the backend its own start_server call made,
\* unless the thread was let go of while alive.
THEOREM OwnBackend == Spec => []StartsOwnBackend
<1>1. Init => StartsOwnBackend
  BY DEF Init, StartsOwnBackend
<1>2. TypeOK /\ Control /\ Threads /\ StartsOwnBackend /\ [Next]_vars => StartsOwnBackend'
  <2> SUFFICES ASSUME TypeOK, Control, Threads, StartsOwnBackend, [Next]_vars,
                      NEW r \in Runs
               PROVE  (target[r] \in {None, r} \/ r \in abandoned)'
    BY DEF StartsOwnBackend
  <2>1. target[r] \in {None, r} \/ r \in abandoned
    BY DEF StartsOwnBackend
  <2>2. abandoned \subseteq abandoned'
    BY DEF Next, vars, StartStep, StopStep, StartServer, ClearReady, ClearError, AssignThread,
       SpawnServer, SpawnMonitor, EndDelay, StopServer, StopReturns, StopRaises, CheckThread, Join,
       FinReady, FinServer, FinThread, FinError, ServerStep, BackendStep, ReadServer, CallStart,
       FailStep, StoreError, EndFailed, StartReturns, StartRaises, MonitorStep, ProbeStep, FirstRead, SecondRead,
       ReadError, SetReady, ProbeSucceeds, ProbeFails, WaitStep, WaitCall, WaitTimesOut, history
  <2>3. CASE CallStart(r)
    <3>1. r = serverThread \/ r \in abandoned
      BY <2>3 DEF CallStart, Threads, Alive, AliveStates
    <3>2. r = serverThread /\ ctl \in LettingGo => r \in abandoned
      BY <2>3 DEF CallStart, Threads, ThreadAlive, Alive, AliveStates, Runs, None
    <3>3. r \notin abandoned => server \in {None, serverThread}
      BY <3>1, <3>2 DEF Control, LettingGo
    <3> QED
      BY <2>2, <2>3, <3>1, <3>3 DEF CallStart, TypeOK
  <2>4. CASE ~CallStart(r)
    <3>1. target'[r] = target[r]
      BY <2>4 DEF TypeOK, Next, vars, StartStep, StopStep, StartServer, ClearReady, ClearError, AssignThread,
         SpawnServer, SpawnMonitor, EndDelay, StopServer, StopReturns, StopRaises, CheckThread, Join,
         FinReady, FinServer, FinThread, FinError, ServerStep, BackendStep, ReadServer, CallStart,
         FailStep, StoreError, EndFailed, StartReturns, StartRaises, MonitorStep, ProbeStep, FirstRead, SecondRead,
         ReadError, SetReady, ProbeSucceeds, ProbeFails, WaitStep, WaitCall, WaitTimesOut
    <3> QED
      BY <2>1, <2>2, <3>1
  <2> QED
    BY <2>3, <2>4
<1> QED
  BY <1>1, <1>2, TypeCorrect, ControlCorrect, ThreadsCorrect, PTL DEF Spec

-----------------------------------------------------------------------------
\* ready_event, once start_server has cleared it, is set only on a successful
\* probe by the current run's monitor or by one that was running at the clear.
THEOREM ReadyBlame == Spec => []ReadyFromCurrentMonitor
<1> DEFINE Inv == Monitors /\ ReadyFromCurrentMonitor
<1>1. Init => Inv
  BY DEF Init, Monitors, ReadyFromCurrentMonitor, Watching, WatchStates
<1>2. TypeOK /\ Control /\ Inv /\ [Next]_vars => Inv'
  <2> SUFFICES ASSUME TypeOK, Control, Inv, [Next]_vars PROVE Inv'
    OBVIOUS
  <2> USE DEF TypeOK, Monitors, ReadyFromCurrentMonitor, Watching, attributes, control, history
  <2>1. CASE StartServer
    BY <2>1 DEF StartServer
  <2>2. CASE ClearReady
    BY <2>2 DEF ClearReady
  <2>3. CASE ClearError \/ AssignThread \/ SpawnServer \/ EndDelay
    BY <2>3 DEF ClearError, AssignThread, SpawnServer, EndDelay
  <2>4. CASE SpawnMonitor
    <3>1. runs \in Runs /\ mon[runs] = "unborn"
      BY <2>4 DEF SpawnMonitor, Control, Starting
    <3> QED
      BY <2>4, <3>1 DEF SpawnMonitor, WatchStates
  <2>5. CASE StopServer \/ StopReturns \/ StopRaises \/ CheckThread \/ Join
    BY <2>5 DEF StopServer, StopReturns, StopRaises, CheckThread, Join
  <2>6. CASE FinReady \/ FinServer \/ FinThread \/ FinError
    BY <2>6 DEF FinReady, FinServer, FinThread, FinError
  <2>7. ASSUME NEW r \in Runs, ServerStep(r) \/ BackendStep(r) PROVE Inv'
    BY <2>7 DEF ServerStep, BackendStep, ReadServer, CallStart, FailStep, StoreError, EndFailed, StartReturns, StartRaises
  <2>8. ASSUME NEW m \in Runs, MonitorStep(m) \/ ProbeStep(m) PROVE Inv'
    <3>1. CASE SetReady(m)
      <4>1. ctl # "clear_ready" => m \in {runs} \cup late
        BY <3>1 DEF SetReady, WatchStates
      <4>2. mon'[m] = "done" /\ \A k \in Runs \ {m} : mon'[k] = mon[k]
        BY <3>1 DEF SetReady
      <4> QED
        BY <3>1, <4>1, <4>2 DEF SetReady, WatchStates
    <3>2. CASE ~SetReady(m)
      <4>1. mon[m] \in WatchStates
        BY <2>8, <3>2 DEF MonitorStep, ProbeStep, FirstRead, SecondRead, ReadError,
           ProbeSucceeds, ProbeFails, WatchStates
      <4>2. \A k \in Runs \ {m} : mon'[k] = mon[k]
        BY <2>8, <3>2 DEF MonitorStep, ProbeStep, FirstRead, SecondRead, ReadError,
           ProbeSucceeds, ProbeFails
      <4>3. UNCHANGED <<ready, ctl, runs, late>>
        BY <2>8, <3>2 DEF MonitorStep, ProbeStep, FirstRead, SecondRead, ReadError,
           ProbeSucceeds, ProbeFails
      <4>4. mon[m] # "done"
        BY <4>1 DEF WatchStates
      <4>5. \A k \in Runs : mon[k] = "done" => mon'[k] = "done"
        BY <4>2, <4>4
      <4>6. \A k \in Runs : mon'[k] \in WatchStates => mon[k] \in WatchStates
        BY <4>1, <4>2
      <4>7. Monitors'
        BY <4>3, <4>6
      <4>8. ReadyFromCurrentMonitor'
        BY <4>3, <4>5
      <4> QED
        BY <4>7, <4>8
    <3> QED
      BY <3>1, <3>2
  <2>9. ASSUME NEW w \in Waiters, WaitStep(w) PROVE Inv'
    BY <2>9 DEF WaitStep, WaitCall, WaitTimesOut
  <2>10. CASE UNCHANGED vars
    BY <2>10 DEF vars
  <2> QED
    BY <2>1, <2>2, <2>3, <2>4, <2>5, <2>6, <2>7, <2>8, <2>9, <2>10 DEF Next, StartStep, StopStep
<1> QED
  BY <1>1, <1>2, TypeCorrect, ControlCorrect, PTL DEF Spec

-----------------------------------------------------------------------------
\* While the current server thread is alive its monitor keeps probing or has
\* set ready_event, unless a thread let go of while alive can interfere.
THEOREM MonitorKeepsWatching == Spec => []MonitorWatchesLiveRun
<1>1. Init => MonitorWatchesLiveRun
  BY DEF Init, MonitorWatchesLiveRun, ThreadAlive
<1>2. TypeOK /\ Control /\ Errors /\ ErrorBlamesCurrentRun /\ MonitorWatchesLiveRun /\ [Next]_vars
        => MonitorWatchesLiveRun'
  <2> SUFFICES ASSUME TypeOK, Control, Errors, ErrorBlamesCurrentRun, MonitorWatchesLiveRun, [Next]_vars
               PROVE  MonitorWatchesLiveRun'
    OBVIOUS
  <2> USE DEF TypeOK, MonitorWatchesLiveRun, ThreadAlive, Alive, AliveStates, None,
          attributes, control, history
  <2>1. CASE StartServer \/ ClearReady \/ ClearError \/ EndDelay
    BY <2>1 DEF StartServer, ClearReady, ClearError, EndDelay
  <2>2. CASE AssignThread \/ SpawnServer
    BY <2>2 DEF AssignThread, SpawnServer, Control, Starting, NotSpawned
  <2>3. CASE SpawnMonitor
    BY <2>3 DEF SpawnMonitor
  <2>4. CASE StopServer \/ StopReturns \/ StopRaises \/ CheckThread \/ Join
    BY <2>4 DEF StopServer, StopReturns, StopRaises, CheckThread, Join
  <2>5. CASE FinReady \/ FinServer \/ FinThread \/ FinError
    BY <2>5 DEF FinReady, FinServer, FinThread, FinError
  <2>6. ASSUME NEW r \in Runs, ServerStep(r) \/ BackendStep(r) PROVE MonitorWatchesLiveRun'
    BY <2>6 DEF ServerStep, BackendStep, ReadServer, CallStart, FailStep, StoreError, EndFailed, StartReturns, StartRaises
  <2>7. ASSUME NEW m \in Runs, MonitorStep(m) \/ ProbeStep(m) PROVE MonitorWatchesLiveRun'
    <3>1. CASE ReadError(m)
      <4>1. serverError # None /\ ThreadAlive /\ srv[serverThread] # "stored" => serverError \in abandoned
        BY DEF Errors, ErrorBlamesCurrentRun, Control
      <4> QED
        BY <3>1, <4>1 DEF ReadError
    <3>2. CASE FirstRead(m) \/ SecondRead(m) \/ SetReady(m) \/ ProbeStep(m)
      BY <3>2 DEF FirstRead, SecondRead, SetReady, ProbeStep, ProbeSucceeds, ProbeFails
    <3> QED
      BY <2>7, <3>1, <3>2 DEF MonitorStep
  <2>8. ASSUME NEW w \in Waiters, WaitStep(w) PROVE MonitorWatchesLiveRun'
    BY <2>8 DEF WaitStep, WaitCall, WaitTimesOut
  <2>9. CASE UNCHANGED vars
    BY <2>9 DEF vars
  <2> QED
    BY <2>1, <2>2, <2>3, <2>4, <2>5, <2>6, <2>7, <2>8, <2>9 DEF Next, StartStep, StopStep
<1> QED
  BY <1>1, <1>2, TypeCorrect, ControlCorrect, ErrorsCorrect, PTL DEF Spec
=============================================================================
