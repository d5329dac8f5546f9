------------------------- MODULE DirectServerProofs -------------------------
(***************************************************************************)
(* Proofs about DirectServer, for any number of backends, of threads that  *)
(* start them and of threads that stop them.                               *)
(*                                                                         *)
(* The argument: self._server refers only to a server of that backend      *)
(* whose start() has not returned (Registered), and while no starts of a   *)
(* backend overlapped at most one of its start() calls is under way        *)
(* (Overlaps).  So the self._server = None at the end of a call withdraws  *)
(* only the call's own server, the server in the loop is the one stop()    *)
(* finds, and once that loop is over no server stop() might have seen is   *)
(* left in one (Stopping).                                                 *)
(***************************************************************************)
EXTENDS DirectServer, TLAPS

Published == {"registered", "serving", "closing", "closed"}

HistoryOK ==
    /\ overlapped \subseteq Backends
    /\ seen \in [Stoppers -> SUBSET Threads]

\* Two calls of start() of one backend at once have been noticed.
Overlaps ==
    \A t, u \in Threads :
        Active(t) /\ Active(u) /\ backend[t] = backend[u] /\ t # u => backend[t] \in overlapped

\* A published server is one of the backend's own, and its call is not over.
Registered ==
    \A i \in Backends : registered[i] # NoThread =>
        /\ backend[registered[i]] = i
        /\ phase[registered[i]] \in Published

\* What stop() saw was served by the backend it stops, and a stop() that waits
\* waits for the one server that can still be in its loop.
Seen ==
    \A s \in Stoppers : \A t \in seen[s] :
        backend[t] = stopOf[s] /\ (InLoop(t) \/ LoopOver(t))
Waits == \A s \in Stoppers : stopPc[s] = "waiting" => stopping[s] # NoThread
Stopping ==
    \A s \in Stoppers : stopPc[s] = "waiting" /\ stopOf[s] \notin overlapped =>
        \A t \in seen[s] : LoopOver(t) \/ t = stopping[s]

-----------------------------------------------------------------------------
\* Every attribute and every thread's position stays in its range.
THEOREM TypeCorrect == Spec => []TypeOK
<1> USE SocketServerAssumption DEF SocketServerAssumption, TypeOK, Phases, StopPhases,
    startVars, stopVars
<1>1. Init => TypeOK
  BY DEF Init, InitWith
<1>2. TypeOK /\ [Next]_vars => TypeOK'
  <2> SUFFICES ASSUME TypeOK, [Next]_vars PROVE TypeOK'
    OBVIOUS
  <2>1. ASSUME NEW t \in Threads, NEW i \in Backends, Start(t, i) PROVE TypeOK'
    BY <2>1 DEF Start, CallStart
  <2>2. ASSUME NEW t \in Threads, StartGoesOn(t) PROVE TypeOK'
    <3>1. CASE Register(t) \/ Unregister(t)
      BY <3>1 DEF Register, Unregister
    <3>2. CASE Bind(t) \/ Serve(t) \/ LeaveLoop(t) \/ CloseSocket(t)
      BY <3>2 DEF Bind, Serve, LeaveLoop, CloseSocket
    <3> QED
      BY <2>2, <3>1, <3>2 DEF StartGoesOn, StartStep
  <2>3. ASSUME NEW s \in Stoppers, NEW i \in Backends, Stop(s, i) PROVE TypeOK'
    BY <2>3 DEF Stop, CallStop
  <2>4. ASSUME NEW s \in Stoppers, StopGoesOn(s) PROVE TypeOK'
    <3>1. CASE Shutdown(s)
      BY <3>1 DEF Shutdown
    <3>2. CASE AwaitLoop(s)
      BY <3>2 DEF AwaitLoop
    <3> QED
      BY <2>4, <3>1, <3>2 DEF StopGoesOn, StopStep
  <2>5. ASSUME NEW t \in Threads, Interrupted(t) PROVE TypeOK'
    BY <2>5 DEF Interrupted, Interrupt
  <2>6. CASE UNCHANGED vars
    BY <2>6 DEF vars, ssvars
  <2> QED
    BY <2>1, <2>2, <2>3, <2>4, <2>5, <2>6 DEF Next
<1> QED
  BY <1>1, <1>2, PTL DEF Spec

\* The history variables keep their ranges, and overlapping starts are noticed.
LEMMA HistoryCorrect == Spec => [](HistoryOK /\ Overlaps)
<1> USE DEF HistoryOK, Overlaps, Active
<1>1. Init => HistoryOK /\ Overlaps
  BY DEF Init, InitWith
<1>2. TypeOK /\ HistoryOK /\ Overlaps /\ [Next]_vars => (HistoryOK /\ Overlaps)'
  <2> SUFFICES ASSUME TypeOK, HistoryOK, Overlaps, [Next]_vars PROVE (HistoryOK /\ Overlaps)'
    OBVIOUS
  <2> USE DEF TypeOK, startVars, stopVars, history
  <2>1. ASSUME NEW t \in Threads, NEW i \in Backends, Start(t, i) PROVE (HistoryOK /\ Overlaps)'
    BY <2>1 DEF Start, CallStart
  <2>2. ASSUME NEW t \in Threads, StartGoesOn(t) PROVE (HistoryOK /\ Overlaps)'
    BY <2>2 DEF StartGoesOn, StartStep, Bind, Register, Serve, LeaveLoop, CloseSocket, Unregister
  <2>3. ASSUME NEW s \in Stoppers, NEW i \in Backends, Stop(s, i) PROVE (HistoryOK /\ Overlaps)'
    BY <2>3 DEF Stop, CallStop
  <2>4. ASSUME NEW s \in Stoppers, StopGoesOn(s) PROVE (HistoryOK /\ Overlaps)'
    BY <2>4 DEF StopGoesOn, StopStep, Shutdown, AwaitLoop
  <2>5. ASSUME NEW t \in Threads, Interrupted(t) PROVE (HistoryOK /\ Overlaps)'
    BY <2>5 DEF Interrupted, Interrupt
  <2>6. CASE UNCHANGED vars
    BY <2>6 DEF vars, ssvars
  <2> QED
    BY <2>1, <2>2, <2>3, <2>4, <2>5, <2>6 DEF Next
<1> QED
  BY <1>1, <1>2, TypeCorrect, PTL DEF Spec

\* self._server never refers to a server of another backend or to one whose
\* start() is over.
LEMMA RegisteredCorrect == Spec => []Registered
<1> USE SocketServerAssumption DEF SocketServerAssumption, Registered, Published
<1>1. Init => Registered
  BY DEF Init, InitWith
<1>2. TypeOK /\ Registered /\ [Next]_vars => Registered'
  <2> SUFFICES ASSUME TypeOK, Registered, [Next]_vars PROVE Registered'
    OBVIOUS
  <2> USE DEF TypeOK, startVars, stopVars, history
  <2>1. ASSUME NEW t \in Threads, NEW i \in Backends, Start(t, i) PROVE Registered'
    BY <2>1 DEF Start, CallStart
  <2>2. ASSUME NEW t \in Threads, StartGoesOn(t) PROVE Registered'
    <3>1. CASE Register(t)
      BY <3>1 DEF Register
    <3>2. CASE Unregister(t)
      BY <3>2 DEF Unregister
    <3>3. CASE Bind(t) \/ Serve(t) \/ LeaveLoop(t) \/ CloseSocket(t)
      BY <3>3 DEF Bind, Serve, LeaveLoop, CloseSocket
    <3> QED
      BY <2>2, <3>1, <3>2, <3>3 DEF StartGoesOn, StartStep
  <2>3. ASSUME NEW s \in Stoppers, NEW i \in Backends, Stop(s, i) PROVE Registered'
    BY <2>3 DEF Stop, CallStop
  <2>4. ASSUME NEW s \in Stoppers, StopGoesOn(s) PROVE Registered'
    BY <2>4 DEF StopGoesOn, StopStep, Shutdown, AwaitLoop
  <2>5. ASSUME NEW t \in Threads, Interrupted(t) PROVE Registered'
    BY <2>5 DEF Interrupted, Interrupt
  <2>6. CASE UNCHANGED vars
    BY <2>6 DEF vars, ssvars
  <2> QED
    BY <2>1, <2>2, <2>3, <2>4, <2>5, <2>6 DEF Next
<1> QED
  BY <1>1, <1>2, TypeCorrect, PTL DEF Spec

-----------------------------------------------------------------------------
\* A server whose loop runs can be stopped, whichever backend, thread or
\* number of restarts: unless starts overlapped, self._server refers to it.
THEOREM RunningIsStoppable == Spec => []ServingIsStoppable
<1> USE SocketServerAssumption DEF SocketServerAssumption, ServingIsStoppable, InLoop
<1>1. Init => ServingIsStoppable
  BY DEF Init, InitWith
<1>2. TypeOK /\ Overlaps /\ ServingIsStoppable /\ [Next]_vars => ServingIsStoppable'
  <2> SUFFICES ASSUME TypeOK, Overlaps, ServingIsStoppable, [Next]_vars
               PROVE  ServingIsStoppable'
    OBVIOUS
  <2> USE DEF TypeOK, startVars, stopVars, history
  <2>1. ASSUME NEW t \in Threads, NEW i \in Backends, Start(t, i) PROVE ServingIsStoppable'
    BY <2>1 DEF Start, CallStart
  <2>2. ASSUME NEW t \in Threads, StartGoesOn(t) PROVE ServingIsStoppable'
    <3>1. CASE Register(t) \/ Unregister(t)
      \* Another server of the backend in its loop would be an overlapping start.
      <4> SUFFICES ASSUME NEW u \in Threads, u # t, InLoop(u), backend[u] \notin overlapped
                   PROVE  backend[u] # backend[t]
        BY <2>2, <3>1 DEF Register, Unregister, StartGoesOn
      <4> QED
        BY <3>1 DEF Register, Unregister, Overlaps, Active
    <3>2. CASE Bind(t) \/ Serve(t) \/ LeaveLoop(t) \/ CloseSocket(t)
      BY <2>2, <3>2 DEF Bind, Serve, LeaveLoop, CloseSocket, StartGoesOn
    <3> QED
      BY <2>2, <3>1, <3>2 DEF StartGoesOn, StartStep
  <2>3. ASSUME NEW s \in Stoppers, NEW i \in Backends, Stop(s, i) PROVE ServingIsStoppable'
    BY <2>3 DEF Stop, CallStop
  <2>4. ASSUME NEW s \in Stoppers, StopGoesOn(s) PROVE ServingIsStoppable'
    BY <2>4 DEF StopGoesOn, StopStep, Shutdown, AwaitLoop
  <2>5. ASSUME NEW t \in Threads, Interrupted(t) PROVE ServingIsStoppable'
    BY <2>5 DEF Interrupted, Interrupt
  <2>6. CASE UNCHANGED vars
    BY <2>6 DEF vars, ssvars
  <2> QED
    BY <2>1, <2>2, <2>3, <2>4, <2>5, <2>6 DEF Next
<1> QED
  BY <1>1, <1>2, TypeCorrect, HistoryCorrect, PTL DEF Spec

\* The servers a stop() saw stay beyond serve_forever's entry, and it waits for
\* a server, never for None.
LEMMA SeenCorrect == Spec => [](Seen /\ Waits)
<1> USE SocketServerAssumption DEF SocketServerAssumption, Seen, Waits, InLoop, LoopOver
<1>1. Init => Seen /\ Waits
  BY DEF Init, InitWith
<1>2. TypeOK /\ HistoryOK /\ Seen /\ Waits /\ [Next]_vars => (Seen /\ Waits)'
  <2> SUFFICES ASSUME TypeOK, HistoryOK, Seen, Waits, [Next]_vars PROVE (Seen /\ Waits)'
    OBVIOUS
  <2> USE DEF TypeOK, HistoryOK, startVars, stopVars, history
  <2>1. ASSUME NEW t \in Threads, NEW i \in Backends, Start(t, i) PROVE (Seen /\ Waits)'
    BY <2>1 DEF Start, CallStart
  <2>2. ASSUME NEW t \in Threads, StartGoesOn(t) PROVE (Seen /\ Waits)'
    BY <2>2 DEF StartGoesOn, StartStep, Bind, Register, Serve, LeaveLoop, CloseSocket, Unregister
  <2>3. ASSUME NEW s \in Stoppers, NEW i \in Backends, Stop(s, i) PROVE (Seen /\ Waits)'
    BY <2>3 DEF Stop, CallStop
  <2>4. ASSUME NEW s \in Stoppers, StopGoesOn(s) PROVE (Seen /\ Waits)'
    BY <2>4 DEF StopGoesOn, StopStep, Shutdown, AwaitLoop
  <2>5. ASSUME NEW t \in Threads, Interrupted(t) PROVE (Seen /\ Waits)'
    BY <2>5 DEF Interrupted, Interrupt
  <2>6. CASE UNCHANGED vars
    BY <2>6 DEF vars, ssvars
  <2> QED
    BY <2>1, <2>2, <2>3, <2>4, <2>5, <2>6 DEF Next
<1> QED
  BY <1>1, <1>2, TypeCorrect, HistoryCorrect, PTL DEF Spec

\* stop() stops a running server: when it returns, no server of the backend that
\* was in its loop at the call still is, unless starts overlapped.
THEOREM StopIsEffective == Spec => []StopStopsRunning
<1> USE SocketServerAssumption
    DEF SocketServerAssumption, Stopping, StopStopsRunning, LoopOver
<1>1. Init => Stopping /\ StopStopsRunning
  BY DEF Init, InitWith
<1>2. TypeOK /\ HistoryOK /\ Overlaps /\ Registered /\ Seen /\ ServingIsStoppable
      /\ Stopping /\ StopStopsRunning /\ [Next]_vars => (Stopping /\ StopStopsRunning)'
  <2> SUFFICES ASSUME TypeOK, HistoryOK, Overlaps, Registered, Seen, ServingIsStoppable,
                      Stopping, StopStopsRunning, [Next]_vars
               PROVE  (Stopping /\ StopStopsRunning)'
    OBVIOUS
  <2> USE DEF TypeOK, HistoryOK, startVars, stopVars, history
  <2>1. ASSUME NEW t \in Threads, NEW i \in Backends, Start(t, i)
        PROVE  (Stopping /\ StopStopsRunning)'
    BY <2>1 DEF Start, CallStart
  <2>2. ASSUME NEW t \in Threads, StartGoesOn(t) PROVE (Stopping /\ StopStopsRunning)'
    BY <2>2 DEF StartGoesOn, StartStep, Bind, Register, Serve, LeaveLoop, CloseSocket, Unregister
  <2>3. ASSUME NEW s \in Stoppers, NEW i \in Backends, Stop(s, i)
        PROVE  (Stopping /\ StopStopsRunning)'
    \* A stop() that returns at once has seen no server in its loop.
    BY <2>3 DEF Stop, CallStop, ServingIsStoppable, InLoop
  <2>4. ASSUME NEW s \in Stoppers, Shutdown(s), UNCHANGED history
        PROVE  (Stopping /\ StopStopsRunning)'
    <3>1. CASE registered[stopOf[s]] = NoThread
      BY <2>4, <3>1 DEF Shutdown
    <3>2. CASE registered[stopOf[s]] # NoThread
      \* A server it saw that is still in its loop is the published one.
      <4>1. ASSUME NEW t \in seen[s], stopOf[s] \notin overlapped
            PROVE  LoopOver(t) \/ t = registered[stopOf[s]]
        BY <4>1 DEF Seen, ServingIsStoppable
      <4> QED
        BY <2>4, <3>2, <4>1 DEF Shutdown
    <3> QED
      BY <3>1, <3>2
  <2>5. ASSUME NEW s \in Stoppers, AwaitLoop(s), UNCHANGED history
        PROVE  (Stopping /\ StopStopsRunning)'
    BY <2>5 DEF AwaitLoop
  <2>6. ASSUME NEW t \in Threads, Interrupted(t) PROVE (Stopping /\ StopStopsRunning)'
    BY <2>6 DEF Interrupted, Interrupt
  <2>7. CASE UNCHANGED vars
    BY <2>7 DEF vars, ssvars
  <2> QED
    BY <2>1, <2>2, <2>3, <2>4, <2>5, <2>6, <2>7 DEF Next, StopGoesOn, StopStep
<1> QED
  BY <1>1, <1>2, TypeCorrect, HistoryCorrect, RegisteredCorrect, SeenCorrect,
     RunningIsStoppable, PTL DEF Spec

-----------------------------------------------------------------------------
\* start() and stop() are those of Lifecycle, step by step: no server leaves
\* its loop unasked, unless the main thread is interrupted in it, and no stop() comes back before that.  (That they do come
\* back is the fairness part of Lifecycle's Spec, which TLC checks.)
THEOREM StepsOfLifecycle == Spec => LC!Safety
<1> USE SocketServerAssumption DEF SocketServerAssumption, InLoop, Life, Asked, Found, LC!vars
<1>1. Init => LC!Init
  BY DEF Init, InitWith, LC!Init
<1>2. TypeOK /\ Registered /\ Waits /\ [Next]_vars => [LC!Next]_(LC!vars)
  <2> SUFFICES ASSUME TypeOK, Registered, Waits, [Next]_vars PROVE [LC!Next]_(LC!vars)
    OBVIOUS
  <2> USE DEF TypeOK, startVars, stopVars, history
  <2>1. ASSUME NEW t \in Threads, NEW i \in Backends, Start(t, i) PROVE UNCHANGED LC!vars
    BY <2>1 DEF Start, CallStart
  <2>2. ASSUME NEW t \in Threads, Bind(t), UNCHANGED history PROVE [LC!Fail(t)]_(LC!vars)
    BY <2>2 DEF Bind, LC!Fail, LC!Become
  <2>3. ASSUME NEW t \in Threads, Register(t), UNCHANGED history PROVE LC!Begin(t)
    BY <2>3 DEF Register, LC!Begin, LC!Become
  <2>4. ASSUME NEW t \in Threads, Serve(t) \/ CloseSocket(t), UNCHANGED history
        PROVE  UNCHANGED LC!vars
    BY <2>4 DEF Serve, CloseSocket
  <2>5. ASSUME NEW t \in Threads, LeaveLoop(t), UNCHANGED history PROVE LC!Leave(t)
    BY <2>5 DEF LeaveLoop, LC!Leave, LC!Become
  <2>6. ASSUME NEW t \in Threads, Unregister(t), UNCHANGED history PROVE LC!Finish(t)
    BY <2>6 DEF Unregister, LC!Finish, LC!Become
  <2>7. ASSUME NEW s \in Stoppers, NEW i \in Backends, Stop(s, i) PROVE UNCHANGED LC!vars
    BY <2>7 DEF Stop, CallStop
  <2>8. ASSUME NEW s \in Stoppers, Shutdown(s), UNCHANGED history
        PROVE  UNCHANGED LC!vars \/ \E t \in Threads : LC!Stop(s, t)
    <3>1. CASE registered[stopOf[s]] = NoThread
      BY <2>8, <3>1 DEF Shutdown
    <3>2. CASE registered[stopOf[s]] # NoThread
      <4> DEFINE o == registered[stopOf[s]]
      <4>1. o \in Threads /\ Life(o) \in {"serving", "ending"} /\ (Life(o) = "serving" <=> InLoop(o))
        BY <3>2 DEF Registered, Published
      <4>2. Found(s) = {} /\ \A r \in Stoppers : Found(r)' = IF r = s THEN {o} ELSE Found(r)
        BY <2>8, <3>2 DEF Shutdown
      <4>3. Asked' = IF InLoop(o) THEN Asked \cup {o} ELSE Asked
        BY <2>8, <3>2, <4>1 DEF Shutdown
      <4>4. UNCHANGED [t \in Threads |-> Life(t)]
        BY <2>8, <3>2 DEF Shutdown
      <4> HIDE DEF o, Life, Asked, Found, InLoop
      <4>5. LC!Stop(s, o)
        BY <4>1, <4>2, <4>3, <4>4 DEF LC!Stop, LC!Serving
      <4> QED
        BY <4>1, <4>5
    <3> QED
      BY <3>1, <3>2
  <2>9. ASSUME NEW s \in Stoppers, AwaitLoop(s), UNCHANGED history PROVE LC!Return(s)
    BY <2>9 DEF AwaitLoop, Waits, LoopOver, LC!Return, LC!Serving
  <2>10. ASSUME NEW t \in Threads, Interrupted(t) PROVE LC!Leave(t)
    BY <2>10 DEF Interrupted, Interrupt, LC!Leave, LC!Serving, LC!Become
  <2>11. CASE UNCHANGED vars
    BY <2>11 DEF vars, ssvars
  <2> QED
    BY <2>1, <2>2, <2>3, <2>4, <2>5, <2>6, <2>7, <2>8, <2>9, <2>10, <2>11
    DEF Next, StartGoesOn, StartStep, StopGoesOn, StopStep, LC!Next
<1> QED
  BY <1>1, <1>2, TypeCorrect, RegisteredCorrect, SeenCorrect, PTL DEF Spec, LC!Safety
=============================================================================
