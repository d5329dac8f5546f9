------------------------------- MODULE Starter -------------------------------
(***************************************************************************)
(* The Starter class of starter.py: the thread that calls start_server and *)
(* stop_server (the controller), one server thread and one readiness       *)
(* monitor per call of start_server, and any number of threads blocked in  *)
(* wait_until_ready.  They share the attributes of one Starter object and  *)
(* take no lock, so every read or write another thread can tell apart is a *)
(* step of its own.                                                        *)
(*                                                                         *)
(* The k-th call of start_server makes a backend object, a server thread   *)
(* and a monitor; all three are called run k, and None stands for Python's *)
(* None.  What the backend does inside start(), stop() and under a probe   *)
(* is left open here: start() may return, raise or go on for ever, and a   *)
(* probe may succeed at any time.  The composing modules say which of      *)
(* these steps a given backend takes.                                      *)
(***************************************************************************)
EXTENDS Naturals

CONSTANTS
    MaxStarts,  \* bound on the calls of start_server
    Waiters     \* threads that call wait_until_ready

ASSUME StarterAssumption == MaxStarts \in Nat

Runs == 1..MaxStarts
None == 0

VARIABLES
    \* attributes of the Starter object
    server,        \* run whose backend object _server refers to, or None
    serverThread,  \* run whose thread _server_thread refers to, or None
    serverError,   \* run whose thread stored _server_error, or None
    ready,         \* flag of _ready_event
    \* threads
    ctl,           \* where the controller is
    runs,          \* calls of start_server so far
    result,        \* how the last start_server or stop_server ended
    srv,           \* where server thread r is
    target,        \* backend object whose start() thread r called, or None
    mon,           \* where the readiness monitor of run r is
    wait,          \* state of each thread's call of wait_until_ready
    \* history, read by no step
    abandoned,     \* runs whose thread was alive when _server was overwritten
    late           \* monitors still running when start_server cleared ready

attributes == <<server, serverThread, serverError, ready>>
control    == <<ctl, runs, result>>
history    == <<abandoned, late>>
vars == <<attributes, control, srv, target, mon, wait, history>>

CtlStates == {"idle", "clear_ready", "clear_error", "assign_thread",
              "spawn_server", "spawn_monitor", "delay", "stopping",
              "check_thread", "joining", "fin_ready", "fin_server",
              "fin_thread", "fin_error"}
AliveStates == {"spawned", "checked", "running", "raising", "stored"}
SrvStates == AliveStates \cup {"unborn", "failed", "exited"}
WatchStates == {"first_read", "second_read", "read_error", "probe", "set"}
MonStates == WatchStates \cup {"unborn", "done", "ended", "crashed"}
WaitStates == {"idle", "untimed", "timed", "true", "false", "raised"}
Results == {"none", "started", "start_raised",
            "stopped", "join_timeout", "stop_raised"}

\* Thread.is_alive(): between Thread.start() and the end of _run_server.
Alive(r) == srv[r] \in AliveStates
Watching(m) == mon[m] \in WatchStates
ThreadAlive == serverThread # None /\ Alive(serverThread)

Init ==
    /\ server = None
    /\ serverThread = None
    /\ serverError = None
    /\ ready = FALSE
    /\ ctl = "idle"
    /\ runs = 0
    /\ result = "none"
    /\ srv = [r \in Runs |-> "unborn"]
    /\ target = [r \in Runs |-> None]
    /\ mon = [r \in Runs |-> "unborn"]
    /\ wait = [w \in Waiters |-> "idle"]
    /\ abandoned = {}
    /\ late = {}

-----------------------------------------------------------------------------
(* Mutants: steps below with one plausible bug each, which the properties  *)
(* must notice.  No specification uses them.                               *)

\* The new backend is taken for the next run's.
StartServerAhead ==
    /\ ctl = "idle"
    /\ runs < MaxStarts
    /\ runs' = runs + 1
    /\ server' = runs' + 1
    /\ ctl' = "clear_ready"
    /\ UNCHANGED <<serverThread, serverError, ready, result, srv, target, mon, wait, history>>

\* start_server without self._ready_event.clear().
ClearReadyForgotten ==
    /\ ctl = "clear_ready"
    /\ late' = {m \in Runs : Watching(m)}
    /\ ctl' = "clear_error"
    /\ UNCHANGED <<attributes, runs, result, srv, target, mon, wait, abandoned>>

\* start_server without self._server_error = None.
ClearErrorForgotten ==
    /\ ctl = "clear_error"
    /\ ctl' = "assign_thread"
    /\ UNCHANGED <<attributes, runs, result, srv, target, mon, wait, history>>

\* start_server keeps the thread in a local variable only.
AssignThreadForgotten ==
    /\ ctl = "assign_thread"
    /\ ctl' = "spawn_server"
    /\ UNCHANGED <<attributes, runs, result, srv, target, mon, wait, history>>

\* start_server raises the error once and forgets it.
EndDelayForgetsError ==
    /\ ctl = "delay"
    /\ result' = IF serverError # None THEN "start_raised" ELSE "started"
    /\ serverError' = None
    /\ ctl' = "idle"
    /\ UNCHANGED <<server, serverThread, ready, runs, srv, target, mon, wait, history>>

\* stop_server without the finally clause: an exception of stop() goes to the
\* caller at once.
RaiseKeepsServer ==
    /\ ctl = "stopping"
    /\ result' = "stop_raised"
    /\ ctl' = "idle"
    /\ UNCHANGED <<attributes, runs, srv, target, mon, wait, history>>

\* A monitor that loops for ever instead of while the thread is alive.
FirstReadForEver(m) ==
    /\ mon[m] = "first_read"
    /\ mon' = [mon EXCEPT ![m] = "read_error"]
    /\ UNCHANGED <<attributes, control, srv, target, wait, history>>

\* A monitor that probes only once.
ProbeFailsOnce(m) ==
    /\ mon[m] = "probe"
    /\ mon' = [mon EXCEPT ![m] = "ended"]
    /\ UNCHANGED <<attributes, control, srv, target, wait, history>>

\* The flag is set without waking the waiters.
SetReadySilently(m) ==
    /\ mon[m] = "set"
    /\ ready' = TRUE
    /\ mon' = [mon EXCEPT ![m] = "done"]
    /\ UNCHANGED <<server, serverThread, serverError, control, srv, target, wait, history>>

-----------------------------------------------------------------------------
(* start_server, by the controller.  Nothing stops a caller from starting  *)
(* again without a stop, or after a start that raised.  An import or a     *)
(* constructor that raises leaves every attribute as it was.               *)

\* self._server = server_class(...): the previous backend, if any, is dropped.
StartServer ==
    /\ ctl = "idle"
    /\ runs < MaxStarts
    /\ runs' = runs + 1
    /\ server' = runs'
    /\ abandoned' = IF ThreadAlive THEN abandoned \cup {serverThread} ELSE abandoned
    /\ ctl' = "clear_ready"
    /\ UNCHANGED <<serverThread, serverError, ready, result, srv, target, mon, wait, late>>

\* self._ready_event.clear()
ClearReady ==
    /\ ctl = "clear_ready"
    /\ ready' = FALSE
    /\ late' = {m \in Runs : Watching(m)}
    /\ ctl' = "clear_error"
    /\ UNCHANGED <<server, serverThread, serverError, runs, result, srv, target, mon, wait, abandoned>>

\* self._server_error = None
ClearError ==
    /\ ctl = "clear_error"
    /\ serverError' = None
    /\ ctl' = "assign_thread"
    /\ UNCHANGED <<server, serverThread, ready, runs, result, srv, target, mon, wait, history>>

\* self._server_thread = server_thread: made, but not alive yet.
AssignThread ==
    /\ ctl = "assign_thread"
    /\ serverThread' = runs
    /\ ctl' = "spawn_server"
    /\ UNCHANGED <<server, serverError, ready, runs, result, srv, target, mon, wait, history>>

\* server_thread.start()
SpawnServer ==
    /\ ctl = "spawn_server"
    /\ srv' = [srv EXCEPT ![runs] = "spawned"]
    /\ ctl' = "spawn_monitor"
    /\ UNCHANGED <<attributes, runs, result, target, mon, wait, history>>

\* self._start_ready_monitor(...); _ready_monitor_thread is never read.
SpawnMonitor ==
    /\ ctl = "spawn_monitor"
    /\ mon' = [mon EXCEPT ![runs] = "first_read"]
    /\ ctl' = "delay"
    /\ UNCHANGED <<attributes, runs, result, srv, target, wait, history>>

\* The sleep ends: a start-up failure recorded by now is raised.
EndDelay ==
    /\ ctl = "delay"
    /\ result' = IF serverError # None THEN "start_raised" ELSE "started"
    /\ ctl' = "idle"
    /\ UNCHANGED <<attributes, runs, srv, target, mon, wait, history>>

StartStep ==
    \/ StartServer \/ ClearReady \/ ClearError \/ AssignThread
    \/ SpawnServer \/ SpawnMonitor \/ EndDelay

-----------------------------------------------------------------------------
(* stop_server, by the controller.  With _server None it returns at once.  *)

\* stop = getattr(self._server, "stop", None), then stop() begins.
StopServer ==
    /\ ctl = "idle"
    /\ server # None
    /\ ctl' = "stopping"
    /\ UNCHANGED <<attributes, runs, result, srv, target, mon, wait, history>>

StopReturns ==
    /\ ctl = "stopping"
    /\ ctl' = "check_thread"
    /\ UNCHANGED <<attributes, runs, result, srv, target, mon, wait, history>>

\* The exception goes through the finally clause and then to the caller.
StopRaises ==
    /\ ctl = "stopping"
    /\ result' = "stop_raised"
    /\ ctl' = "fin_ready"
    /\ UNCHANGED <<attributes, runs, srv, target, mon, wait, history>>

\* The thread is joined only while it is alive.
CheckThread ==
    /\ ctl = "check_thread"
    /\ IF ThreadAlive
       THEN ctl' = "joining" /\ UNCHANGED result
       ELSE ctl' = "fin_ready" /\ result' = "stopped"
    /\ UNCHANGED <<attributes, runs, srv, target, mon, wait, history>>

\* join(timeout) and the second is_alive(): the join ends with the thread, or
\* at any time by its timeout, and then a thread still alive only costs a
\* warning.
Join ==
    /\ ctl = "joining"
    /\ result' = IF ThreadAlive THEN "join_timeout" ELSE "stopped"
    /\ ctl' = "fin_ready"
    /\ UNCHANGED <<attributes, runs, srv, target, mon, wait, history>>

\* The finally clause, one assignment at a time.
FinReady ==
    /\ ctl = "fin_ready"
    /\ ready' = FALSE
    /\ ctl' = "fin_server"
    /\ UNCHANGED <<server, serverThread, serverError, runs, result, srv, target, mon, wait, history>>

FinServer ==
    /\ ctl = "fin_server"
    /\ server' = None
    /\ abandoned' = IF ThreadAlive THEN abandoned \cup {serverThread} ELSE abandoned
    /\ ctl' = "fin_thread"
    /\ UNCHANGED <<serverThread, serverError, ready, runs, result, srv, target, mon, wait, late>>

FinThread ==
    /\ ctl = "fin_thread"
    /\ serverThread' = None
    /\ ctl' = "fin_error"
    /\ UNCHANGED <<server, serverError, ready, runs, result, srv, target, mon, wait, history>>

FinError ==
    /\ ctl = "fin_error"
    /\ serverError' = None
    /\ ctl' = "idle"
    /\ UNCHANGED <<server, serverThread, ready, runs, result, srv, target, mon, wait, history>>

StopStep ==
    \/ StopServer \/ StopReturns \/ StopRaises \/ CheckThread \/ Join
    \/ FinReady \/ FinServer \/ FinThread \/ FinError

-----------------------------------------------------------------------------
(* _run_server, by server thread r.  It reads self._server twice: once to  *)
(* check it and once to call start().                                      *)

ReadServer(r) ==
    /\ srv[r] = "spawned"
    /\ srv' = [srv EXCEPT ![r] = IF server = None THEN "raising" ELSE "checked"]
    /\ UNCHANGED <<attributes, control, target, mon, wait, history>>

\* None has no start(): the AttributeError is caught like any other.
CallStart(r) ==
    /\ srv[r] = "checked"
    /\ target' = [target EXCEPT ![r] = server]
    /\ srv' = [srv EXCEPT ![r] = IF server = None THEN "raising" ELSE "running"]
    /\ UNCHANGED <<attributes, control, mon, wait, history>>

StartReturns(r) ==
    /\ srv[r] = "running"
    /\ srv' = [srv EXCEPT ![r] = "exited"]
    /\ UNCHANGED <<attributes, control, target, mon, wait, history>>

StartRaises(r) ==
    /\ srv[r] = "running"
    /\ srv' = [srv EXCEPT ![r] = "raising"]
    /\ UNCHANGED <<attributes, control, target, mon, wait, history>>

\* self._server_error = ...
StoreError(r) ==
    /\ srv[r] = "raising"
    /\ serverError' = r
    /\ srv' = [srv EXCEPT ![r] = "stored"]
    /\ UNCHANGED <<server, serverThread, ready, control, target, mon, wait, history>>

\* The thread logs the exception, still alive, and ends.
EndFailed(r) ==
    /\ srv[r] = "stored"
    /\ srv' = [srv EXCEPT ![r] = "failed"]
    /\ UNCHANGED <<attributes, control, target, mon, wait, history>>

FailStep(r) == StoreError(r) \/ EndFailed(r)
ServerStep(r) == ReadServer(r) \/ CallStart(r) \/ FailStep(r)

-----------------------------------------------------------------------------
(* _monitor_server_readiness, by monitor m.  The loop condition reads      *)
(* self._server_thread twice, and both reads see the current run's thread, *)
(* which need not be the thread the monitor was started for.               *)

FirstRead(m) ==
    /\ mon[m] = "first_read"
    /\ mon' = [mon EXCEPT ![m] = IF serverThread = None THEN "ended" ELSE "second_read"]
    /\ UNCHANGED <<attributes, control, srv, target, wait, history>>

\* None has no is_alive(): the AttributeError ends the monitor's thread.
SecondRead(m) ==
    /\ mon[m] = "second_read"
    /\ mon' = [mon EXCEPT ![m] = IF serverThread = None THEN "crashed"
                                 ELSE IF Alive(serverThread) THEN "read_error"
                                 ELSE "ended"]
    /\ UNCHANGED <<attributes, control, srv, target, wait, history>>

ReadError(m) ==
    /\ mon[m] = "read_error"
    /\ mon' = [mon EXCEPT ![m] = IF serverError # None THEN "ended" ELSE "probe"]
    /\ UNCHANGED <<attributes, control, srv, target, wait, history>>

ProbeSucceeds(m) ==
    /\ mon[m] = "probe"
    /\ mon' = [mon EXCEPT ![m] = "set"]
    /\ UNCHANGED <<attributes, control, srv, target, wait, history>>

\* The sleep before the next round changes nothing.
ProbeFails(m) ==
    /\ mon[m] = "probe"
    /\ mon' = [mon EXCEPT ![m] = "first_read"]
    /\ UNCHANGED <<attributes, control, srv, target, wait, history>>

\* Event.set() wakes every waiter, and each then returns True even if the flag
\* is cleared before it runs again.
SetReady(m) ==
    /\ mon[m] = "set"
    /\ ready' = TRUE
    /\ wait' = [w \in Waiters |-> IF wait[w] \in {"untimed", "timed"} THEN "true" ELSE wait[w]]
    /\ mon' = [mon EXCEPT ![m] = "done"]
    /\ UNCHANGED <<server, serverThread, serverError, control, srv, target, history>>

MonitorStep(m) == FirstRead(m) \/ SecondRead(m) \/ ReadError(m) \/ SetReady(m)
ProbeStep(m) == ProbeSucceeds(m) \/ ProbeFails(m)

-----------------------------------------------------------------------------
(* wait_until_ready, by any thread, with or without a timeout.             *)

WaitCall(w) ==
    /\ wait[w] \notin {"untimed", "timed"}
    /\ \E kind \in {"untimed", "timed"} :
          wait' = [wait EXCEPT ![w] = IF ready THEN "true" ELSE kind]
    /\ UNCHANGED <<attributes, control, srv, target, mon, history>>

\* Event.wait returns False, and then the error is read.
WaitTimesOut(w) ==
    /\ wait[w] = "timed"
    /\ wait' = [wait EXCEPT ![w] = IF serverError # None THEN "raised" ELSE "false"]
    /\ UNCHANGED <<attributes, control, srv, target, mon, history>>

WaitStep(w) == WaitCall(w) \/ WaitTimesOut(w)

-----------------------------------------------------------------------------
\* What the backend decides: when start() ends and how.
BackendStep(r) == StartReturns(r) \/ StartRaises(r)

Next ==
    \/ StartStep
    \/ StopStep
    \/ \E r \in Runs : ServerStep(r) \/ BackendStep(r)
    \/ \E m \in Runs : MonitorStep(m) \/ ProbeStep(m)
    \/ \E w \in Waiters : WaitStep(w)

\* The controller goes on inside a call it has begun; only whether it makes
\* another call, and whether the backend's stop() ends, is left to others.
ControllerGoesOn ==
    \/ ClearReady \/ ClearError \/ AssignThread \/ SpawnServer \/ SpawnMonitor
    \/ EndDelay \/ CheckThread \/ Join
    \/ FinReady \/ FinServer \/ FinThread \/ FinError

\* Every thread that can run is scheduled, and a probe ends because its socket
\* has a timeout.
Fairness ==
    /\ WF_vars(ControllerGoesOn)
    /\ \A r \in Runs : WF_vars(ServerStep(r))
    /\ \A m \in Runs : WF_vars(MonitorStep(m)) /\ WF_vars(ProbeStep(m))

Spec == Init /\ [][Next]_vars
FairSpec == Spec /\ Fairness

-----------------------------------------------------------------------------
(* Properties *)

\* Every attribute and every thread's position stays in its range.
TypeOK ==
    /\ server \in Runs \cup {None}
    /\ serverThread \in Runs \cup {None}
    /\ serverError \in Runs \cup {None}
    /\ ready \in BOOLEAN
    /\ ctl \in CtlStates
    /\ runs \in 0..MaxStarts
    /\ result \in Results
    /\ srv \in [Runs -> SrvStates]
    /\ target \in [Runs -> Runs \cup {None}]
    /\ mon \in [Runs -> MonStates]
    /\ wait \in [Waiters -> WaitStates]
    /\ abandoned \in SUBSET Runs
    /\ late \in SUBSET Runs

\* _server_error blames the run _server_thread refers to: a wrong run is
\* blamed only by a thread that was alive when the Starter let go of its
\* backend, or just before stop_server clears the error.
ErrorBlamesCurrentRun ==
    serverError \notin {None, serverThread} =>
        serverError \in abandoned \/ ctl = "fin_error"

\* A server thread starts the backend made for it: only a thread the Starter
\* let go of while it was alive can start another run's backend, through the
\* second read of self._server in _run_server.
StartsOwnBackend ==
    \A r \in Runs : target[r] \in {None, r} \/ r \in abandoned

\* A failure of the current run can be seen: once its thread has stored an
\* exception, _server_error is set until the next start or stop clears it, so
\* start_server and wait_until_ready can raise it.
FailureVisible ==
    serverThread # None /\ ctl # "assign_thread" /\ srv[serverThread] \in {"stored", "failed"}
        => serverError # None

\* The readiness monitor does not give up on a live run: while the current
\* thread has not failed and is alive its own monitor has not ended or crashed,
\* unless a thread let go of earlier can still store an error.
MonitorWatchesLiveRun ==
    /\ ThreadAlive /\ srv[serverThread] # "stored"
    /\ mon[serverThread] \in {"ended", "crashed"}
    => abandoned # {}

\* ready_event belongs to the last run: after start_server has cleared it, it
\* is set only by the monitor of that run, or by one that was still running
\* when it was cleared.
ReadyFromCurrentMonitor ==
    ready /\ ctl # "clear_ready" =>
        \E m \in Runs : m \in {runs} \cup late /\ mon[m] = "done"

\* stop_server comes back and has let go of the server and its thread once the
\* backend's stop() has returned or raised: the join has a timeout, so a server
\* thread that never ends cannot block the caller, and the finally clause is gone
\* through on every way.
StopTerminates ==
    ctl = "check_thread" \/ (result = "stop_raised" /\ ctl \in {"fin_ready", "idle"})
        ~> ctl = "idle" /\ server = None /\ serverThread = None

\* Once stop_server has dropped the thread, every monitor ends, unless another
\* start_server gives it a new thread to watch.
MonitorsEnd ==
    \A m \in Runs : serverThread = None /\ Watching(m) ~> ~Watching(m) \/ serverThread # None
=============================================================================
