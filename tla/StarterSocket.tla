---------------------------- MODULE StarterSocket ----------------------------
(***************************************************************************)
(* A Starter for protocol "enip" or "bacnet": the Starter's threads run    *)
(* the start() and stop() of SocketServer, and its monitors probe the port *)
(* the servers bind.  A run of the Starter is also the name of its backend *)
(* object, of its server thread, and of the socket server that thread      *)
(* makes, so self._server of a backend is a run or None.                   *)
(***************************************************************************)
EXTENDS Starter

VARIABLES
    transport,   \* "tcp" for protocol "enip", "udp" for "bacnet"
    phase,       \* where server thread r is in the backend's start()
    registered,  \* self._server of each backend
    request,     \* shutdown_request of the socket server of thread r
    stopPc,      \* where the controller is in the backend's stop()
    stopOf,      \* backend it called stop() of
    stopping,    \* socket server whose loop it waits for
    lost         \* history: runs that were replaced while alive, or whose
                 \* server was not the backend's when its stop() was called

Controller == "controller"

\* The backend object whose start() a server thread called is the Starter's target.
SS == INSTANCE SocketServer WITH
        Backends <- Runs, Threads <- Runs, Stoppers <- {Controller}, NoThread <- None,
        backend <- target

socketVars == <<transport, phase, registered, request, stopPc, stopOf, stopping>>
allVars == <<vars, socketVars, lost>>

SocketInit ==
    /\ Init
    /\ SS!InitWith(None)
    /\ lost = {}

-----------------------------------------------------------------------------
(* The controller *)

StartReplaces ==
    /\ StartServer
    /\ lost' = IF ThreadAlive THEN lost \cup {serverThread} ELSE lost
    /\ UNCHANGED socketVars

\* The controller's own steps, which touch no backend.
ControllerStep ==
    /\ ControllerGoesOn
    /\ UNCHANGED <<socketVars, lost>>

\* stop() begins: with self._server None it has nothing to stop, and with
\* another thread's server there it stops that one.
StopCalled ==
    /\ StopServer
    /\ SS!CallStop(Controller, server)
    /\ lost' = IF registered[server] # server /\ ThreadAlive
               THEN lost \cup {server} ELSE lost

BackendStop ==
    /\ SS!StopStep(Controller)
    /\ UNCHANGED <<vars, lost>>

StopEnds ==
    /\ \/ stopPc[Controller] = "done" /\ StopReturns
       \/ stopPc[Controller] = "raised" /\ StopRaises
    /\ UNCHANGED <<socketVars, lost>>

-----------------------------------------------------------------------------
(* Server threads *)

ThreadStep(r) ==
    /\ ReadServer(r) \/ FailStep(r) \/ (CallStart(r) /\ server = None)
    /\ UNCHANGED <<socketVars, lost>>

StartCalled(r) ==
    /\ server # None
    /\ CallStart(r)
    /\ SS!CallStart(r, server)
    /\ UNCHANGED lost

BackendStart(r) ==
    /\ srv[r] = "running"
    /\ SS!StartStep(r)
    /\ UNCHANGED <<vars, lost>>

\* Mutant: start() returns without server_close().
StartEndsUnclosed(r) ==
    /\ \/ phase[r] = "closing" /\ StartReturns(r)
       \/ phase[r] = "raised" /\ StartRaises(r)
    /\ UNCHANGED <<socketVars, lost>>

StartEnds(r) ==
    /\ \/ phase[r] = "returned" /\ StartReturns(r)
       \/ phase[r] = "raised" /\ StartRaises(r)
    /\ UNCHANGED <<socketVars, lost>>

-----------------------------------------------------------------------------
(* Monitors *)

\* Mutant: bacnet, too, is probed by whether the port is bound.
ReachableWhenBound == \E r \in Runs : SS!Open(r)

\* A TCP connect succeeds as soon as a socket listens on the port; Who-Is is
\* answered only by a loop that serves.  The port does not tell whose it is.
Reachable ==
    \E r \in Runs : IF transport = "tcp" THEN SS!Open(r) ELSE phase[r] = "serving"

WatchStep(m) ==
    /\ MonitorStep(m)
    /\ UNCHANGED <<socketVars, lost>>

ProbeAnswered(m) ==
    /\ Reachable
    /\ ProbeSucceeds(m)
    /\ UNCHANGED <<socketVars, lost>>

\* The probe's socket timeout may expire although the server is up.
ProbeUnanswered(m) ==
    /\ ProbeFails(m)
    /\ UNCHANGED <<socketVars, lost>>

Wait(w) ==
    /\ WaitStep(w)
    /\ UNCHANGED <<socketVars, lost>>

SocketNext ==
    \/ StartReplaces \/ ControllerStep \/ StopCalled \/ BackendStop \/ StopEnds
    \/ \E r \in Runs : ThreadStep(r) \/ StartCalled(r) \/ BackendStart(r) \/ StartEnds(r)
    \/ \E m \in Runs : WatchStep(m) \/ ProbeAnswered(m) \/ ProbeUnanswered(m)
    \/ \E w \in Waiters : Wait(w)

\* Every thread that can run is scheduled.  A probe of a server that stays up
\* is not unlucky for ever.
SocketFairness ==
    /\ WF_allVars(ControllerStep \/ BackendStop \/ StopEnds)
    /\ \A r \in Runs :
          WF_allVars(ThreadStep(r) \/ StartCalled(r) \/ BackendStart(r) \/ StartEnds(r))
    /\ \A m \in Runs :
          /\ WF_allVars(WatchStep(m) \/ ProbeUnanswered(m))
          /\ SF_allVars(ProbeAnswered(m))

SocketSpec == SocketInit /\ [][SocketNext]_allVars
FairSocketSpec == SocketSpec /\ SocketFairness

-----------------------------------------------------------------------------
(* Properties *)

\* A server that goes on serving behind the Starter's back has one of three
\* causes: its run was replaced by another start_server without a stop; its
\* backend's stop() came before the run had set self._server and did nothing, or
\* stopped another run's server; or it shares a backend with such a run.  A join
\* that merely times out never leaves a server behind.
LeakedServerWasLost ==
    \A r \in Runs : SS!InLoop(r) /\ r # serverThread =>
        \E k \in lost : k = r \/ target[k] = target[r]

\* Stopping raises no AttributeError: one controller asks each backend to stop
\* once, so self._server cannot go None between the two reads, unless a lost
\* thread runs the same backend.
StopRaceNeedsLostRun == stopPc[Controller] = "raised" => lost # {}

\* ready_event is true to the port: if no thread was let go of while alive and
\* no earlier monitor was still probing, the current run's server has bound its
\* port (enip) or has been serving (bacnet).
ReadyMeansReachable ==
    ready /\ ctl # "clear_ready" /\ abandoned = {} /\ late = {} =>
        IF transport = "tcp" THEN SS!Open(runs) \/ SS!LoopOver(runs)
        ELSE phase[runs] = "serving" \/ SS!LoopOver(runs)

\* A clean stop leaves the port free for the next start: if every thread ended
\* before stop_server gave up on it, no socket is open afterwards.
CleanStopFreesPort ==
    ctl = "idle" /\ server = None /\ abandoned = {} => \A r \in Runs : ~SS!Open(r)

\* stop_server always comes back: neither the backend's shutdown() nor the join
\* waits for ever.
StopServerReturns == ctl = "stopping" ~> ctl = "idle"

\* wait_until_ready without a timeout returns once the current server serves,
\* unless the run ends or an earlier run was lost.
WaiterIsServed ==
    \A w \in Waiters, r \in Runs :
        wait[w] = "untimed" /\ serverThread = r /\ phase[r] = "serving"
            ~> wait[w] # "untimed" \/ serverThread # r \/ phase[r] # "serving" \/ lost # {}

\* What the starter's tests assert of stop_server, that ready_event is not set
\* once it has returned: here after a stop that saw the server thread end.
NotReadyAfterCleanStop ==
    ctl = "idle" /\ server = None /\ result = "stopped" => ~ready
=============================================================================
