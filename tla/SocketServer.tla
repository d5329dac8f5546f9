---------------------------- MODULE SocketServer ----------------------------
(***************************************************************************)
(* The start() and stop() methods EnipServer and BacnetServer share, line  *)
(* for line: start() makes a socketserver server (its constructor binds    *)
(* the port), publishes it in self._server, runs its serve_forever loop    *)
(* and withdraws it again; stop() asks the published server to shut down   *)
(* and waits for its loop.  No lock protects self._server.                 *)
(*                                                                         *)
(* A thread makes one call of start(), and the socket server that call     *)
(* makes bears the name of the thread.  The loop itself (the two flags of  *)
(* socketserver.BaseServer) is the library's, as start() and stop() use it.*)
(* A handler that raises is logged by the library, so the loop ends on     *)
(* request, or in the main thread on a KeyboardInterrupt.                  *)
(***************************************************************************)
EXTENDS Naturals

CONSTANTS
    Backends,  \* EnipServer or BacnetServer objects, all on one port
    Threads,   \* threads that may call start(), each once
    Stoppers,  \* threads that call stop()
    NoThread   \* Python's None for self._server

ASSUME SocketServerAssumption == NoThread \notin Threads

VARIABLES
    transport,   \* "tcp" (EnipServer) or "udp" (BacnetServer)
    phase,       \* where each thread is in start()
    backend,     \* backend whose start() the thread called
    registered,  \* self._server of each backend: a thread's server, or NoThread
    request,     \* shutdown_request flag of each thread's server
    stopPc,      \* where each stopper is in stop()
    stopOf,      \* backend whose stop() the stopper called
    stopping     \* server whose loop the stopper waits for, or NoThread

startVars == <<phase, backend, registered>>
stopVars == <<stopPc, stopOf, stopping>>
ssvars == <<transport, startVars, request, stopVars>>

Phases == {"idle", "binding", "bound", "registered", "serving",
           "closing", "closed", "returned", "raised"}
StopPhases == {"idle", "calling", "waiting", "done", "raised"}

\* The socket is bound (and listens) from the constructor to server_close().
Open(t) == phase[t] \in {"bound", "registered", "serving", "closing"}
\* serve_forever has been or is about to be entered.
InLoop(t) == phase[t] \in {"registered", "serving"}
\* serve_forever has set its is_shut_down event.
LoopOver(t) == phase[t] \in {"closing", "closed", "returned"}

\* allow_reuse_address lets two UDP sockets bind one port, never two TCP
\* sockets of which one listens.
PortFree(t) == transport = "tcp" => \A u \in Threads \ {t} : ~Open(u)

InitWith(b) ==
    /\ transport \in {"tcp", "udp"}
    /\ phase = [t \in Threads |-> "idle"]
    /\ backend = [t \in Threads |-> b]
    /\ registered = [i \in Backends |-> NoThread]
    /\ request = [t \in Threads |-> FALSE]
    /\ stopPc = [s \in Stoppers |-> "idle"]
    /\ stopOf = [s \in Stoppers |-> b]
    /\ stopping = [s \in Stoppers |-> NoThread]

-----------------------------------------------------------------------------
(* Mutants: steps below with one plausible bug each, which the properties  *)
(* must notice.  No specification uses them.                               *)

\* start() without self._server = server.
RegisterForgotten(t) ==
    /\ phase[t] = "bound"
    /\ phase' = [phase EXCEPT ![t] = "registered"]
    /\ UNCHANGED <<transport, backend, registered, request, stopVars>>

\* serve_forever resets the request when it is entered, not when it is left.
ServeResets(t) ==
    /\ phase[t] = "registered"
    /\ request' = [request EXCEPT ![t] = FALSE]
    /\ phase' = [phase EXCEPT ![t] = "serving"]
    /\ UNCHANGED <<transport, backend, registered, stopVars>>

\* The request is reset to None.
LeaveLoopNone(t) ==
    /\ phase[t] = "serving"
    /\ request[t]
    /\ request' = [request EXCEPT ![t] = NoThread]
    /\ phase' = [phase EXCEPT ![t] = "closing"]
    /\ UNCHANGED <<transport, backend, registered, stopVars>>

\* The loop also ends unasked, on a handler's exception in any thread.
LeaveLoopUnasked(t) ==
    /\ phase[t] = "serving"
    /\ request' = [request EXCEPT ![t] = FALSE]
    /\ phase' = [phase EXCEPT ![t] = "closing"]
    /\ UNCHANGED <<transport, backend, registered, stopVars>>

\* stop() asks for the end of the loop and does not wait for it.
ShutdownNoWait(s) ==
    /\ stopPc[s] = "calling"
    /\ LET o == registered[stopOf[s]] IN
       IF o = NoThread
       THEN stopPc' = [stopPc EXCEPT ![s] = "raised"] /\ UNCHANGED request
       ELSE stopPc' = [stopPc EXCEPT ![s] = "done"] /\ request' = [request EXCEPT ![o] = TRUE]
    /\ UNCHANGED <<transport, startVars, stopOf, stopping>>

-----------------------------------------------------------------------------
(* start(), by thread t *)

CallStart(t, i) ==
    /\ phase[t] = "idle"
    /\ phase' = [phase EXCEPT ![t] = "binding"]
    /\ backend' = [backend EXCEPT ![t] = i]
    /\ UNCHANGED <<transport, registered, request, stopVars>>

\* The constructor binds and activates the socket, or raises OSError.
Bind(t) ==
    /\ phase[t] = "binding"
    /\ phase' = [phase EXCEPT ![t] = IF PortFree(t) THEN "bound" ELSE "raised"]
    /\ UNCHANGED <<transport, backend, registered, request, stopVars>>

\* self._server = server
Register(t) ==
    /\ phase[t] = "bound"
    /\ registered' = [registered EXCEPT ![backend[t]] = t]
    /\ phase' = [phase EXCEPT ![t] = "registered"]
    /\ UNCHANGED <<transport, backend, request, stopVars>>

Serve(t) ==
    /\ phase[t] = "registered"
    /\ phase' = [phase EXCEPT ![t] = "serving"]
    /\ UNCHANGED <<transport, backend, registered, request, stopVars>>

\* The loop sees the request, resets it and reports that it is over.
LeaveLoop(t) ==
    /\ phase[t] = "serving"
    /\ request[t]
    /\ request' = [request EXCEPT ![t] = FALSE]
    /\ phase' = [phase EXCEPT ![t] = "closing"]
    /\ UNCHANGED <<transport, backend, registered, stopVars>>

\* A KeyboardInterrupt leaves the loop, which resets the request and reports that
\* it is over on this way, too, and start() goes through its finally clause.
Interrupt(t) ==
    /\ phase[t] = "serving"
    /\ request' = [request EXCEPT ![t] = FALSE]
    /\ phase' = [phase EXCEPT ![t] = "closing"]
    /\ UNCHANGED <<transport, backend, registered, stopVars>>

\* server.server_close()
CloseSocket(t) ==
    /\ phase[t] = "closing"
    /\ phase' = [phase EXCEPT ![t] = "closed"]
    /\ UNCHANGED <<transport, backend, registered, request, stopVars>>

\* self._server = None, whichever server it refers to by now.
Unregister(t) ==
    /\ phase[t] = "closed"
    /\ registered' = [registered EXCEPT ![backend[t]] = NoThread]
    /\ phase' = [phase EXCEPT ![t] = "returned"]
    /\ UNCHANGED <<transport, backend, request, stopVars>>

StartStep(t) ==
    \/ Bind(t) \/ Register(t) \/ Serve(t) \/ LeaveLoop(t)
    \/ CloseSocket(t) \/ Unregister(t)

-----------------------------------------------------------------------------
(* stop(), by stopper s.  self._server is read twice: for the check, and   *)
(* for the call of shutdown().                                             *)

CallStop(s, i) ==
    /\ stopPc[s] \notin {"calling", "waiting"}
    /\ stopPc' = [stopPc EXCEPT ![s] = IF registered[i] = NoThread THEN "done" ELSE "calling"]
    /\ stopOf' = [stopOf EXCEPT ![s] = i]
    /\ stopping' = [stopping EXCEPT ![s] = NoThread]
    /\ UNCHANGED <<transport, startVars, request>>

\* None has no shutdown(): AttributeError.
Shutdown(s) ==
    /\ stopPc[s] = "calling"
    /\ LET o == registered[stopOf[s]] IN
       IF o = NoThread
       THEN /\ stopPc' = [stopPc EXCEPT ![s] = "raised"]
            /\ UNCHANGED <<request, stopping>>
       ELSE /\ stopPc' = [stopPc EXCEPT ![s] = "waiting"]
            /\ stopping' = [stopping EXCEPT ![s] = o]
            /\ request' = [request EXCEPT ![o] = TRUE]
    /\ UNCHANGED <<transport, startVars, stopOf>>

\* is_shut_down.wait()
AwaitLoop(s) ==
    /\ stopPc[s] = "waiting"
    /\ LoopOver(stopping[s])
    /\ stopPc' = [stopPc EXCEPT ![s] = "done"]
    /\ UNCHANGED <<transport, startVars, request, stopOf, stopping>>

StopStep(s) == Shutdown(s) \/ AwaitLoop(s)

-----------------------------------------------------------------------------
\* Every attribute and every thread's position stays in its range.
TypeOK ==
    /\ transport \in {"tcp", "udp"}
    /\ phase \in [Threads -> Phases]
    /\ backend \in [Threads -> Backends]
    /\ registered \in [Backends -> Threads \cup {NoThread}]
    /\ request \in [Threads -> BOOLEAN]
    /\ stopPc \in [Stoppers -> StopPhases]
    /\ stopOf \in [Stoppers -> Backends]
    /\ stopping \in [Stoppers -> Threads \cup {NoThread}]
=============================================================================
