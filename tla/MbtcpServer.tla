----------------------------- MODULE MbtcpServer -----------------------------
(***************************************************************************)
(* start() and stop() of MbtcpServer.  start() makes an asyncio loop and a *)
(* pymodbus server and runs the server in the loop; stop(), in another     *)
(* thread, has the loop run the server's shutdown() and waits five seconds *)
(* for it.  They share _server and _loop, which stop() reads twice each.   *)
(* One thread calls start(), again only when it has returned.              *)
(*                                                                         *)
(* The k-th call of start() makes loop k and server k.  asyncio and        *)
(* pymodbus are external: a loop that runs carries out what was scheduled  *)
(* within the five seconds, and shutdown() ends serve_forever.             *)
(***************************************************************************)
EXTENDS Naturals

CONSTANTS
    Stoppers,  \* threads that call stop()
    MaxStarts  \* bound on the calls of start()

None == 0
Runs == 1..MaxStarts

VARIABLES
    starts,  \* calls of start() so far
    pc,      \* where start() is
    server,  \* run whose server _server refers to, or None
    loop,    \* run whose loop _loop refers to, or None
    asked,   \* shutdown() was carried out for the current server
    stop,    \* where each stopper is in stop()
    coro,    \* server whose shutdown() the stopper has called, or None
    queue,   \* loop the stopper has scheduled it in, or None
    \* history, read by no step
    beaten   \* stoppers whose service was ending, or began to end, during their stop()

vars == <<starts, pc, server, loop, asked, stop, coro, queue, beaten>>

Init ==
    /\ starts = 0
    /\ pc = "idle"
    /\ server = None
    /\ loop = None
    /\ asked = FALSE
    /\ stop = [s \in Stoppers |-> "idle"]
    /\ coro = [s \in Stoppers |-> None]
    /\ queue = [s \in Stoppers |-> None]
    /\ beaten = {}

\* The loops of earlier runs are closed, the current one once start() closed it.
LoopClosed(k) == k < starts \/ pc \in {"unset_server", "unset_loop", "idle"}
\* run_until_complete(serve_forever) is under way, or about to be.
LoopRuns(k) == k = starts /\ pc \in {"created", "serving"}

InStop == {s \in Stoppers : stop[s] \in {"read_loop", "call", "schedule", "waiting"}}
Ending == asked \/ pc \notin {"created", "serving"}

-----------------------------------------------------------------------------
\* Mutant: the new loop is taken for the next run's.
StartAhead ==
    /\ pc = "idle"
    /\ starts < MaxStarts
    /\ starts' = starts + 1
    /\ loop' = starts' + 1
    /\ asked' = FALSE
    /\ pc' = "looped"
    /\ UNCHANGED <<server, stop, coro, queue, beaten>>

\* self._loop = asyncio.new_event_loop()
Start ==
    /\ pc = "idle"
    /\ starts < MaxStarts
    /\ starts' = starts + 1
    /\ loop' = starts'
    /\ asked' = FALSE
    /\ pc' = "looped"
    /\ UNCHANGED <<server, stop, coro, queue, beaten>>

\* self._server = run_until_complete(self._create_server()), which may raise.
CreateServer ==
    /\ pc = "looped"
    /\ \/ server' = starts /\ pc' = "created"
       \/ pc' = "closing" /\ UNCHANGED server
    /\ UNCHANGED <<starts, loop, asked, stop, coro, queue, beaten>>

\* serve_forever binds the port and serves, or fails and ends.
Serve ==
    /\ pc = "created"
    /\ \/ pc' = "serving" /\ UNCHANGED beaten
       \/ pc' = "closing" /\ beaten' = beaten \cup InStop
    /\ UNCHANGED <<starts, server, loop, asked, stop, coro, queue>>

ServeEnds ==
    /\ pc = "serving"
    /\ asked
    /\ pc' = "closing"
    /\ UNCHANGED <<starts, server, loop, asked, stop, coro, queue, beaten>>

\* A KeyboardInterrupt goes through the finally clause.
Interrupt ==
    /\ pc = "serving"
    /\ pc' = "closing"
    /\ beaten' = beaten \cup InStop
    /\ UNCHANGED <<starts, server, loop, asked, stop, coro, queue>>

CloseLoop ==
    /\ pc = "closing"
    /\ pc' = "unset_server"
    /\ UNCHANGED <<starts, server, loop, asked, stop, coro, queue, beaten>>

UnsetServer ==
    /\ pc = "unset_server"
    /\ server' = None
    /\ pc' = "unset_loop"
    /\ UNCHANGED <<starts, loop, asked, stop, coro, queue, beaten>>

UnsetLoop ==
    /\ pc = "unset_loop"
    /\ loop' = None
    /\ pc' = "idle"
    /\ UNCHANGED <<starts, server, asked, stop, coro, queue, beaten>>

-----------------------------------------------------------------------------
At(s, step) == stop[s] = step
Goto(s, step) == stop' = [stop EXCEPT ![s] = step]

\* if self._server is None
Stop(s) ==
    /\ stop[s] \in {"idle", "nothing", "done", "raised"}
    /\ Goto(s, IF server = None THEN "nothing" ELSE "read_loop")
    /\ coro' = [coro EXCEPT ![s] = None]
    /\ queue' = [queue EXCEPT ![s] = None]
    /\ beaten' = IF Ending THEN beaten \cup {s} ELSE beaten \ {s}
    /\ UNCHANGED <<starts, pc, server, loop, asked>>

\* or self._loop is None
ReadLoop(s) ==
    /\ At(s, "read_loop")
    /\ Goto(s, IF loop = None THEN "nothing" ELSE "call")
    /\ UNCHANGED <<starts, pc, server, loop, asked, coro, queue, beaten>>

\* self._server.shutdown() makes the coroutine; None has no shutdown().
CallShutdown(s) ==
    /\ At(s, "call")
    /\ Goto(s, IF server = None THEN "raised" ELSE "schedule")
    /\ coro' = [coro EXCEPT ![s] = server]
    /\ UNCHANGED <<starts, pc, server, loop, asked, queue, beaten>>

\* run_coroutine_threadsafe(..., self._loop) fails for None and for a closed loop.
Schedule(s) ==
    /\ At(s, "schedule")
    /\ IF loop = None \/ LoopClosed(loop)
       THEN Goto(s, "raised") /\ UNCHANGED queue
       ELSE Goto(s, "waiting") /\ queue' = [queue EXCEPT ![s] = loop]
    /\ UNCHANGED <<starts, pc, server, loop, asked, coro, beaten>>

\* Mutant: the coroutine is made and scheduled, but does nothing.
RunShutdownLost(s) ==
    /\ At(s, "waiting")
    /\ queue[s] = starts /\ pc = "serving"
    /\ Goto(s, "answered")
    /\ UNCHANGED <<starts, pc, server, loop, asked, coro, queue, beaten>>

\* The loop carries out shutdown(), which is without effect on another run's server.
RunShutdown(s) ==
    /\ At(s, "waiting")
    /\ queue[s] = starts /\ pc = "serving"
    /\ Goto(s, "answered")
    /\ IF coro[s] = starts
       THEN asked' = TRUE /\ beaten' = beaten \cup InStop
       ELSE UNCHANGED <<asked, beaten>>
    /\ UNCHANGED <<starts, pc, server, loop, coro, queue>>

\* result() returns.
ShutdownDone(s) ==
    /\ At(s, "answered")
    /\ Goto(s, "done")
    /\ UNCHANGED <<starts, pc, server, loop, asked, coro, queue, beaten>>

\* Mutant: the five seconds are over at once.
ResultTimesOutEarly(s) ==
    /\ At(s, "waiting")
    /\ Goto(s, "raised")
    /\ UNCHANGED <<starts, pc, server, loop, asked, coro, queue, beaten>>

\* result(timeout=5): the loop has ended and will not carry it out.
ResultTimesOut(s) ==
    /\ At(s, "waiting")
    /\ ~LoopRuns(queue[s])
    /\ Goto(s, "raised")
    /\ UNCHANGED <<starts, pc, server, loop, asked, coro, queue, beaten>>

StartGoesOn == CreateServer \/ Serve \/ ServeEnds \/ CloseLoop \/ UnsetServer \/ UnsetLoop
StopGoesOn(s) ==
    \/ ReadLoop(s) \/ CallShutdown(s) \/ Schedule(s)
    \/ RunShutdown(s) \/ ShutdownDone(s) \/ ResultTimesOut(s)

Next ==
    \/ Start \/ StartGoesOn \/ Interrupt
    \/ \E s \in Stoppers : Stop(s) \/ StopGoesOn(s)

TypeOK ==
    /\ starts \in 0..MaxStarts
    /\ pc \in {"idle", "looped", "created", "serving", "closing", "unset_server", "unset_loop"}
    /\ server \in Runs \cup {None}
    /\ loop \in Runs \cup {None}
    /\ asked \in BOOLEAN
    /\ stop \in [Stoppers -> {"idle", "nothing", "read_loop", "call", "schedule",
                              "waiting", "answered", "done", "raised"}]
    /\ coro \in [Stoppers -> Runs \cup {None}]
    /\ queue \in [Stoppers -> Runs \cup {None}]
    /\ beaten \in SUBSET Stoppers

\* stop() raises only when it is beaten to it: the service was ending when it was
\* called, or began to end meanwhile, by another stop(), a failure or an interrupt.
RaisesOnlyWhenBeaten == \A s \in Stoppers : At(s, "raised") => s \in beaten
=============================================================================
