---------------------------- MODULE S7commServer ----------------------------
(***************************************************************************)
(* start() and stop() of S7commServer.  They share the event _stopped and  *)
(* the snap7 server, whose listener start_to opens and stop closes.  One   *)
(* thread calls start(), again only when it has returned; any thread may   *)
(* call stop().  snap7 is external: start_to fails if the port is taken.   *)
(***************************************************************************)
EXTENDS Naturals

CONSTANTS
    Stoppers,  \* threads that call stop()
    MaxStarts  \* bound on the calls of start()

VARIABLES
    starts,    \* calls of start() so far
    pc,        \* where start() is
    stopped,   \* the event _stopped
    listener,  \* the snap7 server listens
    stop,      \* where each stopper is in stop()
    \* history, read by no step
    raced,       \* a stop() was under way while start() was starting up
    interrupted  \* a KeyboardInterrupt has ended start()

vars == <<starts, pc, stopped, listener, stop, raced, interrupted>>

Init ==
    /\ starts = 0
    /\ pc = "idle"
    /\ stopped = FALSE
    /\ listener = FALSE
    /\ stop = [s \in Stoppers |-> "idle"]
    /\ raced = FALSE
    /\ interrupted = FALSE

StartingUp == pc \in {"called", "cleared"}
Stopping == \E s \in Stoppers : stop[s] \in {"called", "set"}
\* Conjoined to every step.
Observe == raced' = (raced \/ (StartingUp' /\ Stopping'))

-----------------------------------------------------------------------------
\* start() is called; it logs first.
Start ==
    /\ pc = "idle"
    /\ starts < MaxStarts
    /\ starts' = starts + 1
    /\ pc' = "called"
    /\ UNCHANGED <<stopped, listener, stop, interrupted>>

\* self._stopped.clear()
Clear ==
    /\ pc = "called"
    /\ stopped' = FALSE
    /\ pc' = "cleared"
    /\ UNCHANGED <<starts, listener, stop, interrupted>>

\* self._server.start_to(...) opens the listener or raises.
StartTo ==
    /\ pc = "cleared"
    /\ \/ listener' = TRUE /\ pc' = "loop"
       \/ pc' = "idle" /\ UNCHANGED listener
    /\ UNCHANGED <<starts, stopped, stop, interrupted>>

\* The loop condition; pick_event() changes nothing here, and what it raises is
\* logged.
LeaveLoop ==
    /\ pc = "loop"
    /\ stopped
    /\ pc' = "idle"
    /\ UNCHANGED <<starts, stopped, listener, stop, interrupted>>

\* A KeyboardInterrupt is no Exception: it ends start() as it is.
Interrupt ==
    /\ pc = "loop"
    /\ pc' = "idle"
    /\ interrupted' = TRUE
    /\ UNCHANGED <<starts, stopped, listener, stop>>

\* stop() is called; it logs first.
Stop(s) ==
    /\ stop[s] \in {"idle", "done"}
    /\ stop' = [stop EXCEPT ![s] = "called"]
    /\ UNCHANGED <<starts, pc, stopped, listener, interrupted>>

\* self._stopped.set()
Set(s) ==
    /\ stop[s] = "called"
    /\ stopped' = TRUE
    /\ stop' = [stop EXCEPT ![s] = "set"]
    /\ UNCHANGED <<starts, pc, listener, interrupted>>

\* Mutant: stop() without self._server.stop().
CloseForgotten(s) ==
    /\ stop[s] = "set"
    /\ stop' = [stop EXCEPT ![s] = "done"]
    /\ UNCHANGED <<starts, pc, stopped, listener, interrupted>>

\* self._server.stop()
CloseListener(s) ==
    /\ stop[s] = "set"
    /\ listener' = FALSE
    /\ stop' = [stop EXCEPT ![s] = "done"]
    /\ UNCHANGED <<starts, pc, stopped, interrupted>>

StartGoesOn == Clear \/ StartTo \/ LeaveLoop
StopGoesOn(s) == Set(s) \/ CloseListener(s)

Next ==
    /\ \/ Start \/ StartGoesOn \/ Interrupt
       \/ \E s \in Stoppers : Stop(s) \/ StopGoesOn(s)
    /\ Observe

TypeOK ==
    /\ starts \in 0..MaxStarts
    /\ pc \in {"idle", "called", "cleared", "loop"}
    /\ stopped \in BOOLEAN
    /\ listener \in BOOLEAN
    /\ stop \in [Stoppers -> {"idle", "called", "set", "done"}]

\* The listener and the loop go together: once start() has returned and stops
\* are through nothing listens, and a loop nobody has stopped has its listener.
\* A stop() that overlaps the start-up breaks this both ways (a listener nobody
\* serves, or a loop without a listener that no second stop can have caused),
\* and so does an interrupt.
ListenerFollowsLoop ==
    ~raced /\ ~interrupted =>
        /\ pc = "idle" /\ ~Stopping => ~listener
        /\ pc = "loop" /\ ~stopped => listener
=============================================================================
