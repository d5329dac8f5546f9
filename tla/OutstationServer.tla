-------------------------- MODULE OutstationServer --------------------------
(***************************************************************************)
(* start() and stop() of Dnp3OutstationServer, the native DNP3 runtime.    *)
(* They share the flag _running and the opendnp3 outstation and manager,   *)
(* which the constructor has made.  One thread calls start(), again only   *)
(* when it has returned, and that thread itself calls stop() at the end;   *)
(* any thread may call stop().  opendnp3 is external.                      *)
(***************************************************************************)
EXTENDS Naturals

CONSTANTS
    Stoppers,  \* threads that call stop()
    Main,      \* the thread that calls start()
    MaxStarts  \* bound on the calls of start()

VARIABLES
    starts,    \* calls of start() so far
    pc,        \* where start() is
    running,   \* _running
    enabled,   \* the outstation is enabled
    shutdowns, \* calls of Shutdown() on the manager
    stop,      \* where each thread is in stop()
    \* history, read by no step
    raced      \* two threads were in stop(), or one was during the start-up

vars == <<starts, pc, running, enabled, shutdowns, stop, raced>>

Processes == Stoppers \cup {Main}

Init ==
    /\ starts = 0
    /\ pc = "idle"
    /\ running = FALSE
    /\ enabled = FALSE
    /\ shutdowns = 0
    /\ stop = [p \in Processes |-> "idle"]
    /\ raced = FALSE

\* In stop() beyond the test of _running.
Stops(p) == stop[p] \in {"clear", "disable", "shutdown"}
Starts == pc \in {"set", "enable"}
\* Conjoined to every step.
Observe == raced' = (raced
    \/ \E p \in Processes : Stops(p)' /\ (Starts' \/ \E q \in Processes \ {p} : Stops(q)'))

-----------------------------------------------------------------------------
\* start() tests _running.
Start ==
    /\ pc = "idle"
    /\ starts < MaxStarts
    /\ starts' = starts + 1
    /\ pc' = IF running THEN "idle" ELSE "set"
    /\ UNCHANGED <<running, enabled, shutdowns, stop>>

SetRunning ==
    /\ pc = "set"
    /\ running' = TRUE
    /\ pc' = "enable"
    /\ UNCHANGED <<starts, enabled, shutdowns, stop>>

\* self._outstation.Enable()
Enable ==
    /\ pc = "enable"
    /\ enabled' = TRUE
    /\ pc' = "loop"
    /\ UNCHANGED <<starts, running, shutdowns, stop>>

\* The loop ends when _running is False, and also by a KeyboardInterrupt, which is
\* caught; then the finally clause calls self.stop().
LeaveLoop ==
    /\ pc = "loop"
    /\ ~running
    /\ pc' = "finally"
    /\ UNCHANGED <<starts, running, enabled, shutdowns, stop>>

Interrupt ==
    /\ pc = "loop"
    /\ pc' = "finally"
    /\ UNCHANGED <<starts, running, enabled, shutdowns, stop>>

\* Mutant: without the finally clause.
FinallyForgotten ==
    /\ pc = "finally"
    /\ pc' = "idle"
    /\ UNCHANGED <<starts, running, enabled, shutdowns, stop>>

Finally ==
    /\ pc = "finally"
    /\ pc' = "stop"
    /\ stop' = [stop EXCEPT ![Main] = IF running THEN "clear" ELSE "done"]
    /\ UNCHANGED <<starts, running, enabled, shutdowns>>

StartReturns ==
    /\ pc = "stop"
    /\ stop[Main] = "done"
    /\ pc' = "idle"
    /\ UNCHANGED <<starts, running, enabled, shutdowns, stop>>

\* stop() tests _running.
Stop(s) ==
    /\ stop[s] \in {"idle", "done"}
    /\ stop' = [stop EXCEPT ![s] = IF running THEN "clear" ELSE "done"]
    /\ UNCHANGED <<starts, pc, running, enabled, shutdowns>>

ClearRunning(p) ==
    /\ stop[p] = "clear"
    /\ running' = FALSE
    /\ stop' = [stop EXCEPT ![p] = "disable"]
    /\ UNCHANGED <<starts, pc, enabled, shutdowns>>

\* self._outstation.Disable()
Disable(p) ==
    /\ stop[p] = "disable"
    /\ enabled' = FALSE
    /\ stop' = [stop EXCEPT ![p] = "shutdown"]
    /\ UNCHANGED <<starts, pc, running, shutdowns>>

\* self._manager.Shutdown()
Shutdown(p) ==
    /\ stop[p] = "shutdown"
    /\ shutdowns' = shutdowns + 1
    /\ stop' = [stop EXCEPT ![p] = "done"]
    /\ UNCHANGED <<starts, pc, running, enabled>>

StartGoesOn == SetRunning \/ Enable \/ LeaveLoop \/ Finally \/ StartReturns
StopGoesOn(p) == ClearRunning(p) \/ Disable(p) \/ Shutdown(p)

Next ==
    /\ \/ Start \/ StartGoesOn \/ Interrupt
       \/ \E s \in Stoppers : Stop(s)
       \/ \E p \in Processes : StopGoesOn(p)
    /\ Observe

TypeOK ==
    /\ starts \in 0..MaxStarts
    /\ pc \in {"idle", "set", "enable", "loop", "finally", "stop"}
    /\ running \in BOOLEAN
    /\ enabled \in BOOLEAN
    /\ shutdowns \in Nat
    /\ stop \in [Processes -> {"idle", "clear", "disable", "shutdown", "done"}]

\* A first start() that has returned, and every stop() with it, has released the
\* outstation and shut the manager down once, also after an interrupt, unless a
\* stop() overlapped the start-up or another stop().
ReleasedOnce ==
    starts = 1 /\ pc = "idle" /\ (\A p \in Processes : ~Stops(p)) /\ ~raced
        => ~enabled /\ shutdowns = 1
=============================================================================
