---------------------------- MODULE DirectServer ----------------------------
(***************************************************************************)
(* EnipServer and BacnetServer used without a Starter, as the README shows *)
(* and the protocol tests do: an application calls start() in threads of   *)
(* its own, possibly again on the same object, and any of its threads may  *)
(* call stop() at any time.  The main thread may be one of those that      *)
(* start; a KeyboardInterrupt may reach its loop.                          *)
(***************************************************************************)
EXTENDS SocketServer

CONSTANT Main  \* the thread that KeyboardInterrupt is raised in

VARIABLES
    \* history, read by no step
    overlapped,  \* backends with two calls of start() at once
    seen         \* servers in their loop when each stopper called stop()

history == <<overlapped, seen>>
vars == <<ssvars, history>>

Active(t) == phase[t] \notin {"idle", "returned", "raised"}

Init ==
    /\ \E b \in Backends : InitWith(b)
    /\ overlapped = {}
    /\ seen = [s \in Stoppers |-> {}]

Start(t, i) ==
    /\ CallStart(t, i)
    /\ overlapped' = IF \E u \in Threads : Active(u) /\ backend[u] = i
                     THEN overlapped \cup {i} ELSE overlapped
    /\ UNCHANGED seen

Stop(s, i) ==
    /\ CallStop(s, i)
    /\ seen' = [seen EXCEPT ![s] = {t \in Threads : InLoop(t) /\ backend[t] = i}]
    /\ UNCHANGED overlapped

StartGoesOn(t) == StartStep(t) /\ UNCHANGED history
StopGoesOn(s) == StopStep(s) /\ UNCHANGED history
Interrupted(t) == t = Main /\ Interrupt(t) /\ UNCHANGED history

Next ==
    \/ \E t \in Threads, i \in Backends : Start(t, i)
    \/ \E t \in Threads : StartGoesOn(t) \/ Interrupted(t)
    \/ \E s \in Stoppers, i \in Backends : Stop(s, i)
    \/ \E s \in Stoppers : StopGoesOn(s)

\* Threads that can run are scheduled; nobody has to call start() or stop().
Spec == Init /\ [][Next]_vars
FairSpec ==
    /\ Spec
    /\ \A t \in Threads : WF_vars(StartGoesOn(t))
    /\ \A s \in Stoppers : WF_vars(StopGoesOn(s))

-----------------------------------------------------------------------------
\* A server whose loop runs can be stopped: its backend's _server refers to it,
\* unless a second start() of the same backend was called before the first
\* returned, whose self._server = None may withdraw the new server.
ServingIsStoppable ==
    \A t \in Threads : InLoop(t) /\ backend[t] \notin overlapped => registered[backend[t]] = t

\* stop() stops a running server: when a call returns, no server of that
\* backend that was in its loop at the call is still there, whichever other
\* thread stopped it, unless starts overlapped.
StopStopsRunning ==
    \A s \in Stoppers : stopPc[s] = "done" /\ stopOf[s] \notin overlapped =>
        \A t \in seen[s] : LoopOver(t)

\* Lifecycle's view of this state.
Life(t) ==
    CASE phase[t] \in {"idle", "binding", "bound"} -> "new"
      [] InLoop(t) -> "serving"
      [] phase[t] \in {"closing", "closed"} -> "ending"
      [] OTHER -> "over"
Asked == {t \in Threads : InLoop(t) /\ request[t]}
Found(s) == IF stopPc[s] = "waiting" THEN {stopping[s]} ELSE {}

\* start() and stop() do what Lifecycle says: only a server that was asked leaves
\* its loop, or that of the main thread when interrupted, and then its start()
\* comes back; stop() returns not before the loop has
\* been left, and never waits for ever, whatever starts and stops race.
LC == INSTANCE Lifecycle WITH
        Services <- Threads, StopWaits <- TRUE, Interruptible <- {Main},
        life <- [t \in Threads |-> Life(t)],
        asked <- Asked,
        waits <- [s \in Stoppers |-> Found(s)]
ImplementsLifecycle == LC!Spec
=============================================================================
