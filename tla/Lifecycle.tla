------------------------------ MODULE Lifecycle ------------------------------
(***************************************************************************)
(* What start() and stop() of the servers promise together, whatever they  *)
(* share to keep the promise: _server, _loop, an event or a flag.  A call  *)
(* of start() makes one service.  It serves until somebody asks it to end, *)
(* or an interrupt does, and then start() comes back; a stop() that found  *)
(* it comes back, too, and not before the service was asked.               *)
(*                                                                         *)
(* DirectServer and OtherServers implement this specification.             *)
(***************************************************************************)
CONSTANTS
    Services,       \* calls of start()
    Stoppers,       \* threads that call stop()
    StopWaits,      \* whether stop() waits until the service has left its loop
    Interruptible   \* services that a KeyboardInterrupt may end

VARIABLES
    life,   \* "new", "serving", "ending" or "over", of each service
    asked,  \* services that serve and have been asked to end
    waits   \* the service each stop() that is under way has found, if any

vars == <<life, asked, waits>>

Serving(k) == life[k] = "serving"
Become(k, stages) == \E l \in stages : life' = [life EXCEPT ![k] = l]

Init ==
    /\ life = [k \in Services |-> "new"]
    /\ asked = {}
    /\ waits = [s \in Stoppers |-> {}]

\* A service may have been asked to end by the time it serves.
Begin(k) ==
    /\ life[k] = "new"
    /\ Become(k, {"serving"})
    /\ asked' \in {asked, asked \cup {k}}
    /\ UNCHANGED waits

Fail(k) ==
    /\ life[k] = "new"
    /\ Become(k, {"ending", "over"})
    /\ UNCHANGED <<asked, waits>>

Ask(k) ==
    /\ Serving(k)
    /\ asked' = asked \cup {k}
    /\ UNCHANGED <<life, waits>>

Leave(k) ==
    /\ k \in asked \/ (k \in Interruptible /\ Serving(k))
    /\ Become(k, {"ending", "over"})
    /\ asked' = asked \ {k}
    /\ UNCHANGED waits

\* start() comes back.
Finish(k) ==
    /\ life[k] = "ending"
    /\ Become(k, {"over"})
    /\ UNCHANGED <<asked, waits>>

Stop(s, k) ==
    /\ waits[s] = {}
    /\ life[k] \in {"serving", "ending"}
    /\ waits' = [waits EXCEPT ![s] = {k}]
    /\ asked' \in {asked, IF Serving(k) THEN asked \cup {k} ELSE asked}
    /\ UNCHANGED life

Return(s) ==
    /\ waits[s] # {}
    /\ \A k \in waits[s] : Serving(k) => ~StopWaits /\ k \in asked
    /\ waits' = [waits EXCEPT ![s] = {}]
    /\ UNCHANGED <<life, asked>>

Next ==
    \/ \E k \in Services : Begin(k) \/ Fail(k) \/ Ask(k) \/ Leave(k) \/ Finish(k)
    \/ \E s \in Stoppers : Return(s) \/ \E k \in Services : Stop(s, k)

\* What may happen, and that it does: a service that is asked ends, start()
\* comes back, and so does stop().
Safety == Init /\ [][Next]_vars
Spec ==
    /\ Safety
    /\ \A k \in Services : WF_vars(k \in asked /\ Leave(k)) /\ WF_vars(Finish(k))
    /\ \A s \in Stoppers : WF_vars(Return(s)) /\ WF_vars(\E k \in waits[s] : Ask(k))
=============================================================================
