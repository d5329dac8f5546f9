---------------------------- MODULE OtherServers ----------------------------
(***************************************************************************)
(* The servers over pymodbus, snap7 and opendnp3, one at a time: kind says *)
(* which.  Each publishes what its stop() needs at another point of its    *)
(* start(), and what they promise together is stated here once.            *)
(***************************************************************************)
EXTENDS Naturals

CONSTANTS Stoppers, Main, MaxStarts

ASSUME ServersAssumption == MaxStarts \in Nat /\ Main \notin Stoppers

VARIABLES
    kind,                                    \* "mbtcp", "s7comm" or "dnp3"
    starts, pc, stop,                        \* of the server there is
    server, loop, asked, coro, queue, beaten,  \* MbtcpServer
    stopped, listener, interrupted,          \* S7commServer
    running, enabled, shutdowns,             \* OutstationServer
    raced,                                   \* S7commServer, OutstationServer
    found    \* history: the run that served when each stopper last called stop(), or 0

M == INSTANCE MbtcpServer
S == INSTANCE S7commServer
O == INSTANCE OutstationServer

mbtcpVars == <<server, loop, asked, coro, queue, beaten>>
s7Vars == <<stopped, listener, interrupted>>
dnp3Vars == <<running, enabled, shutdowns>>
vars == <<kind, starts, pc, stop, raced, found, mbtcpVars, s7Vars, dnp3Vars>>

MbtcpUnused ==
    server = 0 /\ loop = 0 /\ asked = FALSE /\ coro = <<>> /\ queue = <<>> /\ beaten = {}
S7Unused == stopped = FALSE /\ listener = FALSE /\ interrupted = FALSE
Dnp3Unused == running = FALSE /\ enabled = FALSE /\ shutdowns = 0

Init ==
    /\ \/ kind = "mbtcp" /\ M!Init /\ S7Unused /\ Dnp3Unused /\ raced = FALSE
       \/ kind = "s7comm" /\ S!Init /\ MbtcpUnused /\ Dnp3Unused
       \/ kind = "dnp3" /\ O!Init /\ MbtcpUnused /\ S7Unused
    /\ found = [s \in Stoppers |-> 0]

StartingUp == pc \in {"looped", "created", "called", "cleared", "set", "enable"}
Serving == pc \in {"serving", "loop"}
Ending == pc \in {"closing", "unset_server", "unset_loop", "finally", "stop"}
\* The loop of start() will see that it is to end.
Asked == CASE kind = "mbtcp" -> asked [] kind = "s7comm" -> stopped [] kind = "dnp3" -> ~running
InStop(s) == stop[s] \notin {"idle", "nothing", "done", "raised"}
Observe == found' = [s \in Stoppers |->
    IF InStop(s)' /\ ~InStop(s) THEN (IF Serving THEN starts ELSE 0) ELSE found[s]]

\* A step of the server there is leaves the other servers' variables alone.
Mbtcp(A) == kind = "mbtcp" /\ A /\ Observe /\ UNCHANGED <<kind, raced, s7Vars, dnp3Vars>>
S7comm(A) ==
    kind = "s7comm" /\ A /\ S!Observe /\ Observe /\ UNCHANGED <<kind, mbtcpVars, dnp3Vars>>
Dnp3(A) == kind = "dnp3" /\ A /\ O!Observe /\ Observe /\ UNCHANGED <<kind, mbtcpVars, s7Vars>>

Next == Mbtcp(M!Next) \/ S7comm(S!Next) \/ Dnp3(O!Next)

StartGoesOn == Mbtcp(M!StartGoesOn) \/ S7comm(S!StartGoesOn) \/ Dnp3(O!StartGoesOn \/ O!StopGoesOn(Main))
StopGoesOn(s) == Mbtcp(M!StopGoesOn(s)) \/ S7comm(S!StopGoesOn(s)) \/ Dnp3(O!StopGoesOn(s))

Spec == Init /\ [][Next]_vars

\* Threads that can run are scheduled; nobody has to call start() or stop().
FairSpec ==
    /\ Spec
    /\ WF_vars(StartGoesOn)
    /\ \A s \in Stoppers : WF_vars(StopGoesOn(s))

-----------------------------------------------------------------------------
(* Properties *)

\* Every variable of the server there is stays in its range.
TypeOK ==
    CASE kind = "mbtcp" -> M!TypeOK
      [] kind = "s7comm" -> S!TypeOK
      [] kind = "dnp3" -> O!TypeOK

\* Modbus: stop() raises only when the service it found was ending already.
MbtcpRaisesOnlyWhenBeaten == kind = "mbtcp" => M!RaisesOnlyWhenBeaten

\* S7comm: the listener and the loop go together, unless a stop() overlaps the
\* start-up or start() is interrupted.
S7ListenerFollowsLoop == kind = "s7comm" => S!ListenerFollowsLoop

\* DNP3: what start() has enabled is released once when it has returned, unless a
\* stop() overlaps the start-up or another stop().
OutstationReleasedOnce == kind = "dnp3" => O!ReleasedOnce

\* start() and stop() do what Lifecycle says: a service ends when it was asked to,
\* or is interrupted, and then start() returns; a stop() that found a service
\* comes back, and has asked it unless it is over.
Stage ==
    CASE StartingUp -> "new" [] Serving -> "serving" [] Ending -> "ending" [] pc = "idle" -> "over"
Life(k) == IF k = starts THEN Stage ELSE IF k > starts THEN "new" ELSE "over"
Requested == IF Serving /\ Asked THEN {starts} ELSE {}
Found(s) == IF InStop(s) THEN {found[s]} \ {0} ELSE {}
LC == INSTANCE Lifecycle WITH
        Services <- 1..MaxStarts, StopWaits <- FALSE, Interruptible <- 1..MaxStarts,
        life <- [k \in 1..MaxStarts |-> Life(k)], asked <- Requested,
        waits <- [s \in Stoppers |-> Found(s)]
ImplementsLifecycle == LC!Spec
=============================================================================
