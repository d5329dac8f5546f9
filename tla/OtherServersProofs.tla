------------------------- MODULE OtherServersProofs -------------------------
(***************************************************************************)
(* Proofs about OtherServers, for any number of stoppers and of calls of   *)
(* start().                                                                *)
(*                                                                         *)
(* Each server has an inductive invariant of its own that relates what     *)
(* start() has published to where start() is:                              *)
(*   - MbtcpServer: _server and _loop are those of the current run while   *)
(*     it serves (Published), so a stop() nobody has beaten has scheduled  *)
(*     its coroutine in the loop that runs (Unbeaten);                     *)
(*   - S7commServer: unless a stop() overlapped a start-up or start() was  *)
(*     interrupted, the listener outlives the loop only until the stop()   *)
(*     that set the event has closed it (Listening);                       *)
(*   - OutstationServer: unless a stop() overlapped, one thread at a time  *)
(*     takes the outstation down, and how far it has come tells what is    *)
(*     enabled (Releasing).                                                *)
(*                                                                         *)
(* That each of the three takes the steps of Lifecycle rests on what a     *)
(* stop() has found (FoundRuns, Finding) and on lemmas that name the kinds *)
(* of steps there are (StartMoves, StopMoves) once for all.                *)
(***************************************************************************)
EXTENDS OtherServers, TLAPS

(* MbtcpServer *)

Published ==
    /\ pc = "idle" => server = M!None /\ loop = M!None
    /\ pc \in {"looped", "unset_loop"} => server = M!None
    /\ pc # "idle" => loop = starts /\ starts > 0
    /\ pc \in {"looped", "created"} => ~asked
    /\ pc \in {"created", "serving"} => server = starts
    /\ server # M!None => server = starts
Unbeaten ==
    \A s \in M!InStop \ beaten :
        /\ ~M!Ending
        /\ stop[s] \in {"schedule", "waiting"} => coro[s] = starts
        /\ stop[s] = "waiting" => queue[s] = starts
MbtcpInv == M!TypeOK /\ Published /\ Unbeaten /\ M!RaisesOnlyWhenBeaten

(* S7commServer *)

Listening ==
    /\ pc \in {"called", "cleared"} => ~listener /\ ~S!Stopping
    /\ pc = "cleared" => ~stopped
    /\ pc = "idle" /\ ~S!Stopping => ~listener
    /\ pc = "loop" /\ ~stopped => listener /\ \A s \in Stoppers : stop[s] # "set"
    /\ pc = "loop" /\ stopped /\ listener => \E s \in Stoppers : stop[s] = "set"
S7Inv == S!TypeOK /\ (~raced /\ ~interrupted => Listening)

(* OutstationServer *)

\* Main is in stop() only from the finally clause on.
MainStops ==
    /\ O!Stops(Main) => pc = "stop"
    /\ pc = "stop" => stop[Main] \in {"clear", "disable", "shutdown", "done"}
Untouched == pc = "idle" /\ ~running /\ ~enabled /\ shutdowns = 0
OneStops == \A p, q \in O!Processes : O!Stops(p) /\ O!Stops(q) => p = q
Releasing ==
    /\ OneStops
    /\ O!Starts => \A p \in O!Processes : ~O!Stops(p)
    /\ pc = "set" => ~running /\ ~enabled /\ shutdowns = 0
    /\ pc = "enable" => running /\ ~enabled /\ shutdowns = 0
    /\ pc = "idle" => ~running
    /\ pc = "stop" /\ stop[Main] = "done" => ~running
    /\ ~O!Starts =>
        /\ running => /\ enabled /\ shutdowns = 0
                      /\ \A p \in O!Processes : stop[p] \notin {"disable", "shutdown"}
        /\ ~running => \A p \in O!Processes :
            /\ stop[p] # "clear"
            /\ stop[p] = "disable" => enabled /\ shutdowns = 0
            /\ stop[p] = "shutdown" => ~enabled /\ shutdowns = 0
        /\ ~running /\ (\A p \in O!Processes : ~O!Stops(p)) => ~enabled /\ shutdowns = 1
OutstationInv ==
    /\ O!TypeOK
    /\ MainStops
    /\ starts = 0 => Untouched /\ \A p \in O!Processes : ~O!Stops(p)
    /\ starts = 1 /\ ~raced => Releasing

IInv ==
    /\ kind \in {"mbtcp", "s7comm", "dnp3"}
    /\ kind = "mbtcp" => MbtcpInv
    /\ kind = "s7comm" => S7Inv
    /\ kind = "dnp3" => OutstationInv

-----------------------------------------------------------------------------
(* MbtcpServer *)

\* Whatever start() and stop() of MbtcpServer do, what is published stays that of
\* the current run, and an unbeaten stop() stays on its way to the running loop.
LEMMA MbtcpStep == MbtcpInv /\ M!Next => MbtcpInv'
<1> SUFFICES ASSUME MbtcpInv, M!Next PROVE MbtcpInv'
  OBVIOUS
<1> USE ServersAssumption
    DEF ServersAssumption, MbtcpInv, M!TypeOK, M!Runs, M!None, Published, Unbeaten,
        M!InStop, M!Ending, M!RaisesOnlyWhenBeaten, M!At, M!Goto
<1>1. CASE M!Start
  <2>1. starts' \in 0..MaxStarts /\ starts' \in 1..MaxStarts /\ starts' > 0
    BY <1>1 DEF M!Start
  <2>2. M!TypeOK'
    BY <1>1, <2>1 DEF M!Start
  <2>4. Published'
    BY <1>1, <2>1 DEF M!Start
  <2>3. Unbeaten' /\ M!RaisesOnlyWhenBeaten'
    BY <1>1 DEF M!Start
  <2> QED
    BY <2>2, <2>3, <2>4
<1>2. CASE M!CreateServer
  BY <1>2 DEF M!CreateServer
<1>3. CASE M!Serve
  BY <1>3 DEF M!Serve
<1>4. CASE M!ServeEnds
  BY <1>4 DEF M!ServeEnds
<1>5. CASE M!Interrupt
  BY <1>5 DEF M!Interrupt
<1>6. CASE M!CloseLoop
  BY <1>6 DEF M!CloseLoop
<1>7. CASE M!UnsetServer
  BY <1>7 DEF M!UnsetServer
<1>8. CASE M!UnsetLoop
  <2>1. M!TypeOK'
    BY <1>8 DEF M!UnsetLoop
  <2>3. Published'
    BY <1>8 DEF M!UnsetLoop
  <2>2. Unbeaten' /\ M!RaisesOnlyWhenBeaten'
    BY <1>8 DEF M!UnsetLoop
  <2> QED
    BY <2>1, <2>2, <2>3
<1>9. ASSUME NEW s \in Stoppers, M!Stop(s) PROVE MbtcpInv'
  BY <1>9 DEF M!Stop
<1>10. ASSUME NEW s \in Stoppers, M!ReadLoop(s) PROVE MbtcpInv'
  BY <1>10 DEF M!ReadLoop
<1>11. ASSUME NEW s \in Stoppers, M!CallShutdown(s) PROVE MbtcpInv'
  BY <1>11 DEF M!CallShutdown
<1>12. ASSUME NEW s \in Stoppers, M!Schedule(s) PROVE MbtcpInv'
  BY <1>12 DEF M!Schedule, M!LoopClosed
<1>13. ASSUME NEW s \in Stoppers, M!RunShutdown(s) PROVE MbtcpInv'
  BY <1>13 DEF M!RunShutdown
<1>14. ASSUME NEW s \in Stoppers, M!ShutdownDone(s) PROVE MbtcpInv'
  BY <1>14 DEF M!ShutdownDone
<1>15. ASSUME NEW s \in Stoppers, M!ResultTimesOut(s) PROVE MbtcpInv'
  BY <1>15 DEF M!ResultTimesOut, M!LoopRuns
<1> QED
  BY <1>1, <1>2, <1>3, <1>4, <1>5, <1>6, <1>7, <1>8, <1>9, <1>10, <1>11, <1>12, <1>13,
     <1>14, <1>15 DEF M!Next, M!StartGoesOn, M!StopGoesOn

-----------------------------------------------------------------------------
(* S7commServer *)

\* Unless a stop() overlaps a start-up, the listener is the loop's.
LEMMA S7Step == S7Inv /\ S!Next => S7Inv'
<1> SUFFICES ASSUME S7Inv, S!Next PROVE S7Inv'
  OBVIOUS
<1> USE ServersAssumption
    DEF ServersAssumption, S7Inv, S!TypeOK, Listening, S!Stopping, S!StartingUp, S!Observe
<1>0. S!Observe
  BY DEF S!Next
<1>1. CASE S!Start
  <2>1. S!TypeOK'
    BY <1>1 DEF S!Start
  <2>2. ~raced' /\ ~interrupted' => Listening'
    BY <1>0, <1>1 DEF S!Start
  <2> QED
    BY <2>1, <2>2
<1>2. CASE S!Clear
  BY <1>0, <1>2 DEF S!Clear
<1>3. CASE S!StartTo
  <2>1. S!TypeOK'
    BY <1>3 DEF S!StartTo
  <2>2. ~raced' /\ ~interrupted' => Listening'
    BY <1>0, <1>3 DEF S!StartTo
  <2> QED
    BY <2>1, <2>2
<1>4. CASE S!LeaveLoop
  BY <1>0, <1>4 DEF S!LeaveLoop
<1>5. CASE S!Interrupt
  BY <1>0, <1>5 DEF S!Interrupt
<1>6. ASSUME NEW s \in Stoppers, S!Stop(s) PROVE S7Inv'
  BY <1>0, <1>6 DEF S!Stop
<1>7. ASSUME NEW s \in Stoppers, S!Set(s) PROVE S7Inv'
  BY <1>0, <1>7 DEF S!Set
<1>8. ASSUME NEW s \in Stoppers, S!CloseListener(s) PROVE S7Inv'
  BY <1>0, <1>8 DEF S!CloseListener
<1> QED
  BY <1>1, <1>2, <1>3, <1>4, <1>5, <1>6, <1>7, <1>8 DEF S!Next, S!StartGoesOn, S!StopGoesOn

-----------------------------------------------------------------------------
(* OutstationServer *)

\* Unless a stop() overlaps a start-up or another stop(), the outstation is
\* taken down once, in order.
LEMMA OutstationStep == OutstationInv /\ O!Next => OutstationInv'
<1> SUFFICES ASSUME OutstationInv, O!Next PROVE OutstationInv'
  OBVIOUS
<1> USE ServersAssumption
    DEF ServersAssumption, OutstationInv, O!TypeOK, MainStops, Untouched, OneStops, Releasing,
        O!Stops, O!Starts, O!Processes, O!Observe
<1>0. O!Observe
  BY DEF O!Next
<1>1. CASE O!Start
  BY <1>0, <1>1 DEF O!Start
<1>2. CASE O!SetRunning
  BY <1>0, <1>2 DEF O!SetRunning
<1>3. CASE O!Enable
  BY <1>0, <1>3 DEF O!Enable
<1>4. CASE O!LeaveLoop
  BY <1>0, <1>4 DEF O!LeaveLoop
<1>5. CASE O!Interrupt
  BY <1>0, <1>5 DEF O!Interrupt
<1>6. CASE O!Finally
  BY <1>0, <1>6 DEF O!Finally
<1>7. CASE O!StartReturns
  BY <1>0, <1>7 DEF O!StartReturns
<1>8. ASSUME NEW s \in Stoppers, O!Stop(s) PROVE OutstationInv'
  BY <1>0, <1>8 DEF O!Stop
<1>9. ASSUME NEW p \in O!Processes, O!ClearRunning(p) PROVE OutstationInv'
  BY <1>0, <1>9 DEF O!ClearRunning
<1>10. ASSUME NEW p \in O!Processes, O!Disable(p) PROVE OutstationInv'
  BY <1>0, <1>10 DEF O!Disable
<1>11. ASSUME NEW p \in O!Processes, O!Shutdown(p) PROVE OutstationInv'
  <2>1. O!TypeOK'
    BY <1>11 DEF O!Shutdown
  <2>2. MainStops' /\ starts' # 0
    BY <1>11 DEF O!Shutdown
  <2>3. ASSUME starts = 1, ~raced PROVE Releasing'
    <3>1. stop[p] = "shutdown" /\ ~O!Starts /\ ~running /\ ~enabled /\ shutdowns = 0
      BY <1>11, <2>3 DEF O!Shutdown
    <3>2. \A q \in O!Processes : ~O!Stops(q)'
      BY <1>11, <2>3, <3>1 DEF O!Shutdown
    <3>3. UNCHANGED <<pc, running, enabled>> /\ shutdowns' = 1
      BY <1>11, <3>1 DEF O!Shutdown
    <3> QED
      BY <3>1, <3>2, <3>3
  <2>4. starts' = starts /\ (~raced' => ~raced)
    BY <1>0, <1>11 DEF O!Shutdown
  <2> QED
    BY <2>1, <2>2, <2>3, <2>4
<1> QED
  BY <1>1, <1>2, <1>3, <1>4, <1>5, <1>6, <1>7, <1>8, <1>9, <1>10, <1>11
  DEF O!Next, O!StartGoesOn, O!StopGoesOn

-----------------------------------------------------------------------------
\* The three invariants hold together: a step of the server there is leaves the
\* variables of the others alone.
LEMMA Inductive == Spec => []IInv
<1>1. Init => IInv
  <2> SUFFICES ASSUME Init PROVE IInv
    OBVIOUS
  <2>0. 0 \in 0..MaxStarts
    BY ServersAssumption DEF ServersAssumption
  <2>1. CASE kind = "mbtcp" /\ M!Init
    <3>1. M!TypeOK
      BY <2>0, <2>1 DEF M!Init, M!TypeOK, M!Runs, M!None
    <3>2. Published /\ Unbeaten /\ M!RaisesOnlyWhenBeaten
      BY <2>1 DEF M!Init, Published, Unbeaten, M!InStop, M!RaisesOnlyWhenBeaten, M!At
    <3> QED
      BY <2>1, <3>1, <3>2 DEF MbtcpInv, IInv
  <2>2. CASE kind = "s7comm" /\ S!Init
    <3>1. S!TypeOK
      BY <2>0, <2>2 DEF S!Init, S!TypeOK
    <3>2. Listening
      BY <2>2 DEF S!Init, Listening, S!Stopping
    <3> QED
      BY <2>2, <3>1, <3>2 DEF S7Inv, IInv
  <2>3. CASE kind = "dnp3" /\ O!Init
    <3>1. O!TypeOK
      BY <2>0, <2>3 DEF O!Init, O!TypeOK
    <3>2. MainStops /\ starts = 0 /\ Untouched /\ \A p \in O!Processes : ~O!Stops(p)
      BY <2>3 DEF O!Init, MainStops, Untouched, O!Stops, O!Processes
    <3> QED
      BY <2>3, <3>1, <3>2 DEF OutstationInv, IInv
  <2> QED
    BY <2>1, <2>2, <2>3 DEF Init
<1>2. IInv /\ [Next]_vars => IInv'
  <2> SUFFICES ASSUME IInv, [Next]_vars PROVE IInv'
    OBVIOUS
  <2> USE DEF IInv
  <2>1. CASE Mbtcp(M!Next)
    BY <2>1, MbtcpStep DEF Mbtcp
  <2>2. CASE S7comm(S!Next)
    BY <2>2, S7Step DEF S7comm
  <2>3. CASE Dnp3(O!Next)
    BY <2>3, OutstationStep DEF Dnp3
  <2>4. CASE UNCHANGED vars
    BY <2>4 DEF vars, mbtcpVars, s7Vars, dnp3Vars, MbtcpInv, M!TypeOK, Published, Unbeaten,
       M!InStop, M!Ending, M!RaisesOnlyWhenBeaten, M!At, S7Inv, S!TypeOK, Listening, S!Stopping,
       OutstationInv, O!TypeOK, MainStops, Untouched, OneStops, Releasing, O!Stops, O!Starts
  <2> QED
    BY <2>1, <2>2, <2>3, <2>4 DEF Next
<1> QED
  BY <1>1, <1>2, PTL DEF Spec

\* Every variable of the server there is stays in its range.
THEOREM TypeCorrect == Spec => []TypeOK
<1>1. IInv => TypeOK
  BY DEF IInv, TypeOK, MbtcpInv, S7Inv, OutstationInv
<1> QED
  BY <1>1, Inductive, PTL

\* Modbus: a stop() whose shutdown() the loop does not carry out, so that it
\* raises, was beaten to it: the service it found was ending or began to.
THEOREM MbtcpStopRaises == Spec => []MbtcpRaisesOnlyWhenBeaten
<1>1. IInv => MbtcpRaisesOnlyWhenBeaten
  BY DEF IInv, MbtcpInv, MbtcpRaisesOnlyWhenBeaten
<1> QED
  BY <1>1, Inductive, PTL

\* S7comm: nothing listens after the end, and the loop has its listener, unless
\* a stop() overlapped a start-up or start() was interrupted.
THEOREM S7Listens == Spec => []S7ListenerFollowsLoop
<1>1. IInv => S7ListenerFollowsLoop
  BY DEF IInv, S7Inv, Listening, S7ListenerFollowsLoop, S!ListenerFollowsLoop
<1> QED
  BY <1>1, Inductive, PTL

\* DNP3: a start() that has returned has released the outstation once, also after
\* an interrupt, unless a stop() overlapped the start-up or another stop().
THEOREM OutstationReleases == Spec => []OutstationReleasedOnce
<1>1. IInv => OutstationReleasedOnce
  BY DEF IInv, OutstationInv, Releasing, O!Starts, OutstationReleasedOnce, O!ReleasedOnce
<1> QED
  BY <1>1, Inductive, PTL

-----------------------------------------------------------------------------
(* Lifecycle *)

\* What a stop() found is a run, no later one than the current, and not one that
\* is starting up.
FoundRuns ==
    /\ starts \in Nat
    /\ found \in [Stoppers -> 0..starts]
    /\ pc # "idle" => starts > 0
    /\ StartingUp => \A s \in Stoppers : found[s] < starts

\* How far a stop() has come tells what it has done to the service it found, as
\* long as that serves.
Follows(s) ==
    /\ kind = "mbtcp" =>
        /\ stop[s] \in {"schedule", "waiting"} => coro[s] = starts
        /\ stop[s] = "waiting" => queue[s] = starts
        /\ stop[s] = "answered" => asked
    /\ kind = "s7comm" /\ stop[s] = "set" => stopped
    /\ kind = "dnp3" /\ stop[s] \in {"disable", "shutdown"} => ~running
Finding == \A s \in Stoppers : Serving /\ InStop(s) /\ found[s] = starts => Follows(s)

\* A step of start(), as Lifecycle sees it.
KeepsFound == \A s \in Stoppers : Found(s)' = Found(s)
StartMoves ==
    /\ KeepsFound
    /\ \/ /\ starts' = starts
          /\ \/ Stage' = Stage /\ Requested' = Requested
             \/ Stage = "new" /\ Stage' \in {"serving", "ending", "over"}
             \/ Stage = "serving" /\ Stage' \in {"ending", "over"}
             \/ Stage = "ending" /\ Stage' = "over"
       \/ starts' = starts + 1 /\ Stage = "over" /\ Stage' \in {"new", "over"}

\* A step of stop() by s, as Lifecycle sees it: it asks the service, finds it,
\* or comes back.
StopMoves(s) ==
    /\ starts' = starts /\ Stage' = Stage
    /\ \A r \in Stoppers \ {s} : Found(r)' = Found(r)
    /\ \/ Found(s)' = Found(s) /\ Requested' = IF Serving THEN {starts} ELSE {}
       \/ /\ Requested' = Requested
          /\ \/ Found(s)' = Found(s)
             \/ Found(s) = {} /\ Found(s)' = IF Serving THEN {starts} ELSE {}
             \/ Found(s)' = {} /\ (Serving /\ starts \in Found(s) => Asked)

\* Life is told by Stage, and Stage by pc.
StageOK ==
    /\ starts \in 0..MaxStarts
    /\ Stage \in {"new", "serving", "ending", "over"}
    /\ Serving <=> Stage = "serving"
    /\ Stage # "over" => starts > 0

\* A step of start() is one of Lifecycle.
LEMMA StartMaps == StageOK /\ StageOK' /\ StartMoves => [LC!Next]_(LC!vars)
<1> SUFFICES ASSUME StageOK, StageOK', StartMoves PROVE [LC!Next]_(LC!vars)
  OBVIOUS
<1> DEFINE life == [k \in 1..MaxStarts |-> Life(k)]
           waits == [s \in Stoppers |-> Found(s)]
<1> USE DEF StageOK
<1>1. UNCHANGED waits
  BY DEF StartMoves, KeepsFound
<1>2. ASSUME starts' = starts, starts > 0
      PROVE  /\ starts \in 1..MaxStarts /\ life[starts] = Stage
             /\ life' = [life EXCEPT ![starts] = Stage']
  <2>1. \A k \in 1..MaxStarts : Life(k)' = IF k = starts THEN Stage' ELSE Life(k)
    BY <1>2 DEF Life
  <2>2. starts \in 1..MaxStarts
    BY <1>2
  <2>3. Life(starts) = Stage
    BY DEF Life
  <2> QED
    BY <2>1, <2>2, <2>3
<1>3. CASE starts' = starts /\ Stage' = Stage /\ Requested' = Requested
  <2>1. \A k \in 1..MaxStarts : Life(k)' = Life(k)
    BY <1>3 DEF Life
  <2> QED
    BY <1>1, <1>3, <2>1 DEF LC!vars
<1>4. CASE starts' = starts /\ Stage = "new" /\ Stage' = "serving"
  <2>1. LC!Begin(starts)
    BY <1>1, <1>2, <1>4 DEF LC!Begin, LC!Become, Requested
  <2> QED
    BY <1>2, <1>4, <2>1 DEF LC!Next
<1>5. CASE starts' = starts /\ Stage = "new" /\ Stage' \in {"ending", "over"}
  <2>1. LC!Fail(starts)
    BY <1>1, <1>2, <1>5 DEF LC!Fail, LC!Become, Requested
  <2> QED
    BY <1>2, <1>5, <2>1 DEF LC!Next
<1>6. CASE starts' = starts /\ Stage = "serving" /\ Stage' \in {"ending", "over"}
  <2>1. LC!Leave(starts)
    BY <1>1, <1>2, <1>6 DEF LC!Leave, LC!Become, LC!Serving, Requested
  <2> QED
    BY <1>2, <1>6, <2>1 DEF LC!Next
<1>7. CASE starts' = starts /\ Stage = "ending" /\ Stage' = "over"
  <2>1. LC!Finish(starts)
    BY <1>1, <1>2, <1>7 DEF LC!Finish, LC!Become, Requested
  <2> QED
    BY <1>2, <1>7, <2>1 DEF LC!Next
<1>8. CASE starts' = starts + 1 /\ Stage = "over" /\ Stage' = "new"
  <2>1. \A k \in 1..MaxStarts : Life(k)' = Life(k)
    BY <1>8 DEF Life
  <2>2. Requested' = Requested
    BY <1>8 DEF Requested
  <2> QED
    BY <1>1, <2>1, <2>2 DEF LC!vars
<1>9. CASE starts' = starts + 1 /\ Stage = "over" /\ Stage' = "over"
  <2>1. starts + 1 \in 1..MaxStarts
    BY <1>9
  <2>2. \A k \in 1..MaxStarts : Life(k)' = IF k = starts + 1 THEN "over" ELSE Life(k)
    BY <1>9 DEF Life
  <2>3. Life(starts + 1) = "new"
    BY DEF Life
  <2>4. Requested' = Requested
    BY <1>9 DEF Requested
  <2>5. LC!Fail(starts + 1)
    BY <1>1, <2>1, <2>2, <2>3, <2>4 DEF LC!Fail, LC!Become
  <2> QED
    BY <2>1, <2>5 DEF LC!Next
<1> QED
  BY <1>3, <1>4, <1>5, <1>6, <1>7, <1>8, <1>9 DEF StartMoves

\* A step of stop() is one of Lifecycle.
LEMMA StopMaps ==
    ASSUME NEW s \in Stoppers
    PROVE  StageOK /\ StageOK' /\ FoundRuns /\ StopMoves(s) => [LC!Next]_(LC!vars)
<1> SUFFICES ASSUME StageOK, StageOK', FoundRuns, StopMoves(s) PROVE [LC!Next]_(LC!vars)
  OBVIOUS
<1> DEFINE life == [k \in 1..MaxStarts |-> Life(k)]
           waits == [r \in Stoppers |-> Found(r)]
<1> USE DEF StageOK
<1>1. UNCHANGED life
  BY DEF StopMoves, Life
<1>2. waits' = [waits EXCEPT ![s] = Found(s)']
  BY DEF StopMoves
<1>3. Serving => starts \in 1..MaxStarts /\ life[starts] = "serving"
  BY DEF Life
<1>4. \A k \in Found(s) : k \in 1..MaxStarts /\ (life[k] = "serving" => Serving /\ k = starts)
  <2>1. ASSUME NEW k \in Found(s) PROVE k \in 1..MaxStarts
    <3>1. k = found[s] /\ k # 0 /\ found[s] \in 0..starts
      BY DEF FoundRuns, Found
    <3>2. starts \in 0..MaxStarts /\ MaxStarts \in Nat
      BY ServersAssumption DEF ServersAssumption
    <3> QED
      BY <3>1, <3>2
  <2>2. \A k \in 1..MaxStarts : Life(k) = "serving" => Serving /\ k = starts
    BY DEF Life
  <2> QED
    BY <2>1, <2>2
<1>5. CASE Found(s)' = Found(s) /\ Requested' = Requested
  BY <1>1, <1>2, <1>5 DEF LC!vars
<1>6. CASE Found(s)' = Found(s) /\ Requested' = IF Serving THEN {starts} ELSE {}
  <2>1. CASE Serving
    <3>1. LC!Ask(starts)
      BY <1>1, <1>2, <1>3, <1>6, <2>1 DEF LC!Ask, LC!Serving, Requested
    <3> QED
      BY <1>3, <2>1, <3>1 DEF LC!Next
  <2>2. CASE ~Serving
    BY <1>1, <1>2, <1>6, <2>2 DEF LC!vars, Requested
  <2> QED
    BY <2>1, <2>2
<1>7. CASE Requested' = Requested /\ Found(s) = {} /\ Found(s)' = IF Serving THEN {starts} ELSE {}
  <2>1. CASE Serving
    <3>1. LC!Stop(s, starts)
      BY <1>1, <1>2, <1>3, <1>7, <2>1 DEF LC!Stop, LC!Serving
    <3> QED
      BY <1>3, <2>1, <3>1 DEF LC!Next
  <2>2. CASE ~Serving
    BY <1>1, <1>2, <1>7, <2>2 DEF LC!vars
  <2> QED
    BY <2>1, <2>2
<1>8. CASE Requested' = Requested /\ Found(s)' = {} /\ Found(s) # {}
           /\ (Serving /\ starts \in Found(s) => Asked)
  <2>1. \A k \in Found(s) : life[k] = "serving" => k \in Requested
    BY <1>4, <1>8 DEF Requested
  <2>2. LC!Return(s)
    BY <1>1, <1>2, <1>8, <2>1 DEF LC!Return, LC!Serving
  <2> QED
    BY <2>2 DEF LC!Next
<1> QED
  BY <1>5, <1>6, <1>7, <1>8 DEF StopMoves

-----------------------------------------------------------------------------
\* pc is one of the stages.
LEMMA StageCorrect == IInv /\ FoundRuns => StageOK
<1> SUFFICES ASSUME IInv, FoundRuns PROVE StageOK
  OBVIOUS
<1> USE DEF IInv, FoundRuns, StageOK, Stage, StartingUp, Serving, Ending
<1>1. CASE kind = "mbtcp"
  BY <1>1 DEF MbtcpInv, M!TypeOK
<1>2. CASE kind = "s7comm"
  BY <1>2 DEF S7Inv, S!TypeOK
<1>3. CASE kind = "dnp3"
  BY <1>3 DEF OutstationInv, O!TypeOK
<1> QED
  BY <1>1, <1>2, <1>3

\* While no stop() moves, none finds another service.
LEMMA StartKeeps ==
    FoundRuns /\ Observe /\ (\A s \in Stoppers : stop'[s] = stop[s])
        => found' = found /\ KeepsFound
<1> SUFFICES ASSUME FoundRuns, Observe, \A s \in Stoppers : stop'[s] = stop[s]
             PROVE  found' = found /\ KeepsFound
  OBVIOUS
<1>1. found' = found
  BY DEF FoundRuns, Observe, InStop
<1> QED
  BY <1>1 DEF KeepsFound, Found, InStop

\* A stop() that is called finds the service that serves; nothing else changes
\* what was found.
LEMMA StopKeeps ==
    ASSUME NEW s \in Stoppers,
           FoundRuns, Observe, starts' = starts, pc' = pc,
           \A r \in Stoppers \ {s} : stop'[r] = stop[r]
    PROVE  /\ FoundRuns' /\ Stage' = Stage /\ Serving' = Serving
           /\ \A r \in Stoppers \ {s} : found'[r] = found[r] /\ Found(r)' = Found(r)
           /\ InStop(s) => found'[s] = found[s]
           /\ InStop(s) /\ InStop(s)' => Found(s)' = Found(s)
           /\ ~InStop(s) => Found(s) = {}
           /\ ~InStop(s)' => Found(s)' = {}
           /\ ~InStop(s) /\ InStop(s)' => Found(s)' = IF Serving THEN {starts} ELSE {}
<1>1. \A r \in Stoppers \ {s} : InStop(r)' = InStop(r)
  BY DEF InStop
<1>2. \A r \in Stoppers :
        found'[r] = IF InStop(r)' /\ ~InStop(r) THEN (IF Serving THEN starts ELSE 0) ELSE found[r]
  BY DEF Observe
<1>3. Stage' = Stage /\ Serving' = Serving /\ StartingUp' = StartingUp
  BY DEF Stage, Serving, StartingUp, Ending
<1>4. Serving => ~StartingUp /\ pc # "idle"
  BY DEF Serving, StartingUp
<1>5. found' = [r \in Stoppers |-> found'[r]]
  BY DEF Observe
<1>6. FoundRuns'
  BY <1>2, <1>3, <1>4, <1>5 DEF FoundRuns
<1> QED
  BY <1>1, <1>2, <1>3, <1>4, <1>5, <1>6 DEF Found, FoundRuns

-----------------------------------------------------------------------------
\* What a step of some server has to show.
Moved == (FoundRuns /\ Finding)' /\ (StartMoves \/ \E s \in Stoppers : StopMoves(s))

\* A stop() that is called: it has found what serves, and no other has moved.
LEMMA CallMoves ==
    ASSUME NEW s \in Stoppers,
           FoundRuns, Finding, Observe, UNCHANGED <<kind, starts, pc>>,
           \A r \in Stoppers \ {s} : stop'[r] = stop[r] /\ (Follows(r) => Follows(r)'),
           ~InStop(s), InStop(s)' => Follows(s)', Requested' = Requested
    PROVE  Moved
<1>1. /\ FoundRuns' /\ Stage' = Stage /\ Serving' = Serving
      /\ \A r \in Stoppers \ {s} : found'[r] = found[r] /\ Found(r)' = Found(r)
      /\ Found(s) = {}
      /\ ~InStop(s)' => Found(s)' = {}
      /\ InStop(s)' => Found(s)' = IF Serving THEN {starts} ELSE {}
  BY StopKeeps
<1>2. Finding'
  BY <1>1 DEF Finding, InStop
<1>3. StopMoves(s)
  BY <1>1 DEF StopMoves
<1> QED
  BY <1>1, <1>2, <1>3 DEF Moved

\* A stop() that goes on asks its service, comes back when it was asked, or
\* does neither.
LEMMA StopGoes ==
    ASSUME NEW s \in Stoppers,
           FoundRuns, Finding, Observe, UNCHANGED <<kind, starts, pc>>,
           \A r \in Stoppers \ {s} : stop'[r] = stop[r] /\ (Follows(r) => Follows(r)'),
           InStop(s),
           \/ /\ InStop(s)' /\ (Serving /\ found[s] = starts /\ Follows(s) => Follows(s)')
              /\ Requested' \in {Requested, IF Serving THEN {starts} ELSE {}}
           \/ /\ ~InStop(s)' /\ Requested' = Requested
              /\ Serving /\ found[s] = starts /\ Follows(s) => Asked
    PROVE  Moved
<1>1. /\ FoundRuns' /\ Stage' = Stage /\ Serving' = Serving
      /\ \A r \in Stoppers \ {s} : found'[r] = found[r] /\ Found(r)' = Found(r)
      /\ found'[s] = found[s]
      /\ InStop(s)' => Found(s)' = Found(s)
      /\ ~InStop(s)' => Found(s)' = {}
  BY StopKeeps
<1>2. Finding'
  BY <1>1 DEF Finding, InStop
<1>3. Serving /\ starts \in Found(s) /\ ~InStop(s)' => Asked
  BY DEF Found, Finding
<1>4. StopMoves(s)
  BY <1>1, <1>3 DEF StopMoves
<1> QED
  BY <1>1, <1>2, <1>4 DEF Moved

\* A step of start() to another stage, or within one.
LEMMA StartGoes ==
    ASSUME FoundRuns, Finding, Observe, UNCHANGED <<kind, starts>>,
           \A s \in Stoppers : stop'[s] = stop[s],
           pc' # "idle" => starts > 0, StartingUp' => StartingUp,
           Serving' => StartingUp \/ (Serving /\ \A s \in Stoppers : Follows(s) => Follows(s)'),
           \/ Stage' = Stage /\ Requested' = Requested
           \/ Stage = "new" /\ Stage' \in {"serving", "ending", "over"}
           \/ Stage = "serving" /\ Stage' \in {"ending", "over"}
           \/ Stage = "ending" /\ Stage' = "over"
    PROVE  Moved
<1>1. found' = found /\ KeepsFound
  BY StartKeeps
<1>2. FoundRuns'
  BY <1>1 DEF FoundRuns
<1>3. Finding'
  BY <1>1 DEF Finding, FoundRuns, InStop
<1>4. StartMoves
  BY <1>1 DEF StartMoves
<1> QED
  BY <1>2, <1>3, <1>4 DEF Moved

\* A call of start(): a new run, which starts up or is over at once.
LEMMA StartCalled ==
    ASSUME FoundRuns, Observe, UNCHANGED kind, \A s \in Stoppers : stop'[s] = stop[s],
           starts' = starts + 1, pc = "idle", StartingUp' \/ pc' = "idle"
    PROVE  Moved
<1>1. found' = found /\ KeepsFound
  BY StartKeeps
<1>2. FoundRuns'
  BY <1>1 DEF FoundRuns
<1>3. Finding'
  BY DEF Finding, Serving, StartingUp
<1>4. Stage = "over" /\ Stage' \in {"new", "over"}
  BY DEF Stage, StartingUp, Serving, Ending
<1>5. StartMoves
  BY <1>1, <1>4 DEF StartMoves
<1> QED
  BY <1>2, <1>3, <1>5 DEF Moved

\* MbtcpServer moves as Lifecycle says.
LEMMA MbtcpMoves == MbtcpInv /\ FoundRuns /\ Finding /\ Mbtcp(M!Next) => Moved
<1> SUFFICES ASSUME MbtcpInv, FoundRuns, Finding, Mbtcp(M!Next) PROVE Moved
  OBVIOUS
<1>0. kind = "mbtcp" /\ kind' = kind /\ Observe
  BY DEF Mbtcp
<1> USE <1>0
    DEF MbtcpInv, M!TypeOK, M!None, Published, FoundRuns, Follows, InStop, Requested, Asked,
        Stage, StartingUp, Serving, Ending, M!At, M!Goto
<1>1. CASE M!Start
  BY <1>1, StartCalled DEF M!Start
<1>2. CASE M!CreateServer
  BY <1>2, StartGoes DEF M!CreateServer
<1>3. CASE M!Serve
  BY <1>3, StartGoes DEF M!Serve
<1>4. CASE M!ServeEnds
  BY <1>4, StartGoes DEF M!ServeEnds
<1>5. CASE M!Interrupt
  BY <1>5, StartGoes DEF M!Interrupt
<1>6. CASE M!CloseLoop
  BY <1>6, StartGoes DEF M!CloseLoop
<1>7. CASE M!UnsetServer
  BY <1>7, StartGoes DEF M!UnsetServer
<1>8. CASE M!UnsetLoop
  BY <1>8, StartGoes DEF M!UnsetLoop
<1>9. ASSUME NEW s \in Stoppers, M!Stop(s) PROVE Moved
  BY <1>9, CallMoves DEF M!Stop
<1>10. ASSUME NEW s \in Stoppers, M!ReadLoop(s) PROVE Moved
  BY <1>10, StopGoes DEF M!ReadLoop
<1>11. ASSUME NEW s \in Stoppers, M!CallShutdown(s) PROVE Moved
  BY <1>11, StopGoes DEF M!CallShutdown
<1>12. ASSUME NEW s \in Stoppers, M!Schedule(s) PROVE Moved
  BY <1>12, StopGoes DEF M!Schedule, M!LoopClosed
<1>13. ASSUME NEW s \in Stoppers, M!RunShutdown(s) PROVE Moved
  BY <1>13, StopGoes DEF M!RunShutdown
<1>14. ASSUME NEW s \in Stoppers, M!ShutdownDone(s) PROVE Moved
  BY <1>14, StopGoes DEF M!ShutdownDone
<1>15. ASSUME NEW s \in Stoppers, M!ResultTimesOut(s) PROVE Moved
  BY <1>15, StopGoes DEF M!ResultTimesOut, M!LoopRuns
<1> QED
  BY <1>1, <1>2, <1>3, <1>4, <1>5, <1>6, <1>7, <1>8, <1>9, <1>10, <1>11, <1>12, <1>13,
     <1>14, <1>15 DEF Mbtcp, M!Next, M!StartGoesOn, M!StopGoesOn

\* S7commServer moves as Lifecycle says.
LEMMA S7Moves == S7Inv /\ FoundRuns /\ Finding /\ S7comm(S!Next) => Moved
<1> SUFFICES ASSUME S7Inv, FoundRuns, Finding, S7comm(S!Next) PROVE Moved
  OBVIOUS
<1>0. kind = "s7comm" /\ kind' = kind /\ Observe
  BY DEF S7comm
<1> USE <1>0
    DEF S7Inv, S!TypeOK, FoundRuns, Follows, InStop, Requested, Asked,
        Stage, StartingUp, Serving, Ending
<1>1. CASE S!Start
  BY <1>1, StartCalled DEF S!Start
<1>2. CASE S!Clear
  BY <1>2, StartGoes DEF S!Clear
<1>3. CASE S!StartTo
  BY <1>3, StartGoes DEF S!StartTo
<1>4. CASE S!LeaveLoop
  BY <1>4, StartGoes DEF S!LeaveLoop
<1>5. CASE S!Interrupt
  BY <1>5, StartGoes DEF S!Interrupt
<1>6. ASSUME NEW s \in Stoppers, S!Stop(s) PROVE Moved
  BY <1>6, CallMoves DEF S!Stop
<1>7. ASSUME NEW s \in Stoppers, S!Set(s) PROVE Moved
  BY <1>7, StopGoes DEF S!Set
<1>8. ASSUME NEW s \in Stoppers, S!CloseListener(s) PROVE Moved
  BY <1>8, StopGoes DEF S!CloseListener
<1> QED
  BY <1>1, <1>2, <1>3, <1>4, <1>5, <1>6, <1>7, <1>8
  DEF S7comm, S!Next, S!StartGoesOn, S!StopGoesOn

\* OutstationServer moves as Lifecycle says; the stop() at the end of start() is
\* part of start().
LEMMA OutstationMoves == OutstationInv /\ FoundRuns /\ Finding /\ Dnp3(O!Next) => Moved
<1> SUFFICES ASSUME OutstationInv, FoundRuns, Finding, Dnp3(O!Next) PROVE Moved
  OBVIOUS
<1>0. kind = "dnp3" /\ kind' = kind /\ Observe
  BY DEF Dnp3
<1> USE <1>0, ServersAssumption
    DEF ServersAssumption, OutstationInv, O!TypeOK, MainStops, O!Stops, O!Processes, FoundRuns,
        Follows, InStop, Requested, Asked, Stage, StartingUp, Serving, Ending
<1>1. CASE O!Start
  BY <1>1, StartCalled DEF O!Start
<1>2. CASE O!SetRunning
  BY <1>2, StartGoes DEF O!SetRunning
<1>3. CASE O!Enable
  BY <1>3, StartGoes DEF O!Enable
<1>4. CASE O!LeaveLoop
  BY <1>4, StartGoes DEF O!LeaveLoop
<1>5. CASE O!Interrupt
  BY <1>5, StartGoes DEF O!Interrupt
<1>6. CASE O!Finally
  BY <1>6, StartGoes DEF O!Finally
<1>7. CASE O!StartReturns
  BY <1>7, StartGoes DEF O!StartReturns
<1>8. CASE O!StopGoesOn(Main)
  BY <1>8, StartGoes DEF O!StopGoesOn, O!ClearRunning, O!Disable, O!Shutdown
<1>9. ASSUME NEW s \in Stoppers, O!Stop(s) PROVE Moved
  BY <1>9, CallMoves DEF O!Stop
<1>10. ASSUME NEW s \in Stoppers, O!ClearRunning(s) PROVE Moved
  BY <1>10, StopGoes DEF O!ClearRunning
<1>11. ASSUME NEW s \in Stoppers, O!Disable(s) PROVE Moved
  BY <1>11, StopGoes DEF O!Disable
<1>12. ASSUME NEW s \in Stoppers, O!Shutdown(s) PROVE Moved
  BY <1>12, StopGoes DEF O!Shutdown
<1>13. ASSUME NEW p \in O!Processes, O!StopGoesOn(p) PROVE Moved
  BY <1>8, <1>10, <1>11, <1>12, <1>13 DEF O!StopGoesOn
<1> QED
  BY <1>1, <1>2, <1>3, <1>4, <1>5, <1>6, <1>7, <1>9, <1>13 DEF Dnp3, O!Next, O!StartGoesOn

-----------------------------------------------------------------------------
\* What every stop() found, and how far it has come with it, stays as FoundRuns
\* and Finding say.
LEMMA FoundCorrect == Spec => [](FoundRuns /\ Finding)
<1>1. Init => FoundRuns /\ Finding
  BY DEF Init, M!Init, S!Init, O!Init, FoundRuns, Finding, StartingUp, Serving
<1>2. IInv /\ FoundRuns /\ Finding /\ [Next]_vars => (FoundRuns /\ Finding)'
  <2> SUFFICES ASSUME IInv, FoundRuns, Finding, [Next]_vars PROVE (FoundRuns /\ Finding)'
    OBVIOUS
  <2>1. CASE Next
    <3>1. Moved
      BY <2>1, MbtcpMoves, S7Moves, OutstationMoves DEF Next, IInv, Mbtcp, S7comm, Dnp3
    <3> QED
      BY <3>1 DEF Moved
  <2>2. CASE UNCHANGED vars
    BY <2>2 DEF vars, mbtcpVars, s7Vars, dnp3Vars, FoundRuns, Finding, Follows, StartingUp,
       Serving, InStop
  <2> QED
    BY <2>1, <2>2
<1> QED
  BY <1>1, <1>2, Inductive, PTL DEF Spec

\* start() and stop() of each server are those of Lifecycle, step by step: a
\* service ends only when it was asked to or interrupted, and a stop() that found
\* a service comes back only when it has asked it or the service is over.  (That
\* they do come back is the fairness part of Lifecycle's Spec, which TLC checks.)
THEOREM StepsOfLifecycle == Spec => LC!Safety
<1>1. Init => LC!Init
  <2> SUFFICES ASSUME Init PROVE LC!Init
    OBVIOUS
  <2>1. starts = 0 /\ pc = "idle" /\ \A s \in Stoppers : ~InStop(s)
    BY DEF Init, M!Init, S!Init, O!Init, O!Processes, InStop
  <2> QED
    BY <2>1 DEF LC!Init, Life, Requested, Serving, Found
<1>2. IInv /\ FoundRuns /\ Finding /\ StageOK /\ StageOK' /\ [Next]_vars
      => [LC!Next]_(LC!vars)
  <2> SUFFICES ASSUME IInv, FoundRuns, Finding, StageOK, StageOK', [Next]_vars
               PROVE  [LC!Next]_(LC!vars)
    OBVIOUS
  <2>1. CASE Next
    <3>1. Moved
      BY <2>1, MbtcpMoves, S7Moves, OutstationMoves DEF Next, IInv, Mbtcp, S7comm, Dnp3
    <3> QED
      BY <3>1, StartMaps, StopMaps DEF Moved
  <2>2. CASE UNCHANGED vars
    BY <2>2 DEF vars, mbtcpVars, s7Vars, dnp3Vars, LC!vars, Life, Stage, StartingUp, Serving,
       Ending, Requested, Asked, Found, InStop
  <2> QED
    BY <2>1, <2>2
<1> QED
  BY <1>1, <1>2, Inductive, FoundCorrect, StageCorrect, PTL DEF Spec, LC!Safety
=============================================================================
