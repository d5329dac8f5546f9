---------------------------- MODULE StarterDocker ----------------------------
(***************************************************************************)
(* A Starter for protocol "dnp3" with its default runtime: Dnp3Server      *)
(* hands start() and stop() to Dnp3DockerServer, which runs docker compose *)
(* commands and remembers in _running whether its last up succeeded.  The  *)
(* compose project is named after the port alone, so all runs of one       *)
(* Starter share one container.                                            *)
(*                                                                         *)
(* A command ends with success, with CalledProcessError or, at any time,   *)
(* with TimeoutExpired; what it had done by then stays done, and what the  *)
(* daemon was still doing for it may be done later.  The daemon and the    *)
(* program in the container are external.                                  *)
(***************************************************************************)
EXTENDS Starter, Dnp3Container

VARIABLES
    up,         \* where server thread r is in Dnp3DockerServer.start()
    running,    \* _running of each backend
    container,  \* "absent", "starting", "accepting" or "killed"
    pending,    \* what the daemon may still do for commands that have failed
    down,       \* where the controller is in Dnp3DockerServer.stop()
    \* history, read by no step
    lost,       \* runs replaced while alive, or whose stop() came before _running
    failed,     \* some docker compose command did not succeed
    belated     \* the daemon has done something for a command that had failed

dockerVars == <<up, running, container, pending, down>>
dockerHistory == <<lost, failed, belated>>
allVars == <<vars, dockerVars, dockerHistory>>

DockerInit ==
    /\ Init
    /\ up = [r \in Runs |-> "idle"]
    /\ running = [r \in Runs |-> FALSE]
    /\ container = "absent"
    /\ pending = {}
    /\ down = "idle"
    /\ lost = {}
    /\ failed = FALSE
    /\ belated = FALSE

\* What the commands do to the container.
Effects == {"create", "kill", "remove"}
After(effect) ==
    CASE effect = "create" -> IF container \in {"absent", "killed"} THEN "starting" ELSE container
      [] effect = "kill" -> IF container = "absent" THEN "absent" ELSE "killed"
      [] effect = "remove" -> "absent"

\* A command of stop() fails after its effect or before, and then the daemon may
\* bring it about later.
FailsTo(effect) ==
    /\ failed' = TRUE
    /\ \/ container' = container /\ pending' \in {pending, pending \cup {effect}}
       \/ container' = After(effect) /\ UNCHANGED pending

-----------------------------------------------------------------------------
(* start(), by server thread r *)

\* Dnp3Server.start() calls the start() of the docker backend it made.
StartCalled(r) ==
    /\ CallStart(r)
    /\ up' = [up EXCEPT ![r] = IF server = None THEN "idle" ELSE "check"]
    /\ UNCHANGED <<running, container, pending, down, dockerHistory>>

CheckRunning(r) ==
    /\ up[r] = "check"
    /\ up' = [up EXCEPT ![r] = IF running[target[r]] THEN "returned" ELSE "up"]
    /\ UNCHANGED <<vars, running, container, pending, down, dockerHistory>>

\* docker compose up --build -d creates and starts the container, if it is not
\* there and running already ...
UpCreates(r) ==
    /\ up[r] = "up"
    /\ up' = [up EXCEPT ![r] = "created"]
    /\ container' = After("create")
    /\ UNCHANGED <<vars, running, pending, down, dockerHistory>>

\* ... and returns without waiting for the program in it,
UpSucceeds(r) ==
    /\ up[r] = "created"
    /\ up' = [up EXCEPT ![r] = "mark"]
    /\ UNCHANGED <<vars, running, container, pending, down, dockerHistory>>

\* or it fails, or its timeout expires, before or after that.
UpFails(r) ==
    /\ up[r] \in {"up", "created"}
    /\ up' = [up EXCEPT ![r] = "raised"]
    /\ failed' = TRUE
    /\ pending' \in {pending, IF up[r] = "up" THEN pending \cup {"create"} ELSE pending}
    /\ UNCHANGED <<vars, running, container, down, lost, belated>>

\* self._running = True
MarkRunning(r) ==
    /\ up[r] = "mark"
    /\ running' = [running EXCEPT ![target[r]] = TRUE]
    /\ up' = [up EXCEPT ![r] = "returned"]
    /\ UNCHANGED <<vars, container, pending, down, dockerHistory>>

UpStep(r) ==
    \/ CheckRunning(r) \/ UpCreates(r) \/ UpSucceeds(r) \/ UpFails(r) \/ MarkRunning(r)

StartEnds(r) ==
    /\ \/ up[r] = "returned" /\ StartReturns(r)
       \/ up[r] = "raised" /\ StartRaises(r)
    /\ UNCHANGED <<dockerVars, dockerHistory>>

-----------------------------------------------------------------------------
(* stop(), by the controller *)

StopCalled ==
    /\ StopServer
    /\ down' = "check"
    /\ UNCHANGED <<up, running, container, pending, dockerHistory>>

CheckStop ==
    /\ down = "check"
    /\ down' = IF running[server] THEN "down" ELSE "returned"
    /\ lost' = IF ~running[server] /\ ThreadAlive THEN lost \cup {server} ELSE lost
    /\ UNCHANGED <<vars, up, running, container, pending, failed, belated>>

\* Mutant: docker compose stop leaves the container.
DownOnlyStops ==
    /\ down \in {"down", "down_again"}
    /\ container' = After("kill")
    /\ down' = "clear"
    /\ UNCHANGED <<vars, up, running, pending, dockerHistory>>

\* docker compose down --remove-orphans, the first time or after a kill.
DownSucceeds ==
    /\ down \in {"down", "down_again"}
    /\ container' = After("remove")
    /\ down' = "clear"
    /\ UNCHANGED <<vars, up, running, pending, dockerHistory>>

\* CalledProcessError, or TimeoutExpired in the handler of the first one, goes
\* through the finally clause.
CommandRaises ==
    /\ down \in {"down", "kill", "down_again"}
    /\ FailsTo(IF down = "kill" THEN "kill" ELSE "remove")
    /\ down' = "clear_raising"
    /\ UNCHANGED <<vars, up, running, lost, belated>>

DownTimesOut ==
    /\ down = "down"
    /\ FailsTo("remove")
    /\ down' = "kill"
    /\ UNCHANGED <<vars, up, running, lost, belated>>

\* docker compose kill
KillSucceeds ==
    /\ down = "kill"
    /\ container' = After("kill")
    /\ down' = "down_again"
    /\ UNCHANGED <<vars, up, running, pending, dockerHistory>>

\* Mutant: _running is cleared on the exceptional way only.
ClearRunningOnError ==
    /\ down \in {"clear", "clear_raising"}
    /\ running' = IF down = "clear" THEN running ELSE [running EXCEPT ![server] = FALSE]
    /\ down' = IF down = "clear" THEN "returned" ELSE "raised"
    /\ UNCHANGED <<vars, up, container, pending, dockerHistory>>

\* finally: self._running = False
ClearRunning ==
    /\ down \in {"clear", "clear_raising"}
    /\ running' = [running EXCEPT ![server] = FALSE]
    /\ down' = IF down = "clear" THEN "returned" ELSE "raised"
    /\ UNCHANGED <<vars, up, container, pending, dockerHistory>>

DownStep ==
    \/ CheckStop \/ DownSucceeds \/ CommandRaises \/ DownTimesOut \/ KillSucceeds
    \/ ClearRunning

StopEnds ==
    /\ \/ down = "returned" /\ StopReturns
       \/ down = "raised" /\ StopRaises
    /\ down' = "idle"
    /\ UNCHANGED <<up, running, container, pending, dockerHistory>>

-----------------------------------------------------------------------------
(* The daemon, the program in the container, the Starter's own steps and the probes *)

DaemonFinishes(effect) ==
    /\ effect \in pending
    /\ pending' = pending \ {effect}
    /\ container' = After(effect)
    /\ belated' = TRUE
    /\ UNCHANGED <<vars, up, running, down, lost, failed>>

ProgramAccepts ==
    /\ container = "starting"
    /\ container' = "accepting"
    /\ UNCHANGED <<vars, up, running, pending, down, dockerHistory>>

StartReplaces ==
    /\ StartServer
    /\ lost' = IF ThreadAlive THEN lost \cup {serverThread} ELSE lost
    /\ UNCHANGED <<dockerVars, failed, belated>>

StarterStep ==
    /\ \/ ControllerGoesOn
       \/ \E r \in Runs : ReadServer(r) \/ FailStep(r)
       \/ \E m \in Runs : MonitorStep(m)
       \/ \E m \in Runs : ProbeSucceeds(m) /\ container = "accepting"
       \/ \E m \in Runs : ProbeFails(m)
       \/ \E w \in Waiters : WaitStep(w)
    /\ UNCHANGED <<dockerVars, dockerHistory>>

DockerNext ==
    \/ StartReplaces \/ StopCalled \/ DownStep \/ StopEnds \/ ProgramAccepts \/ StarterStep
    \/ \E effect \in Effects : DaemonFinishes(effect)
    \/ \E r \in Runs : StartCalled(r) \/ UpStep(r) \/ StartEnds(r)

Backend(A) == A /\ UNCHANGED <<dockerVars, dockerHistory>>

\* Threads that can run are scheduled, and every command ends, by its timeout at
\* the latest.  A program that accepts answers some probe, if probes go on.
DockerFairness ==
    /\ WF_allVars(DownStep \/ StopEnds \/ Backend(ControllerGoesOn))
    /\ \A r \in Runs : WF_allVars(StartCalled(r) \/ UpStep(r) \/ StartEnds(r)
                                  \/ Backend(ReadServer(r) \/ FailStep(r)))
    /\ \A m \in Runs :
          /\ WF_allVars(Backend(MonitorStep(m) \/ ProbeFails(m)))
          /\ SF_allVars(Backend(ProbeSucceeds(m) /\ container = "accepting"))
    /\ WF_allVars(ProgramAccepts)

DockerSpec == DockerInit /\ [][DockerNext]_allVars
FairDockerSpec == DockerSpec /\ DockerFairness

-----------------------------------------------------------------------------
(* Properties *)

\* A container outlives stop_server only for a cause: a docker command failed,
\* or a run was stopped before its up had returned, or replaced without a stop.
LeftContainerHasCause ==
    ctl = "idle" /\ server = None /\ container # "absent" => failed \/ lost # {}

\* Whatever container runs, its outstation has the configuration of its server.
ContainerGetsConfig == container # "absent" => ConfigArrives

\* _running of the current backend is not stale: while it is set and no stop is
\* under way, the container is there, unless a lost run shares it or the daemon
\* removed it late for a command that had failed.
RunningHasContainer ==
    server # None /\ running[server] /\ down = "idle" /\ lost = {} /\ ~belated
        => container # "absent"

\* What stop_server's docstring says, "Stop the server if it is running and clean
\* up threads": with no failing command, no container is left.
StopServerCleansUp ==
    ctl = "idle" /\ server = None /\ ~failed => container = "absent"

\* What the README says of ready_event, a "readiness signal ... including dnp3
\* when it is started through Docker and needs extra time before accepting
\* connections": a container that accepts makes it set, or the run ends.
ReadyWhenAccepting ==
    \A r \in Runs :
        container = "accepting" /\ serverThread = r /\ ctl = "idle" /\ srv[r] = "exited"
            ~> ready \/ serverThread # r \/ container # "accepting"
=============================================================================
