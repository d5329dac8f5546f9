# A verification project for Cursus

Cursus starts small servers that speak industrial protocols (EtherNet/IP,
BACnet/IP, DNP3, Modbus/TCP, S7comm) behind one interface, so that a client can
be developed against them. This directory models its concurrent core in TLA+,
checks it with TLC on small instances and proves its safety properties with TLAPS for
every size. Paths in the text are relative to `src/cursus/` of the repository unless
they say otherwise; the entries of `PROJECT.json` give the line ranges every
definition stands for.

## The system

| Component | State | Operations |
| --- | --- | --- |
| **Starter** (`starter.py`) | `_server`, `_server_thread`, `_server_error`, `_ready_event`; no lock | `start_server`, `stop_server`, `wait_until_ready`; a server thread (`_run_server`) and a readiness monitor (`_monitor_server_readiness`) per start |
| **EtherNet/IP server** (`enip/server.py`) | `_server`; `_active_sessions`, `_next_session_handle` under `_session_lock`; `_assemblies` under `_assembly_lock` | `start`, `stop`, one handler thread per TCP connection, `set_assembly_data` |
| **BACnet/IP server** (`bacnet/server.py`) | `_server`; `_analog_values` under `_analog_value_lock`, `present_value` of each | `start`, `stop`, one handler thread per datagram, `set_present_value` |
| **DNP3 docker runtime** (`dnp3/docker_server.py`, `dnp3/server.py`) | `_running`; the container of the compose project | `start` (compose up), `stop` (compose down, kill, down) |
| **DNP3 native outstation** (`dnp3/outstation_server.py`) | `_running`, `_outstation`, `_channel` | `start` (waits in a loop), `stop` |
| **DNP3 container entry point** (`dnp3/assets/run_server.py`, the compose file) | none | reads environment variables, starts the native outstation |
| **Modbus/TCP server** (`mbtcp/server.py`) | `_server`, `_loop` | `start` (an asyncio loop), `stop` from another thread |
| **S7comm server** (`s7comm/server.py`) | `_stopped` event, the snap7 server | `start` (waits for the event), `stop` |

How they interact. `start_server` makes a backend object and calls its blocking
`start()` in a server thread. The monitor, in a third thread, probes the port
until something answers and then sets `_ready_event`. `stop_server` calls the
backend's `stop()`, joins the thread for at most `delay + 1` seconds and clears
the attributes, whatever happened. Callers of `wait_until_ready` block on the
event. All of this goes through plain attributes: Python's GIL makes one read or
write atomic and nothing more.

What is hard here:

* *Identity.* A late thread of an earlier run reads the attributes of the next
  one: it may start the wrong backend (`starter.py:113`), blame the wrong run
  (`:115`), keep an old monitor alive (`:126`) or report the wrong run ready
  (`:133`).
* *Stopping too early.* Each backend's `stop()` does nothing before `start()` has
  published something to stop, and the server then runs on.
* *Check, then use.* `if self._server is None: return` followed by
  `self._server.shutdown()` reads the attribute twice.
* *Partial failure.* Every docker command may fail or time out, with or without
  having taken effect.
* *Datagrams.* Each BACnet datagram gets a thread of its own; they are repeated,
  lost and reordered, and share values that are read outside the lock.
* *Streams and sessions.* EtherNet/IP frames arrive in arbitrary chunks, sessions
  end while requests for them are under way, and header fields have 16 and 32 bits.
* *Encodings.* Paths, numbers and addresses have optional parts and several widths;
  a reader that is wrong about one of them is wrong for a few requests only.

`PROJECT.json` lists these hazards one by one, with the properties that would
notice them going wrong. A property whose antecedent excludes a hazard is not listed
with it: where the code simply does what the hazard says, its note tells so.

## What makes each part correct

* Starter: errors, backends and readiness belong to the run they are taken for,
  except through a thread it let go of while alive; a failure is never lost; its
  calls return; monitors end.
* EtherNet/IP and BACnet/IP life cycle: a server that runs can be stopped; `stop()`
  stops it and does not deadlock; the port is free afterwards.
* Docker runtime: a container is left behind only for a known cause.
* EtherNet/IP service: no session leaks, handles are unique and end for good,
  frames are handled in order, requests reach the objects only in a session that was
  granted, services agree about the objects whatever format names them, and no
  client can make a handler fail.
* BACnet/IP service: a request means to the server what the client meant; replies
  tell the truth (a read returns a value the object had since it was asked, an
  acknowledged write has taken place), threads lose no update, and clients cannot
  make an object unreadable.
* All life cycles: what Lifecycle says. A service ends when it was asked to, or is
  interrupted; `stop()` asks the service it finds and comes back; what `start()`
  took is released, except for the overlaps named below.
* DNP3 container: its outstation has the configuration of the server that runs it.

## Modules

```
Starter
   |  \
   |   StarterDocker --- Dnp3Container    Starter + Dnp3DockerServer; its configuration
   |
StarterSocket ------- SocketServer        Starter + EnipServer / BacnetServer
                          |
                      DirectServer        the same backends without a Starter
                          :
                      Lifecycle           what start() and stop() promise, abstractly
                          :
                      OtherServers        one server of the three kinds
                      /    |     \
          MbtcpServer S7commServer OutstationServer

EnipSessions  ------- CipRequests         connections and sessions; CIP requests
   MCEnipSessions                         constants for TLC
BacnetObjects ------- BacnetCodec         threads and values; datagrams
   MCBacnetObjects                        constants for TLC
```

Lines are EXTENDS or INSTANCE; dotted lines are the refinements. The theorems about a
module M are in MProofs: StarterProofs, DirectServerProofs (SocketServer with it),
StarterSocketProofs and StarterDockerProofs (which extend StarterProofs),
EnipSessionsProofs (CipRequests with it), BacnetCodecProofs, BacnetObjectsProofs (which
extends it) and OtherServersProofs.

### Starter

One thread calls `start_server` and `stop_server` (the *controller*, variable
`ctl`); for the k-th start, *run* k, there is a backend object, a server thread
(`srv[k]`) and a monitor (`mon[k]`). `server`, `serverThread`, `serverError` and
`ready` are the four attributes, with a run or `None` as value. Each read or
write of an attribute that another thread can notice is one action:
`start_server` is StartServer, ClearReady, ClearError, AssignThread, SpawnServer,
SpawnMonitor and EndDelay; `stop_server` is StopServer, StopReturns or StopRaises,
CheckThread, Join and the four assignments of its `finally` clause; `_run_server`
is ReadServer, CallStart (its second read of `self._server`), StoreError and EndFailed
(the thread is alive while it logs); the monitor is FirstRead, SecondRead (the two reads of `self._server_thread` in its
loop condition), ReadError, the probe and SetReady.

What a backend does is open in this module: `start()` may return, raise or go on,
`stop()` may return or raise, a probe may succeed or fail. The composing modules
restrict these steps, so the safety theorems about Starter hold in them, too.

Two history variables, read by no step, let properties name causes: `abandoned`
(runs whose thread was alive when `_server` was overwritten, by another
`start_server` or after a join that timed out) and `late` (monitors still running
when `start_server` cleared the event).

### SocketServer, DirectServer, StarterSocket

`start()` and `stop()` of `EnipServer` and `BacnetServer` are the same lines of
code, over `socketserver`. SocketServer models them for any backends, threads and
stoppers: the constructor binds the port or raises (Bind), `self._server` is set
(Register), `serve_forever` is entered (Serve) and left on request (LeaveLoop) or on a
KeyboardInterrupt (Interrupt), the socket is closed and `self._server` reset. The two flags of
`socketserver.BaseServer`, `__shutdown_request` and `__is_shut_down`, are modelled
as these calls use them. `transport` distinguishes the two protocols: two UDP
sockets with `allow_reuse_address` can share a port, TCP listeners cannot.

DirectServer lets several threads call `start()` and `stop()` on one object. One of
them, `Main`, may be interrupted in its loop; under a Starter `start()` never runs in
the main thread.
StarterSocket puts a Starter above it: the controller is the only stopper, server
thread r runs the `start()` of the backend it read from `_server`
(INSTANCE ... WITH `backend <- target`), and probes look at the sockets: a TCP
connect succeeds once a socket listens, Who-Is only when a loop serves.

### StarterDocker

The Starter over `Dnp3DockerServer`. `UpCreates`, `UpSucceeds` and `UpFails` are
the outcomes of `docker compose up`, DownSucceeds, CommandRaises, DownTimesOut and
KillSucceeds those of the commands in `stop()`; `running[r]` is `_running`. A
command that fails or times out may or may not have taken effect, or the daemon may
finish it at any later time (`pending`, DaemonFinishes). The compose
project is named after the port, so all runs share one `container`.

### Dnp3Container

The way of a configuration into the container, as functions on environments:
ComposeEnvironment (`dnp3/docker_server.py:57`), the substitutions of the compose
file with its defaults and its published port, and Outstation, what `run_server.py`
makes of the result. Texts are kept apart from the numbers they hold.
ContainerGetsConfig, in StarterDocker, says of any container what ConfigArrives says
of these operators.

### EnipSessions and CipRequests

Handler threads of the EtherNet/IP server. A frame is two header pieces followed by
payload pieces; `Recv` delivers any number of pieces, part of a header, too, and
NeedMore/Dispatch cut the frames off again. A frame carries a command: RegisterSession,
UnregisterSession, ListIdentity, which fails for an Identity that cannot be packed and
for a host name as address, one of those that only read constants (`stateless`), or
SendRRData with its interface handle, item count and items. The Assembly data are
configured before the server starts (`Configurations`), with any bytes. RegisterSession and UnregisterSession are lock regions of `handle_frame`, and so is
CheckSession; HandleCipRequest is the request that passed it, ReleaseSessions the
`finally` clause. The widths of the header fields are `MaxHandle` and `MaxPayload`: a
value beyond them is the `struct.error` that ends the handler.

CipRequests is what HandleCipRequest applies to the Assembly data: operators on
sequences of bytes for the segments of a path (8, 16 and 32 bits, zero bytes
skipped), GetAttributesAll, GetAttributeSingle and SetAttributeSingle, the status
codes in the order of the code's tests, and the Identity object, whose attributes are
all packed whichever is read; packing fails for a value too wide for its field and for a
name that is not ASCII. A handler holds the Assembly lock for the access alone;
as each service accesses the data once, HandleCipRequest is one step.

### BacnetObjects and BacnetCodec

BacnetCodec reads and writes datagrams, byte by byte: BVLC and NPDU headers, tags with
inline and extended lengths, numbers of any width, object identifiers, the limits of
Who-Is, property references and the value of a WriteProperty. `Meaning(d)` is
`handle_datagram` but for what touches the objects: drop the datagram (for an
IndexError, too, which socketserver logs), answer it from the configuration, or read
or write an Analog Value. The clients' side, which encodes requests, is external.

In BacnetObjects, `handler[t]` is what handler thread t is doing with a request.
Deliver makes a thread for one copy of a request and takes its `Meaning`; requests
answered or dropped without the shared values end there. Lookup is the lock region of
a read, ReadValue the use of the object outside it, Write the lock region of a write.
ReadValue fails (`crashed`) for a value no Real can carry, since all properties are
encoded whichever is asked for.

Clients and UDP are external: a client has one request outstanding, which it may
repeat or give up; each request has a number of copies in flight, delivered in any
order or never, and replies may arrive at any later time. `log`, the values of
each object with who set them, and `sentAt`, the length of the log when a
request was sent, are history; so are `handled`, `again` and `gaveUp`.

### MbtcpServer, S7commServer, OutstationServer, OtherServers

Three more backends, whose `stop()` depends on something published at another point
of `start()`: `_server` and `_loop` after the server is created (Modbus), the event
`_stopped` from the beginning (S7comm), the flag `_running` before `Enable()` (DNP3).
Every statement that reads or writes one of these is an action. The libraries
are external: pymodbus' `shutdown()` is a coroutine that the asyncio loop of another
thread carries out (RunShutdown; ShutdownDone is the return of `result()`) or not
(ResultTimesOut); snap7's `start_to` and
`stop` open and close a listener; opendnp3's `Enable`, `Disable` and `Shutdown` are
recorded.

OtherServers is one server of a kind chosen initially, and states what they
promise together. `beaten`, `raced`, `interrupted` and `found` are history: whether a
service was ending while a stop was under way, whether a stop overlapped the
start-up (or, for DNP3, another stop), and which run a stop found serving.

### Lifecycle

The abstract specification of `start()` and `stop()`. A service, made by one call of
`start()`, is new, serving, ending (out of its loop, `start()` not yet back) or over;
`asked` are the services that serve and have been asked to end, and `waits[s]` is the
service the `stop()` of thread s has found. A service leaves its loop only when asked
(or by an interrupt, if it is in `Interruptible`), a `stop()` returns only when its service was
asked (or, if `StopWaits`, has left its loop), and under the fairness of the
specification both always come to an end.

Two specifications implement it, each as `ImplementsLifecycle == LC!Spec`:

| | DirectServer | OtherServers |
| --- | --- | --- |
| service | the server of a thread | a run of the server there is |
| `serving` | from `self._server = server` until the loop is left | in `serve_forever`, or in the loop of `start()` |
| `asked` | the request flag, while it serves | `shutdown()` was carried out; `_stopped` is set; `_running` is False |
| `waits[s]` | `stopping[s]`, from the call of `shutdown()` | `found[s]`, from the call of `stop()` |
| `StopWaits` | yes | no |
| `Interruptible` | the server of the main thread | every run |

Fairness is refined, too: TLC checks that the fairness of the threads implies that
of the abstract actions.

## Runs

Distinct states and times are those of one machine with two workers.

| Run | Instance | What it shows |
| --- | --- | --- |
| `starter` | 2 starts; 366,385 states, 60 s | Safety of the Starter over an arbitrary backend; `StopTerminates` (also when `stop()` raises) and `MonitorsEnd` under fairness |
| `direct` | 1 backend, 2 starting threads, 2 stoppers, one thread the main thread; 53,018 states, 10 s | A serving backend can be stopped, `stop()` stops it; start and stop implement Lifecycle |
| `socket` | 2 starts; 539,262 states, 15 s | What may be left serving, what readiness says of the port, when the port is free |
| `socket_live` | 1 start, 1 waiter; 4 s | `stop_server` returns; an untimed `wait_until_ready` is served |
| `socket_stale_ready` | 1 start, violated | `ready_event` set after a clean `stop_server` |
| `docker` | 2 starts; 6,488,577 states, 110 s | A container is left only after a failed command, an early stop or a replaced run; its outstation has the right configuration |
| `docker_leak` | 1 start, violated | An early stop leaves a container although no command fails |
| `docker_ready` | 1 start, violated | A container that needs extra time is never reported ready |
| `enip` | 2 connections, 3 frames, 2 handles, 2 configurations; 939,983 states, 50 s | Sessions, reassembly, CIP requests and the width limits |
| `bacnet` | 2 clients with 2 and 1 requests, 2 threads, 1 repeat, 1 application write; 2,783,530 states, 112 s | Requests are understood, replies tell the truth and no update is lost, or the cause is known |
| `bacnet_write` | as `bacnet`, violated | A handled write of 1.0 does not take place |
| `servers` | each kind: 2 starts, 2 stoppers; 32,251 states, 10 s | Start and stop implement Lifecycle; what may raise, and what is released |

Bounds. *Two starts*: all properties relate the current run to one earlier one, and
two starts contain a replaced run, a run left behind by a join that timed out, late
threads and late monitors. Runs before the last two behave like the earlier one,
since threads meet only in the attributes; the proofs confirm this for any number of
starts. *Two starting threads and two
stoppers*: the smallest instance with an overlap of each kind. *One start with a
waiter* keeps liveness cheap and has the races of one run. *Three frames* on
two connections allow a header and a frame split over chunks, two frames in one chunk,
registration followed by a write and its read, and a connection that ends another's
session; with `MaxHandle = 2` the third registration exceeds the header and with
`MaxPayload = 45` both the largest datum a client can write and one byte more, which is
configured or set by the application, occur. The address is a host name (`IpIsNumeric =
FALSE`), so that ListIdentity ends its connection.
*Two requests and one* are the smallest instance in which a client reads its own
write, or writes twice, next to somebody else's request, with two threads to reorder
them; a second repeat or application write meets no new state of a thread. The
values are 0.0, 1.0 (its encoding holds the closing tag), 12.5, and 1e39, which no
Real can carry; one object is configured, and one that is asked for is not; one
request is cut short, and two are forwarded by a router, one with a source address that
is misread and one without. The proofs take any requests, with instances of 22 bits, any
Real, destinations of any length and source addresses of up to six bytes, whatever these
are. Threads are
interchangeable (`MCSymmetry`); no liveness is checked with it. The bounds are
`MaxStarts`, `MaxFrames`, `MaxRequests`, `MaxAgain` and `MaxSets`, tested in the
guards of the start actions, Send, Repeat and SetPresentValue; `MaxHandle` and
`MaxPayload` are the code's own limits, made small.

Four properties rest on statements about pure operators (PathMeaningKnown on
FormatsHaveMeaning, ServicesAgree on ServicesConsistent, RequestsUnderstood on
MeaningIsIntended and NeverAnother, ContainerGetsConfig on ConfigArrives). They quantify over bounded
inputs, and TLC evaluates each once: all formats, packed and padded, and orders of up to three segments of a
path with values that fill one byte, two and three; every route with no, an empty
or a six-byte destination and no source or one of six, some with the bytes of a request
in them, instances 0, 1, 63 (the closing tag), 1234, 65,536 and the
largest of 22 bits, properties of one and two bytes, and Reals whose four bytes are
0, the closing tag, 65 or 255; environments that set any of four variables to
something or to nothing. They cover each branch of the readers on both sides. TLC
finds a mistake in a reader there; that it makes none on longer paths, other numbers or
other devices is proved: each of these statements is an instance of a theorem over
all inputs (PathsMeanTheirSegments, ServicesMatchEverywhere, MeaningEverywhere,
MisreadTouchesNothing and EveryConfigArrives).

`CHECK_DEADLOCK FALSE` is set where the callers may have nothing
left to do: a program need not start another server.

### Fairness

* Threads that can run are scheduled (WF on each thread's next step). Whether the
  application makes another call is never assumed.
* A probe ends, because its socket has a timeout (`starter.py:128`); a join ends by
  its timeout; a docker command ends by its timeout (`dnp3/docker_server.py`).
* A backend's `start()` is never assumed to return by itself, in Starter; in
  StarterSocket and DirectServer it returns because the loop is asked to.
* A server that stays reachable answers some probe (SF on ProbeAnswered in
  StarterSocket): without it, every single probe could hit its timeout.
* In OtherServers, `start()` and the stops go on when they can. A loop that runs
  carries out what was scheduled in it before the five seconds of
  `mbtcp/server.py:83` are over: ResultTimesOut happens only when the loop has ended.
* In EnipSessions and BacnetObjects nothing is assumed; only safety is checked.

### Findings

1. `socket_stale_ready`. A monitor whose probe succeeded just before the server
   closed sets `_ready_event` after `stop_server` has cleared it (`starter.py:133`
   after `:100`). `stop_server` joins the server thread but not the monitor. The
   next `wait_until_ready` returns True with no server.
2. `docker_leak`. `stop_server` while `compose up` still runs finds `_running`
   False, returns, and drops the references; the container comes up later.
   The join waits `delay + 1` seconds, the command may take 60.
3. `docker_ready`. The monitor watches the server thread, and the docker backend's
   `start()` returns as soon as compose has started the container. The monitor then
   ends (`starter.py:126`), so `ready_event` is set only if the endpoint accepted
   before compose returned.
4. `bacnet_write`. WriteProperty ends the property value at the first byte 0x3F
   (`bacnet/server.py:463`), wherever it is. 0x3F is also the first byte of every
   number from 0.5 up to 2, so a client cannot write 1.0: the request is dropped and
   stays without a reply. `UnappliedWriteHasCause` shows that this, an unknown object
   and a request forwarded by a router whose source address is misread (see below) are the
   only reasons a write of a
   number is dropped.

More consequences of the code are worth knowing, although no text of the
repository contradicts them. Used without a Starter, a second `stop()` of an
EnipServer or BacnetServer that arrives while the first one's `start()` is
finishing can raise AttributeError, as `_server` goes None between the check and
the call of `shutdown()`. `StopRaceNeedsLostRun` shows that the Starter never runs
into it unless a run was lost. A `stop()` of the S7comm server that overlaps the
start-up may leave a listener nobody serves, or a loop without one; one of the native
outstation may be followed by `Enable()` on a manager that was shut down. The
antecedents of `S7ListenerFollowsLoop` and `OutstationReleasedOnce` exclude exactly
these overlaps.

A BACnet request whose NPDU names both a destination and a source, as one does that a
router forwards, is seldom understood: the hop count stands after both addresses, but
`bacnet/server.py:237` passes over it with the destination, so that the first byte of the
source address is taken for its length. If that byte happens to be the length, the request
is understood (RequestsAreUnderstood); if not (`Misread`), some part of the address or of
the request is taken for a request, and by MisreadTouchesNothing it is dropped or
answered as a Who-Is, whatever the bytes of the address: no object is read or written in
another's name. A `stop()` of the Modbus server that is overtaken by the end of its
service and the next `start()` ends the new service, as it reads `_server` and `_loop`
again. Of a CIP path in the padded 16-bit format (`21 00 lo hi`), the one of CIP's standard
request paths, the pad byte is read as the low byte of the value and `hi` as the beginning
of the next segment (`enip/server.py:617`): the code skips zero bytes between segments
only. PathMeaningKnown states it of every format, and PaddedIsMisread of every value: with
`hi` = 0, which is then skipped, the path means an instance 256 times too large.

## Proofs

Every safety invariant of the passing runs is a theorem, and so is the safety part of
both refinements of Lifecycle. A theorem holds for every value of the constants that the
named assumptions allow: any number of starts, threads, stoppers, connections, frames,
clients and requests.

| Module | Theorems | Assumptions |
| --- | --- | --- |
| StarterProofs | TypeCorrect, OwnBackend, ErrorBlame, FailureSeen, ReadyBlame, MonitorKeepsWatching | `StarterAssumption`: the number of starts is a natural number |
| StarterSocketProofs | SocketStarterIsStarter, LeaksAreLost, StopFreesPort, StopSeldomRaises, ReadyIsReachable | as Starter |
| StarterDockerProofs | DockerStarterIsStarter, RunningContainer, LeftContainer, ConfiguredContainer, EveryConfigArrives | as Starter |
| DirectServerProofs | TypeCorrect, RunningIsStoppable, StopIsEffective, StepsOfLifecycle | `SocketServerAssumption`: None is not a thread |
| OtherServersProofs | TypeCorrect, MbtcpStopRaises, S7Listens, OutstationReleases, StepsOfLifecycle | `ServersAssumption`: the thread that calls `start()` is not one of the stoppers |
| EnipSessionsProofs | TypeCorrect, NoSessionLeaks, HandlesAreGrantedOnce, RequestsAreInSession, FramesHandledInOrder, HandlersFailAtLimits, PathsMeanTheirSegments, PaddedIsMisread, ValuesHaveEveryWidth, ServicesMatchEverywhere, ServicesAlwaysAgree | `EnipAssumption`: requests and handles fit their header fields, and an Identity that can be packed fits a response; of the configured Assembly data, that they are bytes |
| BacnetCodecProofs | NumbersAreRead, MeaningEverywhere, MeaningIsAlwaysIntended, DatagramsUnderstood, RequestsAreUnderstood, MisreadTouchesNothing, NeverTakenForAnother | `DeviceAssumption`: the device's instance has 22 bits, as BACnet requires, and its numbers are natural; the dataclass of `bacnet/server.py:77` does not check it |
| BacnetObjectsProofs | TypeCorrect, ClientsCannotCrash, WritesTakePlace, RepliesTrue, LastWriteStands | as BacnetCodecProofs, and `BacnetAssumption`: initial values are Reals, and requests are of the four kinds, with source addresses of at most six bytes |

`PROJECT.json` says which property each states. The proofs have one step per action and
PTL at the end; every invariant was checked by TLC before it was proved. The arguments:

**Starter.** The invariant is built in layers, each proved with the ones below it.
`Control`: where the controller is determines which attributes refer to which run; above
all `_server` and `_server_thread` name the same run except between the assignments
that replace them. `Threads`: a thread that is alive is the current one or was
let go of; here the order of the assignments in `start_server` and in the `finally` clause
of `stop_server` matters, as `_server` is overwritten first. `Errors`: an error was stored
by a thread that ended with it, so that clearing `_server_error` before the thread starts
suffices. `Monitors`: every monitor of an earlier run that still runs is in `late`.

**StarterSocket, StarterDocker.** First, that the composition is a Starter
(`SocketSpec => Spec`, `DockerSpec => Spec`): each of its steps is one of the Starter over
an arbitrary backend, so that all theorems of StarterProofs hold of it, too. The
properties of its own then rest on what `stop_server` has achieved at each of its
lines: when it lets go of a run, that run's thread has ended, or left its loop, or
is lost. As an abandoned thread may run a later run's backend, this needs `OwnOrLost`,
that such a thread's run is lost by then. For docker, all runs share one container:
`Orderly` says that, while no run is lost and the daemon finishes no failed command
later, only the current thread may still create it,
and `Faultless` that, while no command has failed either, `stop()` finds `_running` set
whenever there is one. EveryConfigArrives follows a configuration through
the environment and the substitutions, for any environment; in the run, ContainerGetsConfig
is evaluated for bounded ones.

**DirectServer.** `Registered`: `self._server` refers only to a server of that backend whose
`start()` is not over. `Overlaps`: two calls of one backend's `start()` at once have been
noticed. So the `self._server = None` at the end of a call withdraws its own server only,
and a stopper waits for the one server it can have seen (`Stopping`). An interrupt leaves the
loop as a request does.

**OtherServers.** Each server has an invariant that relates what `start()` has
published to where it is: `Published` and `Unbeaten` (Modbus), `Listening` (S7comm),
`Releasing` (native outstation, where one thread at a time takes the outstation down). The steps of
Lifecycle rest on `Finding`: how far a stop has come tells what it has done to the
service it found, as long as that serves. Without it nothing says that a stop of the
Modbus server that comes back has asked its service, since its coroutine might be another
server's.

**EnipSessions.** Three invariants on top of the types: which handles were granted and who
remembers them; where in the stream frames begin, so that what is received is a suffix of
whole frames behind what was handled; and that Assembly data fit a response, unless what
was configured or set does not. The
last needs what ParsePath and the services do with paths of any length: induction
is done over sets of numbers (`LeastNatural`), as the library's induction theorems take
operators.

Two more theorems say what the readers compute, for all inputs. PathsMeanTheirSegments
takes a sequence of segments of any length and formats, packed or padded: the parser comes to the end of
every segment with the values of the last segments before it (`SentAs`, by the same
induction over how many segments were read), and a value that is cut short or runs over stops it. Left out is a padded segment whose
last byte is the code of a segment: PaddedIsMisread says that the server goes on from
that byte, whatever it then finds.
ServicesMatchEverywhere goes through the objects: only Assembly data are taken from the
table, so a Set changes what the Get of the same attribute returns and nothing else, and
the attributes GetAttributesAll returns are those a Get knows, in order. As the invariants
PathMeaningKnown and ServicesAgree evaluate instances of both, they follow.

**BacnetCodec.** The codec is recursive in one place, the numbers: a number is written
byte by byte and read back byte by byte. NumbersAreRead is proved by complete
induction over a set of numbers (`CompleteInduction`): n is n \div 256 and one more
byte. A number of up to four bytes then stands behind its tag with the length in the tag
(`Bears`, `TaggedIs`), for which ElementRead says what the reader of tags makes of it.
With these, MeaningEverywhere follows each kind of request through the headers: any object
identifier of 22 bits, any property and limits of up to four bytes, any Real, any
addresses, as long as the source is not misread. RequestsAreUnderstood draws the consequence for the
requests of BacnetObjects; DatagramsUnderstood adds that the reply to the probe is one the
Starter accepts, for every device. For the others,
MisreadTouchesNothing follows the server to where it looks for a request: past the end,
into the address, or somewhere into the request behind it. Each place has to begin
with the header of a ReadProperty or WriteProperty and go on with tags that lead to a
whole reference; the proof goes through the places and finds none that does, whatever the
bytes of the address, the object and the value. NeverTakenForAnother, which the run
evaluates, is an instance.

**BacnetObjects.** `IInv`: what was handled, replied to and logged fits what was sent,
and a thread is where its request sends it. LastWriteStands needs `OneByOne` as well,
inductive relative to IInv: a client's writes enter the log in the order of its requests,
unless it repeated one or gave up, because it waits for each reply.

What proving changed in the model: in StarterSocket, a run was counted as lost when a stop
found another server, even though its own thread had already ended, and a start could be
called without a server; both are corrected. A reply to a read now also has to be of a
configured object (RepliesAreTrue), without which the property said nothing of
the others. The assumptions on requests and on the device that the proofs of BacnetObjects
and BacnetCodec need had been implicit in the constants of the run; TLC evaluates them now.
In CipRequests, FormatsHaveMeaning and ServicesConsistent name what they state of one path and
of one object (`MeansItsSegments`, `ServicesMatch`), so that it can be proved of others.

Model-checked only:

* Liveness and the fairness of Lifecycle: StopTerminates, MonitorsEnd, StopServerReturns,
  WaiterIsServed, and the fairness part of the two ImplementsLifecycle. ENABLED is out
  of the prover's reach.

## Not modelled

* Failures inside `start_server` before any attribute changes (an unknown protocol,
  an import or a constructor that raises) leave the Starter as it was. A
  `Thread.start()` that fails for lack of resources, and a `KeyboardInterrupt` in the
  controller, are left out. The Starter is used by one controller at a time, as
  its documentation uses it; waiters may be any threads.
* Programs other than Cursus that listen on the port, and docker's own port proxy.
* Wording of log messages and errors, and the docker command line.
* Of EtherNet/IP: the content of ListServices, ListIdentity and ListInterfaces, which
  read only the configuration (that ListIdentity may fail is modelled), and the UDP side of
  them, which the server does not have. An Identity that cannot be packed is not in the
  run; HandlersFailAtLimits is proved for every Identity.
* A KeyboardInterrupt elsewhere than in the loop of `serve_forever`, or in the loops of the
  other servers. In particular between `_server = server` and the loop it would leave
  `__is_shut_down` unset, which is the library's affair.
* Of the Modbus server, a loop that runs and yet takes more than the five seconds of
  `mbtcp/server.py:83` to carry out `shutdown()`: `result()` would raise.
* Of BACnet/IP: the encoding of the text properties of objects. A configuration whose
  strings are not ASCII makes every ReadProperty of its object fail
  (`bacnet/server.py:483`); configurations are taken to be valid.
* Of the native outstation: `update_binary_input` and `update_analog_input`, which hand
  one value to opendnp3 and touch no state of this program.
* The libraries under the other servers (pymodbus, snap7, opendnp3), with the
  registers, data areas and points they keep.
* A Starter over Modbus, S7comm or native DNP3 is the Starter over an arbitrary backend.

## Plan

Done: all modules of the diagram and the proofs above. What is left:

1. The liveness properties and the fairness parts of the refinements, should a prover
   support them.
2. Source addresses of more than six bytes in a request that a router forwards.
