---------------------------- MODULE Dnp3Container ----------------------------
(***************************************************************************)
(* How the configuration of a Dnp3DockerServer reaches the outstation in   *)
(* its container: through the environment of the docker command, which     *)
(* starts as a copy of the application's own, the substitutions of the     *)
(* compose file, and the entry point, run_server.py.                       *)
(*                                                                         *)
(* An environment is a function from names to texts.  A text is a sequence *)
(* that holds what is written in it, a number or a name, or nothing: the   *)
(* text of a number n is <<n>>, the empty one <<>>.                        *)
(***************************************************************************)
EXTENDS Integers, Sequences

Field == [DNP3_DATABASE_SIZE |-> "database_size", DNP3_EVENT_BUFFER_SIZE |-> "event_buffer_size",
          DNP3_LOCAL_ADDR |-> "local_addr", DNP3_REMOTE_ADDR |-> "remote_addr"]

Settings(port, config) ==
    [n \in DOMAIN Field \cup {"DNP3_HOST", "DNP3_PORT"} |->
        CASE n = "DNP3_HOST" -> <<"0.0.0.0">>
          [] n = "DNP3_PORT" -> <<port>>
          [] OTHER -> <<config[Field[n]]>>]

\* Mutant: what the application's environment has already is kept.
EnvironmentKept(environ, port, config) ==
    [n \in DOMAIN environ \cup DOMAIN Settings(port, config) |->
        IF n \in DOMAIN environ THEN environ[n] ELSE Settings(port, config)[n]]

\* os.environ.copy(), updated.
ComposeEnvironment(environ, port, config) ==
    [n \in DOMAIN environ \cup DOMAIN Settings(port, config) |->
        IF n \in DOMAIN Settings(port, config) THEN Settings(port, config)[n] ELSE environ[n]]

\* ${name:-default}, also for a variable that is set to nothing.
Substituted(env, name, default) ==
    IF name \in DOMAIN env /\ env[name] # <<>> THEN env[name] ELSE <<default>>

\* The compose file: the defaults, the port that is published under its own
\* number, and the environment of the program in the container.
Defaults == [DNP3_HOST |-> "0.0.0.0", DNP3_PORT |-> 20000, DNP3_LOCAL_ADDR |-> 10, DNP3_REMOTE_ADDR |-> 1,
             DNP3_DATABASE_SIZE |-> 10, DNP3_EVENT_BUFFER_SIZE |-> 10, LOG_LEVEL |-> "INFO"]
Published(env) == Substituted(env, "DNP3_PORT", Defaults.DNP3_PORT)
ContainerEnvironment(env) == [n \in DOMAIN Defaults |-> Substituted(env, n, Defaults[n])]

\* os.environ.get(name, default), and int() of it.
Read(env, name, default) == IF name \in DOMAIN env THEN Head(env[name]) ELSE default

\* main(): the outstation it makes, and the level of its log.
Outstation(env) ==
    [ip |-> Read(env, "DNP3_HOST", "0.0.0.0"),
     port |-> Read(env, "DNP3_PORT", 20000),
     config |-> [database_size |-> Read(env, "DNP3_DATABASE_SIZE", 10),
                 event_buffer_size |-> Read(env, "DNP3_EVENT_BUFFER_SIZE", 10),
                 local_addr |-> Read(env, "DNP3_LOCAL_ADDR", 10),
                 remote_addr |-> Read(env, "DNP3_REMOTE_ADDR", 1)],
     level |-> Read(env, "LOG_LEVEL", "INFO")]

-----------------------------------------------------------------------------
\* Environments an application may have: any of these variables may be set, to
\* something else or to nothing.
Foreign == [DNP3_HOST |-> "localhost", DNP3_PORT |-> 7, DNP3_REMOTE_ADDR |-> 7, LOG_LEVEL |-> "DEBUG"]
Environs ==
    UNION {{[n \in names |-> <<>>], [n \in names |-> <<Foreign[n]>>]} : names \in SUBSET DOMAIN Foreign}

Parameters == {"database_size", "event_buffer_size", "local_addr", "remote_addr"}

\* The outstation in the container has the configuration of the server that runs
\* it and listens, on every interface, on the port that is published and probed,
\* whatever variables the application happens to have; of those, only LOG_LEVEL
\* reaches it.
Arrives(environ, port, config) ==
    LET env == ComposeEnvironment(environ, port, config)
        made == Outstation(ContainerEnvironment(env))
    IN  /\ made.config = config
        /\ made.ip = "0.0.0.0" /\ <<made.port>> = Published(env) /\ made.port = port
        /\ <<made.level>> = Substituted(environ, "LOG_LEVEL", "INFO")

\* Zero and the defaults are among the configurations it is checked for.
ConfigArrives ==
    \A environ \in Environs, port \in {502, 20000}, config \in [Parameters -> {0, 1, 10}] :
        Arrives(environ, port, config)
=============================================================================
