------------------------------- MODULE Daemon -------------------------------
(***************************************************************************)
(* The life of one hoprd process: main() of hoprd/src/main.rs, main_inner  *)
(* and init_rest_api of hoprd/src/lib.rs, and what they start: the REST    *)
(* API, the strategies, the statistics of the allocator, telemetry.        *)
(*                                                                         *)
(* main is the thread that runs main_inner; its steps end at the awaits    *)
(* and at the returns of "?".  Tasks of the runtime run beside it.  A      *)
(* signal that comes before main_inner has registered its handlers has the *)
(* default action of the system.                                           *)
(***************************************************************************)
EXTENDS Strategies, Telemetry

CONSTANT Boots   \* what a process may be started with: records [file, cli, env]

\* What the parsers of the file, of the command line and of the environment,
\* which are libraries, leave to this code: a file has an address to listen on,
\* an option a host in one of its forms, an interface an address, a number is one.
ASSUME BootsRead == \A b \in Boots :
    /\ b.file["listen"].form = "ip" /\ b.file["listen"].port \in Nat
    /\ b.cli["listen"] \in {Absent} \cup
          [form : {"ip", "domain", "auto", "junk"}, port : Nat \cup {Absent, Bad}]
    /\ b.env.detected \in {"ip", Refused}
    /\ b.env.mixer.capacity \in Nat \cup {Absent}

VARIABLES
    boot,        \* the one of this process
    pc,          \* where main is
    cfg,         \* the configuration, once it is loaded
    procs,       \* main_inner's list of abortable processes
    task,        \* the tasks of the runtime
    holders,     \* who has a clone of the Arc around the node
    registered,  \* the signal handlers are in place
    pending,     \* signals the process has received and not handled
    providers,   \* telemetry providers that have not been shut down
    result,      \* what main_inner returns
    exit         \* how the process ended

vars == <<boot, pc, cfg, procs, task, holders, registered, pending, providers, result, exit>>

Processes == {"listeners", "api", "strategies"}     \* HoprdProcess
Tasks == Processes \cup {"stats", "conn"}
NodeUsers == {"main", "api", "strategies", "conn"}
SignalNames == {"hup", "term"}                       \* SIGINT is handled as SIGTERM
Steps == {"launch", "load", "keys", "runtime", "telemetry", "stats", "connect", "prober",
          "tickets", "node", "bind", "api", "strategies", "spawn", "register", "serve",
          "dropNode", "dropProcs", "stopped", "unwind", "flush", "shutdown", "exited"}

Alive(t) == task[t] \in {"running", "aborting"}
AbortAll(ts) == [t \in Tasks |-> IF t \in ts /\ task[t] = "running" THEN "aborting" ELSE task[t]]

Init ==
    /\ boot \in Boots
    /\ pc = "launch" /\ exit = "none" /\ result = "none"
    /\ cfg = Absent
    /\ procs = {} /\ holders = {} /\ pending = {} /\ providers = {}
    /\ task = [t \in Tasks |-> "absent"]
    /\ registered = FALSE

(***************************************************************************)
(* main(), before the runtime.  Each failure ends the process with code 1. *)
(***************************************************************************)
Exit(how) == pc' = "exited" /\ exit' = how

FailsOrGoes(from, to) ==
    /\ pc = from
    /\ (pc' = to /\ exit' = exit) \/ Exit("failure")
    /\ UNCHANGED <<boot, cfg, procs, task, holders, registered, pending, providers, result>>

Launch == FailsOrGoes("launch", "load")           \* install_base_subscriber

LoadConfig ==
    /\ pc = "load"
    /\ LET loaded == Effective(boot.file, boot.cli, boot.env)
       IN  IF loaded = Refused THEN Exit("failure") /\ cfg' = cfg
           ELSE IF Valid(loaded) /\ ValidSection(loaded["strategy"])
                THEN cfg' = loaded /\ pc' = "keys" /\ exit' = exit
                ELSE Exit("failure") /\ cfg' = cfg
    /\ UNCHANGED <<boot, procs, task, holders, registered, pending, providers, result>>

LoadKeys == FailsOrGoes("keys", "runtime")        \* IdentityRetrievalModes
StartRuntime == FailsOrGoes("runtime", "telemetry")

(***************************************************************************)
(* main_inner.  Fail is a "?": the function returns its error.             *)
(***************************************************************************)
Fail == pc' = "unwind" /\ result' = "failure"
Go(to) == pc' = to /\ result' = result

\* An exporter that does not build drops the handles made so far.
InitTelemetry ==
    /\ pc = "telemetry"
    /\ \/ providers' = Providers(boot.env) /\ Go("stats")
       \/ pc' = "shutdown" /\ result' = "failure" /\ UNCHANGED providers
    /\ UNCHANGED <<boot, cfg, procs, task, holders, registered, pending, exit>>

StartStats ==
    /\ pc = "stats"
    /\ task' = [task EXCEPT !["stats"] = "running"]
    /\ Go("connect")
    /\ UNCHANGED <<boot, cfg, procs, holders, registered, pending, providers, exit>>

Prepare(from, to) ==
    /\ pc = from
    /\ Go(to) \/ Fail
    /\ UNCHANGED <<boot, cfg, procs, task, holders, registered, pending, providers, exit>>

ConnectChain == Prepare("connect", "prober")      \* create the connector, connect
CheckProber == Prepare("prober", "tickets")       \* validate_against_probe_timeout
SeedTickets == Prepare("tickets", "node")         \* temporary store, manager from chain

BuildNode ==
    /\ pc = "node"
    /\ \/ holders' = {"main"} /\ Go(IF cfg["apiEnable"] THEN "bind" ELSE "strategies")
       \/ Fail /\ UNCHANGED holders
    /\ UNCHANGED <<boot, cfg, procs, task, registered, pending, providers, exit>>

BindApi == Prepare("bind", "api")

StartApi ==
    /\ pc = "api"
    /\ task' = [task EXCEPT !["api"] = "running"]
    /\ procs' = procs \cup {"listeners", "api"}
    /\ holders' = holders \cup {"api"}
    /\ Go("strategies")
    /\ UNCHANGED <<boot, cfg, registered, pending, providers, exit>>

BuildStrategies ==
    /\ pc = "strategies"
    /\ IF BuildSucceeds(cfg["strategy"])
       THEN holders' = holders \cup {"strategies"} /\ Go("spawn")
       ELSE Fail /\ UNCHANGED holders
    /\ UNCHANGED <<boot, cfg, procs, task, registered, pending, providers, exit>>

SpawnStrategies ==
    /\ pc = "spawn"
    /\ task' = [task EXCEPT !["strategies"] = "running"]
    /\ procs' = procs \cup {"strategies"}
    /\ Go("register")
    /\ UNCHANGED <<boot, cfg, holders, registered, pending, providers, exit>>

RegisterSignals ==
    /\ pc = "register"
    /\ \/ registered' = TRUE /\ Go("serve")
       \/ Fail /\ UNCHANGED registered
    /\ UNCHANGED <<boot, cfg, procs, task, holders, pending, providers, exit>>

OnHup ==
    /\ pc = "serve" /\ "hup" \in pending
    /\ pending' = pending \ {"hup"}
    /\ UNCHANGED <<boot, pc, cfg, procs, task, holders, registered, providers, result, exit>>

OnTermAtOnce ==      \* a mutant: nothing is torn down first
    /\ pc = "serve" /\ "term" \in pending
    /\ pending' = pending \ {"term"}
    /\ pc' = "stopped"
    /\ UNCHANGED <<boot, cfg, procs, task, holders, registered, providers, result, exit>>

OnTermIgnored ==      \* a mutant: logged, like SIGHUP
    /\ pc = "serve" /\ "term" \in pending
    /\ pending' = pending \ {"term"}
    /\ UNCHANGED <<boot, pc, cfg, procs, task, holders, registered, providers, result, exit>>

OnTerm ==
    /\ pc = "serve" /\ "term" \in pending
    /\ pending' = pending \ {"term"}
    /\ pc' = "dropNode"
    /\ UNCHANGED <<boot, cfg, procs, task, holders, registered, providers, result, exit>>

\* The stream of signals ends, or gives an error: the loop ends, Ok is returned.
SignalStreamEnds ==
    /\ pc = "serve"
    /\ pc' = "unwind" /\ result' = "success"
    /\ UNCHANGED <<boot, cfg, procs, task, holders, registered, pending, providers, exit>>

DropNode ==
    /\ pc = "dropNode"
    /\ holders' = holders \ {"main"}
    /\ Go("dropProcs")
    /\ UNCHANGED <<boot, cfg, procs, task, registered, pending, providers, exit>>

\* Dropping the list aborts what is on it; a task ends when it is next polled.
DropProcesses ==
    /\ pc = "dropProcs"
    /\ task' = AbortAll(procs)
    /\ procs' = {}
    /\ Go("stopped")
    /\ UNCHANGED <<boot, cfg, holders, registered, pending, providers, exit>>

\* emulate_default_handler ends the process there and then.
EmulateDefault ==
    /\ pc = "stopped"
    /\ Exit("signal")
    /\ UNCHANGED <<boot, cfg, procs, task, holders, registered, pending, providers, result>>

UnwindUnflushed ==      \* a mutant: the telemetry handles are forgotten
    /\ pc = "unwind"
    /\ holders' = holders \ {"main"}
    /\ task' = AbortAll(procs \cup {"stats"})
    /\ procs' = {}
    /\ pc' = "shutdown"
    /\ UNCHANGED <<boot, cfg, registered, pending, providers, result, exit>>

\* The locals of main_inner are dropped, in reverse order: the strategies if
\* they were not spawned, the node, the processes, the statistics.
Unwind ==
    /\ pc = "unwind"
    /\ holders' = holders \ ({"main"} \cup {u \in {"strategies"} : task[u] = "absent"})
    /\ task' = AbortAll(procs \cup {"stats"})
    /\ procs' = {}
    /\ pc' = "flush"
    /\ UNCHANGED <<boot, cfg, registered, pending, providers, result, exit>>

\* TelemetryHandles::drop shuts every provider down.
FlushTelemetry ==
    /\ pc = "flush"
    /\ providers' = {}
    /\ Go("shutdown")
    /\ UNCHANGED <<boot, cfg, procs, task, holders, registered, pending, exit>>

\* The runtime goes, and every task with it.
ShutdownRuntime ==
    /\ pc = "shutdown"
    /\ task' = [t \in Tasks |-> IF Alive(t) THEN "ended" ELSE task[t]]
    /\ holders' = {}
    /\ Exit(result)
    /\ UNCHANGED <<boot, cfg, procs, registered, pending, providers, result>>

Main ==
    \/ Launch \/ LoadConfig \/ LoadKeys \/ StartRuntime \/ InitTelemetry \/ StartStats
    \/ ConnectChain \/ CheckProber \/ SeedTickets \/ BuildNode \/ BindApi \/ StartApi
    \/ BuildStrategies \/ SpawnStrategies \/ RegisterSignals \/ OnHup \/ OnTerm
    \/ SignalStreamEnds \/ DropNode \/ DropProcesses \/ EmulateDefault
    \/ Unwind \/ FlushTelemetry \/ ShutdownRuntime

(***************************************************************************)
(* The tasks, and the outside.                                             *)
(***************************************************************************)
Running(t) == exit = "none" /\ task[t] = "running"
Ended(t) ==
    /\ task' = [task EXCEPT ![t] = "ended"]
    /\ holders' = holders \ {t}
    /\ UNCHANGED <<boot, pc, cfg, procs, registered, pending, providers, result, exit>>

\* serve_api returns an error, or the strategies do: both are logged, no more.
TaskFails(t) == t \in {"api", "strategies"} /\ Running(t) /\ Ended(t)
Cancelled(t) == exit = "none" /\ task[t] = "aborting" /\ Ended(t)

\* The HTTP library serves each connection in a task of its own, with the
\* state of the router; nobody aborts these tasks.
ConnectionOpens ==
    /\ Running("api") /\ ~Alive("conn")
    /\ task' = [task EXCEPT !["conn"] = "running"]
    /\ holders' = holders \cup {"conn"}
    /\ UNCHANGED <<boot, pc, cfg, procs, registered, pending, providers, result, exit>>
ConnectionEnds == Running("conn") /\ Ended("conn")

\* A request of the Sessions API puts a listener on the shared list.
ListenerOpens ==
    /\ Running("conn") /\ ~Alive("listeners")
    /\ task' = [task EXCEPT !["listeners"] = "running"]
    /\ UNCHANGED <<boot, pc, cfg, procs, holders, registered, pending, providers, result, exit>>

Raise(s) ==
    /\ exit = "none"
    /\ pending' = pending \cup {s}
    /\ UNCHANGED <<boot, pc, cfg, procs, task, holders, registered, providers, result, exit>>

DefaultAction ==
    /\ exit = "none" /\ ~registered /\ pending # {}
    /\ Exit("signal")
    /\ UNCHANGED <<boot, cfg, procs, task, holders, registered, pending, providers, result>>

Next ==
    \/ Main
    \/ \E t \in Tasks : TaskFails(t) \/ Cancelled(t)
    \/ ConnectionOpens \/ ConnectionEnds \/ ListenerOpens
    \/ \E s \in SignalNames : Raise(s)
    \/ DefaultAction

Spec == Init /\ [][Next]_vars

\* The thread goes on, the system delivers a pending signal, the stream of
\* signals hands out each in time, an aborted task is polled once more.
Fairness ==
    /\ WF_vars(Main) /\ WF_vars(OnTerm) /\ WF_vars(DefaultAction)
    /\ \A t \in Tasks : WF_vars(Cancelled(t))
FairSpec == Spec /\ Fairness

-----------------------------------------------------------------------------
(***************************************************************************)
(* Properties.                                                             *)
(***************************************************************************)
\* The variables have their types; a task that uses the node holds it.
TypeOK ==
    /\ boot \in Boots /\ pc \in Steps
    /\ procs \subseteq Processes /\ holders \subseteq NodeUsers
    /\ task \in [Tasks -> {"absent", "running", "aborting", "ended"}]
    /\ \A u \in NodeUsers \ {"main"} : Alive(u) => u \in holders \/ exit # "none"
    /\ registered \in BOOLEAN /\ pending \subseteq SignalNames
    /\ providers \subseteq Providers(boot.env)
    /\ result \in {"none", "success", "failure"}
    /\ exit \in {"none", "success", "failure", "signal"}
    /\ (exit # "none") <=> (pc = "exited")

\* A REST API that asks for a token never runs with one shorter than
\* MINIMAL_API_TOKEN_LENGTH, wherever the token came from: parse_api_token
\* counts the quotes it strips, and a file is not parsed by it at all.
TokenLongEnough ==
    Running("api") /\ cfg["auth"] # Absent => cfg["auth"].token >= MinTokenLength

\* The default host of Session listeners is an address by the time the API
\* can use it: "auto" and domains never get past resolve_session_listen_host.
ListenHostConcrete ==
    cfg # Absent => cfg["listen"].form \notin {"auto", "domain", "junk"} /\ cfg["listen"].port \in Nat

\* A mixer section both shapes accept means the same in either
\* (deserialize_mixer_config tries the current one first), and no node mixes
\* by another engine than the uniform one unless its file names it.
MixerShapesAgree ==
    LET m == boot.file["mixer"]
    IN  /\ m # Absent /\ IsCurrentShape(m) /\ IsLegacyShape(m) => ReadCurrent(m) = ReadLegacy(m)
        /\ cfg # Absent /\ cfg["mixer"].engine # "uniform" => "engine" \in DOMAIN m

\* What as_redacted gives to the log and the API does not depend on the
\* token, the password or the key, only on whether there is one.
RedactedHidesSecrets ==
    cfg # Absent =>
        \A other \in {[cfg EXCEPT !.password = "other",
                                  !.auth = IF @ = Absent THEN @ ELSE [token |-> 99],
                                  !.privateKey = IF @ = Absent THEN @ ELSE "other"]} :
            AsRedacted(other) = AsRedacted(cfg)

\* "Unreachable" says build_strategies_inner of a Pix stanza in a binary
\* without a pool: validate has refused it, also in a group never built.
PixStanzaUnreachable ==
    pc = "strategies" => PixBuilt \/ \A n \in Stanzas(cfg["strategy"]) : cfg["strategy"][n].kind # "Pix"

\* No limit of the running node is zero by accident: the environment's are
\* filtered, and validation refuses a fill rate that could never be reached.
NodeRunsWith == EnvOverrides(LibraryConfig(cfg), boot.env)
LimitsPositive ==
    "main" \in holders =>
        /\ NodeRunsWith["incomingCapacity"] # 0
        /\ boot.file["mixer"] = Absent => NodeRunsWith["mixer"].capacity > 0
        /\ NodeRunsWith["fillEnabled"] => NodeRunsWith["fillMaxRate"] # 0

\* What file, command line and environment make of the settings is usable
\* wherever a value came from and in whatever order it was checked, stripped,
\* resolved and replaced - and what is shown of it gives no secret away.
EffectiveSettings ==
    /\ TypeOK
    /\ TokenLongEnough
    /\ ListenHostConcrete
    /\ MixerShapesAgree
    /\ LimitsPositive
    /\ RedactedHidesSecrets

\* While main_inner runs, /metrics shows every instrument of the node but those
\* of Sessions, whichever provider got it and whatever prefixes have one of
\* their own: telemetry.rs keeps providers of Session prefixes away from
\* /metrics, root.rs strips the series the other providers still gather.
\* (None is called just hopr_session.)
MetricsAlwaysServed ==
    result = "none" /\ (providers # {} \/ pc = "stats") =>
        \A name \in Metrics \ {SessionPrefix} :
            /\ MayTake(providers, name) # {}
            /\ \A p \in MayTake(providers, name) :
                  p.prometheus /\ Collected(name) <=> ~StartsWith(name, SessionPrefix)

\* A process that ends by itself leaves no task, no holder of the node and no
\* telemetry that was not flushed, wherever a step of main_inner failed.
OrderlyExit ==
    exit \in {"success", "failure"} =>
        /\ \A t \in Tasks : ~Alive(t)
        /\ holders = {} /\ procs = {} /\ providers = {}

\* Once the handlers are registered, a signal ends the process only after
\* main has let go of the node and told every process to stop.  A listener
\* may still run: one opened afterwards, on a connection nobody aborted.
TermTearsDown ==
    [][exit = "none" /\ exit' = "signal" /\ registered =>
          /\ "main" \notin holders /\ procs = {}
          /\ ~Running("api") /\ ~Running("strategies")]_vars

\* A termination signal ends the process, in whatever phase it comes.
TermEnds == ("term" \in pending) ~> (exit # "none")
=============================================================================
