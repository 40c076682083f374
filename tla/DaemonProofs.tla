---------------------------- MODULE DaemonProofs ----------------------------
(***************************************************************************)
(* The life of a hoprd process, whatever it is started with and whenever   *)
(* its steps fail or signals come: what it runs with is what was           *)
(* validated, and it never ends by itself with something left behind.      *)
(***************************************************************************)
EXTENDS Daemon, TLAPS

\* A configuration LoadConfig has let pass.
Loaded(c) ==
    /\ c = Effective(boot.file, boot.cli, boot.env) /\ c # Refused
    /\ Valid(c) /\ ValidSection(c["strategy"])

\* Until main has a configuration there is nothing else either.
NothingYet ==
    /\ cfg = Absent /\ procs = {} /\ holders = {} /\ providers = {}
    /\ task = [t \in Tasks |-> "absent"]

Unloaded == {"launch", "load"}
BeforeInner == {"keys", "runtime", "telemetry"}

Configured ==
    /\ pc \in Unloaded => NothingYet
    /\ pc \notin Unloaded => NothingYet \/ Loaded(cfg)
    /\ pc \notin Unloaded \cup {"exited"} => Loaded(cfg)
    /\ pc \in BeforeInner =>
         procs = {} /\ holders = {} /\ providers = {} /\ task = [t \in Tasks |-> "absent"]

UpToSpawn == {"stats", "connect", "prober", "tickets", "node", "bind", "api", "strategies", "spawn"}

\* What is on its way up takes the node once, what is on its way down lets go
\* of everything in this order.
Teardown ==
    /\ pc \in {"stats", "connect", "prober", "tickets", "node"} => holders = {}
    /\ pc \in {"dropProcs", "stopped", "flush", "shutdown"} => "main" \notin holders
    /\ pc \in {"stopped", "flush", "shutdown"} => procs = {}
    /\ pc = "shutdown" => providers = {}
    /\ pc \in {"unwind", "flush", "shutdown"} => result # "none"
    /\ pc \in UpToSpawn => task["strategies"] = "absent"
    /\ pc = "spawn" => "strategies" \in holders
    /\ \A t \in {"api", "strategies"} : task[t] = "running" => t \in procs \/ exit # "none"
    /\ OrderlyExit

\* The providers are those of the environment, all of them, until they are shut down.
Exporting ==
    /\ providers \in {{}, Providers(boot.env)}
    /\ pc = "stats" => providers = Providers(boot.env)

IInv == TypeOK /\ Configured /\ Teardown /\ Exporting

-----------------------------------------------------------------------------
LEMMA InvInit == Init => IInv
<1> SUFFICES ASSUME Init
             PROVE  IInv
  OBVIOUS
<1>1. TypeOK
  BY DEF Init, TypeOK, Steps, Tasks, Processes, NodeUsers, SignalNames, Alive
<1>2. Configured /\ Teardown /\ Exporting
  BY DEF Init, Configured, NothingYet, Unloaded, BeforeInner, Teardown, UpToSpawn, OrderlyExit, Exporting, Tasks, Processes
<1>3. QED
  BY <1>1, <1>2 DEF IInv

\* The variables keep their types; a task of the node goes on holding it.
LEMMA TypeKept ==
    ASSUME IInv, [Next]_vars
    PROVE  TypeOK'
<1> USE DEF IInv, TypeOK, Teardown, UpToSpawn, Exporting, Steps, Tasks, Processes, NodeUsers, SignalNames, Alive
<1>1. CASE Launch
  BY <1>1 DEF Launch, FailsOrGoes, Exit
<1>2. CASE LoadConfig
  BY <1>2 DEF LoadConfig, Exit
<1>3. CASE LoadKeys
  BY <1>3 DEF LoadKeys, FailsOrGoes, Exit
<1>4. CASE StartRuntime
  BY <1>4 DEF StartRuntime, FailsOrGoes, Exit
<1>5. CASE InitTelemetry
  BY <1>5 DEF InitTelemetry, Go
<1>6. CASE StartStats
  BY <1>6 DEF StartStats, Go
<1>7. CASE ConnectChain
  BY <1>7 DEF ConnectChain, Prepare, Go, Fail
<1>8. CASE CheckProber
  BY <1>8 DEF CheckProber, Prepare, Go, Fail
<1>9. CASE SeedTickets
  BY <1>9 DEF SeedTickets, Prepare, Go, Fail
<1>10. CASE BuildNode
  <2>1. pc' \in {"bind", "strategies", "unwind"}
    BY <1>10 DEF BuildNode, Go, Fail
  <2>2. QED
    BY <1>10, <2>1 DEF BuildNode, Go, Fail
<1>11. CASE BindApi
  BY <1>11 DEF BindApi, Prepare, Go, Fail
<1>12. CASE StartApi
  BY <1>12 DEF StartApi, Go
<1>13. CASE BuildStrategies
  <2>1. /\ holders' \in {holders, holders \cup {"strategies"}}
        /\ \/ pc' = "spawn" /\ result' = result
           \/ pc' = "unwind" /\ result' = "failure"
        /\ pc = "strategies"
        /\ UNCHANGED <<boot, cfg, procs, task, registered, pending, providers, exit>>
    BY <1>13 DEF BuildStrategies, Go, Fail
  <2>2. holders' \subseteq NodeUsers /\ holders \subseteq holders'
    BY <2>1
  <2>3. QED
    BY <2>1, <2>2
<1>14. CASE SpawnStrategies
  BY <1>14 DEF SpawnStrategies, Go
<1>15. CASE RegisterSignals
  BY <1>15 DEF RegisterSignals, Go, Fail
<1>16. CASE OnHup
  BY <1>16 DEF OnHup
<1>17. CASE OnTerm
  BY <1>17 DEF OnTerm
<1>18. CASE SignalStreamEnds
  BY <1>18 DEF SignalStreamEnds
<1>19. CASE DropNode
  BY <1>19 DEF DropNode, Go
<1>20. CASE DropProcesses
  BY <1>20 DEF DropProcesses, AbortAll, Go
<1>21. CASE EmulateDefault
  BY <1>21 DEF EmulateDefault, Exit
<1>22. CASE Unwind
  BY <1>22 DEF Unwind, AbortAll
<1>23. CASE FlushTelemetry
  BY <1>23 DEF FlushTelemetry, Go
<1>24. CASE ShutdownRuntime
  BY <1>24 DEF ShutdownRuntime, Exit
<1>25. ASSUME NEW t \in Tasks, TaskFails(t) \/ Cancelled(t)
     PROVE  TypeOK'
  <2>1. /\ t \in Tasks /\ exit = "none" /\ Alive(t)
        /\ task' = [task EXCEPT ![t] = "ended"] /\ holders' = holders \ {t}
        /\ UNCHANGED <<boot, pc, cfg, procs, registered, pending, providers, result, exit>>
    BY <1>25 DEF TaskFails, Cancelled, Ended, Running
  <2>2. \A u \in Tasks : u # t => task'[u] = task[u]
    BY <2>1
  <2>3. task' \in [Tasks -> {"absent", "running", "aborting", "ended"}] /\ task'[t] = "ended"
    BY <2>1
  <2>4. QED
    BY <2>1, <2>2, <2>3
<1>26. CASE ConnectionOpens \/ ConnectionEnds \/ ListenerOpens
  <2>1. CASE ConnectionOpens
    BY <2>1 DEF ConnectionOpens, Running
  <2>2. CASE ConnectionEnds
    BY <2>2 DEF ConnectionEnds, Ended, Running
  <2>3. CASE ListenerOpens
    BY <2>3 DEF ListenerOpens, Running
  <2>4. QED
    BY <1>26, <2>1, <2>2, <2>3
<1>27. CASE DefaultAction
  BY <1>27 DEF DefaultAction, Exit
<1>28. CASE (\E s \in SignalNames : Raise(s)) \/ UNCHANGED vars
  <2>1. pending' \subseteq SignalNames
    BY <1>28 DEF Raise, vars
  <2>2. UNCHANGED <<boot, pc, procs, task, holders, registered, providers, result, exit>>
    BY <1>28 DEF Raise, vars
  <2>3. QED
    BY <2>1, <2>2
<1>29. QED
  BY <1>1, <1>2, <1>3, <1>4, <1>5, <1>6, <1>7, <1>8, <1>9, <1>10, <1>11, <1>12, <1>13, <1>14, <1>15, <1>16, <1>17, <1>18, <1>19, <1>20, <1>21, <1>22, <1>23, <1>24, <1>25, <1>26, <1>27, <1>28 DEF Next, Main

\* The order of the teardown.
LEMMA TeardownKept ==
    ASSUME IInv, [Next]_vars
    PROVE  Teardown'
<1> USE DEF IInv, TypeOK, Configured, NothingYet, Unloaded, BeforeInner, Teardown, UpToSpawn, OrderlyExit, Tasks, Processes, NodeUsers, SignalNames, Alive
<1>1. CASE Launch
  BY <1>1 DEF Launch, FailsOrGoes, Exit
<1>2. CASE LoadConfig
  BY <1>2 DEF LoadConfig, Exit
<1>3. CASE LoadKeys
  BY <1>3 DEF LoadKeys, FailsOrGoes, Exit
<1>4. CASE StartRuntime
  BY <1>4 DEF StartRuntime, FailsOrGoes, Exit
<1>5. CASE InitTelemetry
  BY <1>5 DEF InitTelemetry, Go
<1>6. CASE StartStats
  BY <1>6 DEF StartStats, Go
<1>7. CASE ConnectChain
  BY <1>7 DEF ConnectChain, Prepare, Go, Fail
<1>8. CASE CheckProber
  BY <1>8 DEF CheckProber, Prepare, Go, Fail
<1>9. CASE SeedTickets
  BY <1>9 DEF SeedTickets, Prepare, Go, Fail
<1>10. CASE BuildNode
  BY <1>10 DEF BuildNode, Go, Fail
<1>11. CASE BindApi
  BY <1>11 DEF BindApi, Prepare, Go, Fail
<1>12. CASE StartApi
  BY <1>12 DEF StartApi, Go
<1>13. CASE BuildStrategies
  BY <1>13 DEF BuildStrategies, Go, Fail
<1>14. CASE SpawnStrategies
  BY <1>14 DEF SpawnStrategies, Go
<1>15. CASE RegisterSignals
  BY <1>15 DEF RegisterSignals, Go, Fail
<1>16. CASE OnHup
  BY <1>16 DEF OnHup
<1>17. CASE OnTerm
  BY <1>17 DEF OnTerm
<1>18. CASE SignalStreamEnds
  BY <1>18 DEF SignalStreamEnds
<1>19. CASE DropNode
  BY <1>19 DEF DropNode, Go
<1>20. CASE DropProcesses
  BY <1>20 DEF DropProcesses, AbortAll, Go
<1>21. CASE EmulateDefault
  BY <1>21 DEF EmulateDefault, Exit
<1>22. CASE Unwind
  BY <1>22 DEF Unwind, AbortAll
<1>23. CASE FlushTelemetry
  BY <1>23 DEF FlushTelemetry, Go
<1>24. CASE ShutdownRuntime
  BY <1>24 DEF ShutdownRuntime, Exit
<1>25. ASSUME NEW t \in Tasks, TaskFails(t) \/ Cancelled(t)
     PROVE  Teardown'
  <2>1. /\ t \in Tasks /\ exit = "none" /\ Alive(t)
        /\ task' = [task EXCEPT ![t] = "ended"] /\ holders' = holders \ {t}
        /\ UNCHANGED <<boot, pc, cfg, procs, registered, pending, providers, result, exit>>
    BY <1>25 DEF TaskFails, Cancelled, Ended, Running
  <2>2. \A u \in Tasks : u # t => task'[u] = task[u]
    BY <2>1
  <2>3. task' \in [Tasks -> {"absent", "running", "aborting", "ended"}] /\ task'[t] = "ended"
    BY <2>1
  <2>4. \A u \in {"api", "strategies"} : task'[u] = "running" => task[u] = "running"
    BY <2>2, <2>3
  <2>5. "strategies" \in holders' \/ pc # "spawn"
    <3>1. CASE pc = "spawn"
      <4>1. "strategies" \in holders
        BY <3>1
      <4>2. t # "strategies"
        BY <2>1, <3>1
      <4>3. QED
        BY <2>1, <4>1, <4>2
    <3>2. QED
      BY <3>1
  <2>6. QED
    BY <2>1, <2>4, <2>5
<1>26. CASE ConnectionOpens \/ ConnectionEnds \/ ListenerOpens
  <2>1. CASE ConnectionOpens
    BY <2>1 DEF ConnectionOpens, Running
  <2>2. CASE ConnectionEnds
    BY <2>2 DEF ConnectionEnds, Ended, Running
  <2>3. CASE ListenerOpens
    BY <2>3 DEF ListenerOpens, Running
  <2>4. QED
    BY <1>26, <2>1, <2>2, <2>3
<1>27. CASE DefaultAction
  BY <1>27 DEF DefaultAction, Exit
<1>28. CASE (\E s \in SignalNames : Raise(s)) \/ UNCHANGED vars
  BY <1>28 DEF Raise, vars
<1>29. QED
  BY <1>1, <1>2, <1>3, <1>4, <1>5, <1>6, <1>7, <1>8, <1>9, <1>10, <1>11, <1>12, <1>13, <1>14, <1>15, <1>16, <1>17, <1>18, <1>19, <1>20, <1>21, <1>22, <1>23, <1>24, <1>25, <1>26, <1>27, <1>28 DEF Next, Main

\* The providers.
LEMMA ExportingKept ==
    ASSUME IInv, [Next]_vars
    PROVE  Exporting'
<1> USE DEF IInv, Configured, NothingYet, Unloaded, BeforeInner, Teardown, UpToSpawn, OrderlyExit, Exporting
<1>1. CASE Launch
  BY <1>1 DEF Launch, FailsOrGoes, Exit
<1>2. CASE LoadConfig
  BY <1>2 DEF LoadConfig, Exit
<1>3. CASE LoadKeys
  BY <1>3 DEF LoadKeys, FailsOrGoes, Exit
<1>4. CASE StartRuntime
  BY <1>4 DEF StartRuntime, FailsOrGoes, Exit
<1>5. CASE InitTelemetry
  BY <1>5 DEF InitTelemetry, Go
<1>6. CASE StartStats
  BY <1>6 DEF StartStats, Go
<1>7. CASE ConnectChain
  BY <1>7 DEF ConnectChain, Prepare, Go, Fail
<1>8. CASE CheckProber
  BY <1>8 DEF CheckProber, Prepare, Go, Fail
<1>9. CASE SeedTickets
  BY <1>9 DEF SeedTickets, Prepare, Go, Fail
<1>10. CASE BuildNode
  BY <1>10 DEF BuildNode, Go, Fail
<1>11. CASE BindApi
  BY <1>11 DEF BindApi, Prepare, Go, Fail
<1>12. CASE StartApi
  BY <1>12 DEF StartApi, Go
<1>13. CASE BuildStrategies
  BY <1>13 DEF BuildStrategies, Go, Fail
<1>14. CASE SpawnStrategies
  BY <1>14 DEF SpawnStrategies, Go
<1>15. CASE RegisterSignals
  BY <1>15 DEF RegisterSignals, Go, Fail
<1>16. CASE OnHup
  BY <1>16 DEF OnHup
<1>17. CASE OnTerm
  BY <1>17 DEF OnTerm
<1>18. CASE SignalStreamEnds
  BY <1>18 DEF SignalStreamEnds
<1>19. CASE DropNode
  BY <1>19 DEF DropNode, Go
<1>20. CASE DropProcesses
  BY <1>20 DEF DropProcesses, AbortAll, Go
<1>21. CASE EmulateDefault
  BY <1>21 DEF EmulateDefault, Exit
<1>22. CASE Unwind
  BY <1>22 DEF Unwind, AbortAll
<1>23. CASE FlushTelemetry
  BY <1>23 DEF FlushTelemetry, Go
<1>24. CASE ShutdownRuntime
  BY <1>24 DEF ShutdownRuntime, Exit
<1>25. ASSUME NEW t \in Tasks, TaskFails(t) \/ Cancelled(t)
     PROVE  Exporting'
  BY <1>25 DEF TaskFails, Cancelled, Ended, Running
<1>26. CASE ConnectionOpens \/ ConnectionEnds \/ ListenerOpens
  <2>1. CASE ConnectionOpens
    BY <2>1 DEF ConnectionOpens, Running
  <2>2. CASE ConnectionEnds
    BY <2>2 DEF ConnectionEnds, Ended, Running
  <2>3. CASE ListenerOpens
    BY <2>3 DEF ListenerOpens, Running
  <2>4. QED
    BY <1>26, <2>1, <2>2, <2>3
<1>27. CASE DefaultAction
  BY <1>27 DEF DefaultAction, Exit
<1>28. CASE (\E s \in SignalNames : Raise(s)) \/ UNCHANGED vars
  BY <1>28 DEF Raise, vars
<1>29. QED
  BY <1>1, <1>2, <1>3, <1>4, <1>5, <1>6, <1>7, <1>8, <1>9, <1>10, <1>11, <1>12, <1>13, <1>14, <1>15, <1>16, <1>17, <1>18, <1>19, <1>20, <1>21, <1>22, <1>23, <1>24, <1>25, <1>26, <1>27, <1>28 DEF Next, Main

\* The configuration.
LEMMA ConfiguredKept ==
    ASSUME IInv, [Next]_vars
    PROVE  Configured'
<1> USE DEF IInv, TypeOK, Configured, NothingYet, Unloaded, BeforeInner, Loaded, Teardown, UpToSpawn, Tasks, Processes, Alive, NodeUsers
<1>1. CASE Launch
  BY <1>1 DEF Launch, FailsOrGoes, Exit
<1>2. CASE LoadConfig
  BY <1>2 DEF LoadConfig, Exit
<1>3. CASE LoadKeys
  BY <1>3 DEF LoadKeys, FailsOrGoes, Exit
<1>4. CASE StartRuntime
  BY <1>4 DEF StartRuntime, FailsOrGoes, Exit
<1>5. CASE InitTelemetry
  BY <1>5 DEF InitTelemetry, Go
<1>6. CASE StartStats
  BY <1>6 DEF StartStats, Go
<1>7. CASE ConnectChain
  BY <1>7 DEF ConnectChain, Prepare, Go, Fail
<1>8. CASE CheckProber
  BY <1>8 DEF CheckProber, Prepare, Go, Fail
<1>9. CASE SeedTickets
  BY <1>9 DEF SeedTickets, Prepare, Go, Fail
<1>10. CASE BuildNode
  BY <1>10 DEF BuildNode, Go, Fail
<1>11. CASE BindApi
  BY <1>11 DEF BindApi, Prepare, Go, Fail
<1>12. CASE StartApi
  BY <1>12 DEF StartApi, Go
<1>13. CASE BuildStrategies
  BY <1>13 DEF BuildStrategies, Go, Fail
<1>14. CASE SpawnStrategies
  BY <1>14 DEF SpawnStrategies, Go
<1>15. CASE RegisterSignals
  BY <1>15 DEF RegisterSignals, Go, Fail
<1>16. CASE OnHup
  BY <1>16 DEF OnHup
<1>17. CASE OnTerm
  BY <1>17 DEF OnTerm
<1>18. CASE SignalStreamEnds
  BY <1>18 DEF SignalStreamEnds
<1>19. CASE DropNode
  BY <1>19 DEF DropNode, Go
<1>20. CASE DropProcesses
  BY <1>20 DEF DropProcesses, AbortAll, Go
<1>21. CASE EmulateDefault
  BY <1>21 DEF EmulateDefault, Exit
<1>22. CASE Unwind
  BY <1>22 DEF Unwind, AbortAll
<1>23. CASE FlushTelemetry
  BY <1>23 DEF FlushTelemetry, Go
<1>24. CASE ShutdownRuntime
  BY <1>24 DEF ShutdownRuntime, Exit
<1>25. ASSUME NEW t \in Tasks, TaskFails(t) \/ Cancelled(t)
     PROVE  Configured'
  BY <1>25 DEF TaskFails, Cancelled, Ended, Running
<1>26. CASE ConnectionOpens \/ ConnectionEnds \/ ListenerOpens
  <2>1. CASE ConnectionOpens
    BY <2>1 DEF ConnectionOpens, Running
  <2>2. CASE ConnectionEnds
    BY <2>2 DEF ConnectionEnds, Ended, Running
  <2>3. CASE ListenerOpens
    BY <2>3 DEF ListenerOpens, Running
  <2>4. QED
    BY <1>26, <2>1, <2>2, <2>3
<1>27. CASE DefaultAction
  BY <1>27 DEF DefaultAction, Exit
<1>28. CASE (\E s \in SignalNames : Raise(s)) \/ UNCHANGED vars
  BY <1>28 DEF Raise, vars
<1>29. QED
  BY <1>1, <1>2, <1>3, <1>4, <1>5, <1>6, <1>7, <1>8, <1>9, <1>10, <1>11, <1>12, <1>13, <1>14, <1>15, <1>16, <1>17, <1>18, <1>19, <1>20, <1>21, <1>22, <1>23, <1>24, <1>25, <1>26, <1>27, <1>28 DEF Next, Main

-----------------------------------------------------------------------------
\* The invariant holds in every behaviour of a process.
THEOREM Invariant == Spec => []IInv
<1>1. IInv /\ [Next]_vars => IInv'
  BY TypeKept, TeardownKept, ExportingKept, ConfiguredKept DEF IInv
<1>2. QED
  BY InvInit, <1>1, PTL DEF Spec

\* Wherever a step of main or main_inner fails and whatever runs beside it, a
\* process that ends by itself has aborted its tasks, let go of the node and
\* flushed its telemetry.
THEOREM ExitsAreOrderly == Spec => []OrderlyExit
<1>1. IInv => OrderlyExit
  BY DEF IInv, Teardown
<1>2. QED
  BY <1>1, Invariant, PTL

\* A signal that comes once the handlers are registered ends the process only
\* after the node was dropped and every process on the list was told to stop.
THEOREM SignalsTearDown == Spec => TermTearsDown
<1> DEFINE Down == /\ "main" \notin holders /\ procs = {}
                   /\ ~Running("api") /\ ~Running("strategies")
<1>1. ASSUME IInv, [Next]_vars, exit = "none", exit' = "signal", registered
      PROVE  Down
  <2>1. EmulateDefault
    <3>1. ~DefaultAction
      BY <1>1 DEF DefaultAction
    <3>2. ASSUME NEW t \in Tasks
          PROVE  ~TaskFails(t) /\ ~Cancelled(t)
      BY <1>1 DEF TaskFails, Cancelled, Ended
    <3>3. ~ConnectionOpens /\ ~ConnectionEnds /\ ~ListenerOpens /\ ~(\E s \in SignalNames : Raise(s))
      BY <1>1 DEF ConnectionOpens, ConnectionEnds, Ended, ListenerOpens, Raise
    <3>4. ~Launch /\ ~LoadConfig /\ ~LoadKeys /\ ~StartRuntime /\ ~InitTelemetry /\ ~StartStats
      BY <1>1 DEF Launch, LoadConfig, LoadKeys, StartRuntime, FailsOrGoes, Exit, InitTelemetry, StartStats
    <3>5. ~ConnectChain /\ ~CheckProber /\ ~SeedTickets /\ ~BuildNode /\ ~BindApi /\ ~StartApi
      BY <1>1 DEF ConnectChain, CheckProber, SeedTickets, BuildNode, BindApi, Prepare, StartApi
    <3>6. ~BuildStrategies /\ ~SpawnStrategies /\ ~RegisterSignals /\ ~OnHup /\ ~OnTerm /\ ~SignalStreamEnds
      BY <1>1 DEF BuildStrategies, SpawnStrategies, RegisterSignals, OnHup, OnTerm, SignalStreamEnds
    <3>7. ~DropNode /\ ~DropProcesses /\ ~Unwind /\ ~FlushTelemetry
      BY <1>1 DEF DropNode, DropProcesses, Unwind, FlushTelemetry
    <3>8. ~ShutdownRuntime
      BY <1>1 DEF ShutdownRuntime, Exit, IInv, TypeOK
    <3>9. ~UNCHANGED vars
      BY <1>1 DEF vars
    <3>10. QED
      BY <1>1, <3>1, <3>2, <3>3, <3>4, <3>5, <3>6, <3>7, <3>8, <3>9 DEF Next, Main
  <2>2. QED
    BY <1>1, <2>1 DEF EmulateDefault, IInv, Teardown, Running
<1>2. [Next]_vars /\ IInv => [exit = "none" /\ exit' = "signal" /\ registered => Down]_vars
  BY <1>1
<1>3. QED
  BY <1>2, Invariant, PTL DEF Spec, TermTearsDown

\* "Unreachable": where the strategies are built, a binary without a deposit pool
\* meets no Pix stanza, at whatever depth of whatever tree.
THEOREM PixIsRefused == Spec => []PixStanzaUnreachable
<1>1. IInv => PixStanzaUnreachable
  <2> SUFFICES ASSUME IInv, pc = "strategies", ~PixBuilt, NEW n \in Stanzas(cfg["strategy"])
               PROVE  cfg["strategy"][n].kind # "Pix"
    BY DEF PixStanzaUnreachable
  <2>1. ValidStanza(cfg["strategy"][n])
    BY DEF IInv, Configured, Unloaded, Loaded, ValidSection, Stanzas
  <2>2. QED
    BY <2>1 DEF ValidStanza
<1>2. QED
  BY <1>1, Invariant, PTL

\* A provider that may take an instrument shows it unless it is one of Sessions,
\* and every instrument has one: the default provider takes them all.
LEMMA ProvidersServe ==
    ASSUME NEW env, NEW name \in Metrics, name # SessionPrefix
    PROVE  /\ MayTake(Providers(env), name) # {}
           /\ \A p \in MayTake(Providers(env), name) :
                 p.prometheus /\ Collected(name) <=> ~StartsWith(name, SessionPrefix)
<1> DEFINE ms == Intervals(env)
           first == Meter(<< >>, IF << >> \in DOMAIN ms THEN ms[<< >>] ELSE 60000, TRUE)
           more == {PrefixMeter(p, ms[p]) : p \in DOMAIN ms \ {<< >>}}
           only == Meter(<< >>, Absent, TRUE)
           others == IF Enabled(env)
                     THEN {[kind |-> s, prefix |-> << >>, interval |-> Absent, prometheus |-> FALSE] :
                              s \in EnabledSignals(env) \ {"metrics"}}
                     ELSE {}
           session == StartsWith(name, SessionPrefix)
<1> HIDE DEF ms, first, more, only, others
<1>1. /\ first.kind = "metrics" /\ first.prefix = << >> /\ first.prometheus = TRUE
      /\ only.kind = "metrics" /\ only.prefix = << >> /\ only.prometheus = TRUE
  BY DEF first, only, Meter
<1>2. ASSUME NEW p \in more
      PROVE  p.prometheus <=> ~StartsWith(p.prefix, SessionPrefix)
  <2>1. PICK q \in DOMAIN ms \ {<< >>} : p = PrefixMeter(q, ms[q])
    BY DEF more
  <2> DEFINE shows == ~StartsWith(q, SessionPrefix)
  <2> HIDE DEF shows
  <2>2. p = [kind |-> "metrics", prefix |-> q, interval |-> ms[q], prometheus |-> shows]
    BY <2>1 DEF PrefixMeter, Meter, shows
  <2>3. p.prefix = q /\ p.prometheus = shows
    BY <2>2
  <2>4. QED
    BY <2>3 DEF shows
<1>3. ASSUME NEW p \in others
      PROVE  p.kind # "metrics"
  <2>1. PICK s \in EnabledSignals(env) \ {"metrics"} :
            p = [kind |-> s, prefix |-> << >>, interval |-> Absent, prometheus |-> FALSE]
    BY DEF others
  <2>2. QED
    BY <2>1
<1>4. MeterProviders(env) = {first} \cup more \/ MeterProviders(env) = {only}
  <2>1. CASE Enabled(env) /\ "metrics" \in EnabledSignals(env)
    BY <2>1 DEF MeterProviders, first, more, ms
  <2>2. CASE ~(Enabled(env) /\ "metrics" \in EnabledSignals(env))
    <3>1. CASE ~Enabled(env)
      BY <3>1 DEF MeterProviders, only, first, more, ms
    <3>2. CASE "metrics" \notin EnabledSignals(env)
      BY <3>2 DEF MeterProviders, only, first, more, ms
    <3>3. QED
      BY <2>2, <3>1, <3>2
  <2>3. QED
    BY <2>1, <2>2
<1>5. Providers(env) = MeterProviders(env) \cup others
  BY DEF Providers, others
<1>6. PICK d : /\ d.kind = "metrics" /\ d.prefix = << >> /\ d.prometheus = TRUE
               /\ MeterProviders(env) = {d} \cup more \/ MeterProviders(env) = {d}
  BY <1>1, <1>4
<1>7. \A p \in MayTake(Providers(env), name) : p = d \/ (p \in more /\ StartsWith(name, p.prefix))
  BY <1>3, <1>5, <1>6 DEF MayTake
<1>8. StartsWith(name, << >>)
  BY DEF StartsWith
<1>9. d \in MayTake(Providers(env), name)
  BY <1>5, <1>6, <1>8 DEF MayTake
<1>10. Collected(name) <=> ~session
  BY DEF Collected
<1>11. ASSUME NEW p \in MayTake(Providers(env), name)
       PROVE  p.prometheus /\ Collected(name) <=> ~session
  <2>1. CASE p = d
    BY <1>6, <1>10, <2>1
  <2>2. CASE p \in more /\ StartsWith(name, p.prefix)
    <3>1. StartsWith(p.prefix, SessionPrefix) => session
      BY <2>2 DEF StartsWith
    <3>2. QED
      BY <1>2, <1>10, <2>2, <3>1
  <2>3. QED
    BY <1>7, <2>1, <2>2
<1>12. QED
  BY <1>9, <1>11

\* While main_inner runs, every instrument but those of Sessions is on /metrics,
\* whatever is exported and whatever prefixes have providers of their own.
THEOREM MetricsServed == Spec => []MetricsAlwaysServed
<1>1. IInv => MetricsAlwaysServed
  <2> SUFFICES ASSUME IInv, providers # {} \/ pc = "stats", NEW name \in Metrics \ {SessionPrefix}
               PROVE  /\ MayTake(providers, name) # {}
                      /\ \A p \in MayTake(providers, name) :
                            p.prometheus /\ Collected(name) <=> ~StartsWith(name, SessionPrefix)
    BY DEF MetricsAlwaysServed
  <2>1. providers = Providers(boot.env)
    BY DEF IInv, Exporting
  <2>2. QED
    BY <2>1, ProvidersServe
<1>2. QED
  BY <1>1, Invariant, PTL

-----------------------------------------------------------------------------
(* What HoprdConfig::try_from makes of the settings it combines.             *)

LEMMA EffectiveIs ==
    ASSUME NEW file, NEW cli, NEW env, Effective(file, cli, env) # Refused
    PROVE  LET c == Effective(file, cli, env)
           IN  /\ DOMAIN c = Settings /\ c = [s \in Settings |-> c[s]]
               /\ c["listen"] = Listen(file["listen"], cli, env.detected) /\ c["listen"] # Refused
               /\ c["mixer"] = Mixer(file["mixer"], env.mixer) /\ c["mixer"] # Refused
<1> DEFINE value == [s \in Settings |->
            CASE s \in FlagSettings          -> file[s] \/ cli[s]
              [] s \in {"password", "privateKey", "probeRecheck", "blokliUrl"} -> Override(file[s], cli[s])
              [] s = "identity"              -> ExpandHome(Override(file[s], cli[s]))
              [] s = "auth"                  -> Auth(file[s], cli)
              [] s = "host"                  -> Override(file[s], P2pHost(cli))
              [] s = "apiHost"               -> ApiHost(file[s], cli)
              [] s = "listen"                -> Listen(file[s], cli, env.detected)
              [] s \in {"safe", "module"}    -> Address(file[s], cli[s])
              [] s = "mixer"                 -> Mixer(file[s], env.mixer)
              [] OTHER                       -> file[s]]
<1>1. Effective(file, cli, env) = value /\ \A s \in Settings : value[s] # Refused
  BY DEF Effective
<1>2. value["listen"] = Listen(file["listen"], cli, env.detected) /\ "listen" \in Settings
  BY DEF Settings, FlagSettings, PlainSettings, HoistedDials
<1>3. value["mixer"] = Mixer(file["mixer"], env.mixer) /\ "mixer" \in Settings
  BY DEF Settings, FlagSettings, PlainSettings, HoistedDials
<1>4. DOMAIN value = Settings /\ value = [s \in Settings |-> value[s]]
  OBVIOUS
<1> HIDE DEF value
<1>5. QED
  BY <1>1, <1>2, <1>3, <1>4

\* Whatever option or file the default host of listeners comes from, it is an
\* address with a port.
LEMMA ListenIsConcrete ==
    ASSUME NEW b \in Boots, Listen(b.file["listen"], b.cli, b.env.detected) # Refused
    PROVE  LET host == Listen(b.file["listen"], b.cli, b.env.detected)
           IN  host.form \notin {"auto", "domain", "junk"} /\ host.port \in Nat
<1> DEFINE raw == b.cli["listen"]
           parsed == ParseSessionListenHost(raw)
           host == Listen(b.file["listen"], b.cli, b.env.detected)
<1>1. CASE raw = Absent
  BY <1>1, BootsRead DEF Listen
<1>2. CASE raw # Absent
  <2>1. raw \in [form : {"ip", "domain", "auto", "junk"}, port : Nat \cup {Absent, Bad}]
    BY <1>2, BootsRead
  <2>2. parsed # Refused /\ host = ResolveListenHost(parsed, b.env.detected)
    BY <1>2 DEF Listen
  <2>3. parsed.form \in {"ip", "domain", "auto"} /\ parsed.port \in Nat
    BY <2>1, <2>2 DEF ParseSessionListenHost, ParseHost
  <2>4. b.env.detected \in {"ip", Refused}
    BY BootsRead
  <2> HIDE DEF raw, parsed
  <2>5. (host = parsed /\ parsed.form = "ip") \/ host = [form |-> "ip", port |-> parsed.port]
    BY <2>2, <2>3, <2>4 DEF ResolveListenHost
  <2>6. QED
    BY <2>3, <2>5
<1>3. QED
  BY <1>1, <1>2

\* A section that both shapes accept is a capacity, and means the same in either.
LEMMA ShapesAgree ==
    ASSUME NEW m, IsCurrentShape(m), IsLegacyShape(m)
    PROVE  ReadCurrent(m) = ReadLegacy(m)
<1>1. "capacity" \in DOMAIN m /\ "engine" \notin DOMAIN m /\ "min" \notin DOMAIN m /\ "range" \notin DOMAIN m
  BY DEF IsCurrentShape, IsLegacyShape
<1>2. ReadLegacy(m) = Uniform(0, 20, m.capacity)
  BY <1>1 DEF ReadLegacy, DefaultMixer, Uniform
<1>3. ReadCurrent(m) = Uniform(0, 20, m.capacity)
  BY <1>1 DEF ReadCurrent, DefaultMixer, Uniform
<1>4. QED
  BY <1>2, <1>3

\* Only a file can name another engine than the uniform one.
LEMMA EngineIsNamed ==
    ASSUME NEW m, NEW env, Mixer(m, env) # Refused, Mixer(m, env).engine # "uniform"
    PROVE  "engine" \in DOMAIN m
<1>1. ReadLegacy(m).engine = "uniform" /\ MixerFromEnv(env).engine = "uniform"
  BY DEF ReadLegacy, MixerFromEnv, Uniform
<1>2. "engine" \notin DOMAIN m => ReadCurrent(m).engine = "uniform"
  BY DEF ReadCurrent, DefaultMixer, Uniform
<1>3. QED
  BY <1>1, <1>2 DEF Mixer

\* The environment cannot take the mixer's capacity away.
LEMMA CapacityPositive ==
    ASSUME NEW b \in Boots
    PROVE  Mixer(Absent, b.env.mixer).capacity > 0
<1>1. b.env.mixer.capacity \in Nat \cup {Absent}
  BY BootsRead
<1>2. MixerFromEnv(b.env.mixer).capacity > 0
  BY <1>1 DEF MixerFromEnv, Uniform, DefaultMixer
<1>3. QED
  BY <1>2 DEF Mixer

LEMMA LoadedIfAny ==
    ASSUME IInv, cfg # Absent
    PROVE  boot \in Boots /\ Loaded(cfg)
BY DEF IInv, TypeOK, Configured, NothingYet

\* A dial of the library is what the settings say, unless the environment has it.
LEMMA NodeRunsWithIs ==
    /\ NodeRunsWith["incomingCapacity"] =
         IF boot.env.incomingCapacity \in {Absent, Bad, 0} THEN Absent ELSE boot.env.incomingCapacity
    /\ \A d \in {"mixer", "fillEnabled", "fillMaxRate"} :
         NodeRunsWith[d] = cfg[d] /\ LibraryConfig(cfg)[d] = cfg[d]
<1> DEFINE lib == LibraryConfig(cfg)
<1>1. DOMAIN lib = HoistedDials \cup PinnedDials \cup {"winProb", "mixer", "publish"}
  BY DEF LibraryConfig
<1>2. \A d \in {"mixer", "fillEnabled", "fillMaxRate"} : lib[d] = cfg[d]
  BY DEF LibraryConfig, HoistedDials, PinnedDials
<1> HIDE DEF lib
<1>3. \A d \in {"mixer", "fillEnabled", "fillMaxRate"} : EnvOverrides(lib, boot.env)[d] = lib[d]
  BY <1>1 DEF EnvOverrides, HoistedDials
<1>4. EnvOverrides(lib, boot.env)["incomingCapacity"] =
         IF boot.env.incomingCapacity \in {Absent, Bad, 0} THEN Absent ELSE boot.env.incomingCapacity
  BY DEF EnvOverrides
<1>5. QED
  BY <1>2, <1>3, <1>4 DEF NodeRunsWith, lib

LEMMA LimitsKept == IInv => LimitsPositive
<1> SUFFICES ASSUME IInv, "main" \in holders
             PROVE  /\ NodeRunsWith["incomingCapacity"] # 0
                    /\ boot.file["mixer"] = Absent => NodeRunsWith["mixer"].capacity > 0
                    /\ NodeRunsWith["fillEnabled"] => NodeRunsWith["fillMaxRate"] # 0
  BY DEF LimitsPositive
<1>1. boot \in Boots /\ Loaded(cfg)
  BY DEF IInv, TypeOK, Configured, NothingYet
<1>2. NodeRunsWith["incomingCapacity"] # 0
  BY NodeRunsWithIs, AbsentIsNoValue
<1>3. boot.file["mixer"] = Absent => NodeRunsWith["mixer"].capacity > 0
  BY <1>1, NodeRunsWithIs, EffectiveIs, CapacityPositive DEF Loaded
<1>4. NodeRunsWith["fillEnabled"] => NodeRunsWith["fillMaxRate"] # 0
  BY <1>1, NodeRunsWithIs DEF Loaded, Valid, LibraryAccepts
<1>5. QED
  BY <1>2, <1>3, <1>4

\* Two configurations that differ in their secrets only are shown alike.
LEMMA RedactionHides ==
    ASSUME NEW c, c = [s \in Settings |-> c[s]]
    PROVE  AsRedacted([c EXCEPT !.password = "other",
                                !.auth = IF @ = Absent THEN @ ELSE [token |-> 99],
                                !.privateKey = IF @ = Absent THEN @ ELSE "other"]) = AsRedacted(c)
<1> DEFINE other == [c EXCEPT !.password = "other",
                              !.auth = IF @ = Absent THEN @ ELSE [token |-> 99],
                              !.privateKey = IF @ = Absent THEN @ ELSE "other"]
<1>1. {"password", "auth", "privateKey"} \subseteq Settings
  BY DEF Settings, PlainSettings
<1>2. /\ other["auth"] = (IF c["auth"] = Absent THEN Absent ELSE [token |-> 99])
      /\ other["privateKey"] = (IF c["privateKey"] = Absent THEN Absent ELSE "other")
      /\ other = [s \in Settings |-> other[s]]
      /\ \A s \in Settings \ {"password", "auth", "privateKey"} : other[s] = c[s]
  BY <1>1
<1> HIDE DEF other
<1>3. ASSUME NEW d, d = [s \in Settings |-> d[s]]
      PROVE  AsRedacted(d) = [s \in Settings |->
                CASE s = "auth"       -> IF d["auth"] = Absent THEN Absent ELSE [token |-> Redacted]
                  [] s = "privateKey" -> IF d["privateKey"] = Absent THEN Absent ELSE Redacted
                  [] s = "password"   -> Redacted
                  [] OTHER            -> d[s]]
  BY <1>1, <1>3 DEF AsRedacted
<1>4. [token |-> 99] # Absent /\ "other" # Absent
  <2>1. [token |-> 99] \in [token : Nat]
    OBVIOUS
  <2>2. QED
    BY <2>1, AbsentIsNoValue DEF Secrets
<1>5. AsRedacted(other) = AsRedacted(c)
  <2>1. (other["auth"] = Absent <=> c["auth"] = Absent)
        /\ (other["privateKey"] = Absent <=> c["privateKey"] = Absent)
    BY <1>2, <1>4
  <2>2. QED
    BY <1>2, <1>3, <2>1
<1>6. QED
  BY <1>5 DEF other

\* What the process runs with is usable, and shown without its secrets, from
\* whatever file, command line and environment it was started with.
THEOREM SettingsAreEffective == Spec => []EffectiveSettings
<1>1. IInv => TokenLongEnough
  <2> SUFFICES ASSUME IInv, Running("api"), cfg["auth"] # Absent
               PROVE  cfg["auth"].token >= MinTokenLength
    BY DEF TokenLongEnough
  <2>1. ~NothingYet
    BY DEF NothingYet, Running, Tasks, Processes
  <2>2. Loaded(cfg)
    BY <2>1 DEF IInv, Configured
  <2>3. QED
    BY <2>2 DEF Loaded, Valid, ValidApi
<1>2. IInv => ListenHostConcrete
  BY LoadedIfAny, EffectiveIs, ListenIsConcrete DEF ListenHostConcrete, Loaded
<1>3. IInv => MixerShapesAgree
  <2>1. IInv /\ cfg # Absent /\ cfg["mixer"].engine # "uniform" => "engine" \in DOMAIN boot.file["mixer"]
    BY LoadedIfAny, EffectiveIs, EngineIsNamed DEF Loaded
  <2>2. QED
    BY <2>1, ShapesAgree DEF MixerShapesAgree
<1>4. IInv => RedactedHidesSecrets
  <2>1. IInv /\ cfg # Absent => cfg = [s \in Settings |-> cfg[s]]
    BY LoadedIfAny, EffectiveIs DEF Loaded
  <2>2. QED
    BY <2>1, RedactionHides DEF RedactedHidesSecrets
<1>5. IInv => EffectiveSettings
  BY <1>1, <1>2, <1>3, <1>4, LimitsKept DEF EffectiveSettings, IInv
<1>6. QED
  BY <1>5, Invariant, PTL

=============================================================================
