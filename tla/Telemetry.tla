----------------------------- MODULE Telemetry ------------------------------
(***************************************************************************)
(* What the environment makes of the telemetry of a node, and what         *)
(* init_logger creates: hoprd/src/telemetry.rs.                            *)
(*                                                                         *)
(* env has the variables as texts already read: a switch ("on", "off" or   *)
(* something else), endpoints with their scheme, the comma-separated lists *)
(* as sequences of entries.  Absent is a variable that is not set.  The    *)
(* name of a metric, and a prefix of names, are the sequences of the words *)
(* between the underscores.                                                *)
(***************************************************************************)
EXTENDS NodeConfig, Sequences, SequencesExt

CONSTANT Metrics   \* the names of instruments the node has

ASSUME MetricsNamed == Metrics \subseteq Seq(STRING)

StartsWith(name, prefix) == \A i \in DOMAIN prefix : i \in DOMAIN name /\ name[i] = prefix[i]
SessionPrefix == <<"hopr", "session">>

Signals == {"traces", "logs", "metrics"}

\* HOPRD_OTLP_ENDPOINT, unless blank, takes the place of the exporter's own variable.
IsSet(endpoint) == endpoint # Absent /\ endpoint # "blank"
Endpoint(env) == IF IsSet(env.hoprdEndpoint) THEN env.hoprdEndpoint ELSE env.legacyEndpoint

\* Only hoprd's own variables can enable the export.
Enabled(env) ==
    CASE env.use = "on"  -> TRUE
      [] env.use = "off" -> FALSE
      [] OTHER           -> IsSet(env.hoprdEndpoint)

Transport(env) == IF Endpoint(env) \in {"http", "https"} THEN "http" ELSE "grpc"

\* Entries that are no signal are left out; nothing left means traces.
EnabledSignals(env) ==
    LET named == IF env.signals = Absent THEN {} ELSE Range(env.signals) \cap Signals
    IN  IF named = {} THEN {"traces"} ELSE named

\* An interval is a number of milliseconds; 0, and text without a number, do not count.
ValidInterval(ms) == ms \in Nat \ {0}

\* Entries are [prefix, ms], no words for the default.  Of several valid
\* entries of one prefix the last decides.
Intervals(env) ==
    LET valid == SelectSeq(env.intervals, LAMBDA e : ValidInterval(e.ms))
        LastOf(p) == valid[CHOOSE i \in DOMAIN valid :
                             /\ valid[i].prefix = p
                             /\ \A j \in i + 1 .. Len(valid) : valid[j].prefix # p]
    IN  IF env.intervals = Absent THEN << >>
        ELSE [p \in {valid[i].prefix : i \in DOMAIN valid} |-> LastOf(p).ms]

\* A provider is [kind, prefix, interval, prometheus]: prometheus says that
\* its instruments have a reader for /metrics.
Meter(prefix, interval, prometheus) ==
    [kind |-> "metrics", prefix |-> prefix, interval |-> interval, prometheus |-> prometheus]
PrefixMeterSwapped(prefix, interval) ==     \* a mutant: what the session prefix starts with
    Meter(prefix, interval, ~StartsWith(SessionPrefix, prefix))
PrefixMeter(prefix, interval) == Meter(prefix, interval, ~StartsWith(prefix, SessionPrefix))

MeterProviders(env) ==
    LET ms == Intervals(env)
    IN  IF Enabled(env) /\ "metrics" \in EnabledSignals(env)
        THEN {Meter(<< >>, IF << >> \in DOMAIN ms THEN ms[<< >>] ELSE 60000, TRUE)} \cup
             {PrefixMeter(p, ms[p]) : p \in DOMAIN ms \ {<< >>}}
        ELSE {Meter(<< >>, Absent, TRUE)}

\* init_logger when no exporter fails to build; it keeps each in TelemetryHandles.
Providers(env) ==
    MeterProviders(env) \cup
    (IF Enabled(env)
     THEN {[kind |-> s, prefix |-> << >>, interval |-> Absent, prometheus |-> FALSE] :
              s \in EnabledSignals(env) \ {"metrics"}}
     ELSE {})

\* The provider the library gives an instrument to is one registered for a
\* prefix of its name, or, where registering failed, the default one.
MayTake(ps, name) == {p \in ps : p.kind = "metrics" /\ StartsWith(name, p.prefix)}

\* The REST API leaves the series of Sessions out of what it gathers.
Collected(name) == ~(StartsWith(name, SessionPrefix) /\ name # SessionPrefix)
=============================================================================
