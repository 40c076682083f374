----------------------------- MODULE NodeConfig -----------------------------
(***************************************************************************)
(* From command line, environment and file to the configuration the node   *)
(* runs with: hoprd/src/cli.rs, hoprd/src/config.rs, rest-api/src/config.rs.*)
(*                                                                         *)
(* A file and a configuration are functions on the names of settings; the  *)
(* command line maps the names it can give, and Absent is an option that   *)
(* was not given.  Values are abstract: a token is its length and quoting, *)
(* a host its form and port.  Refused is what a step yields that makes     *)
(* hoprd exit before it starts a node.                                     *)
(***************************************************************************)
EXTENDS Naturals, FiniteSets, TLC

CONSTANTS Absent,   \* an option not given, None, Auth::None, what is left to the library
          Bad,      \* text that does not parse as what its option needs
          Refused   \* see above

\* The forms of a password or a private key.
Secrets == {"", "   ", "key", "junk", "other"}

\* No option takes it for a value.
ASSUME AbsentIsNoValue == Absent \notin Nat \cup Secrets \cup [token : Nat]

Redacted == "<REDACTED>"

MinTokenLength == 8     \* MINIMAL_API_TOKEN_LENGTH
DefaultApiPort == 3001  \* DEFAULT_API_PORT

\* The value of an option, or what was there without it.
Override(old, given) == IF given = Absent THEN old ELSE given

(***************************************************************************)
(* Value parsers of the command line.  A raw token is [len, quotes] with   *)
(* quotes one of "none", "both", "one"; the quotes count in len.           *)
(***************************************************************************)
ParseApiToken(raw) ==
    IF raw.len < MinTokenLength \/ raw.quotes = "one" THEN Refused
    ELSE [token |-> IF raw.quotes = "both" THEN raw.len - 2 ELSE raw.len]

\* A host is [form, port]: form "ip", "domain", "auto" or "junk"; a port may
\* be Absent or Bad.  HostConfig::from_str, of the library, needs a port
\* after an address and supplies one for a domain.
ParseHost(raw) ==
    IF raw.form = "junk" \/ raw.port = Bad THEN Refused
    ELSE IF raw.port = Absent THEN (IF raw.form = "domain" THEN [raw EXCEPT !.port = 0] ELSE Refused)
    ELSE raw

ParseSessionListenHost(raw) ==
    IF raw.form # "auto" THEN ParseHost(raw)
    ELSE IF raw.port = Bad THEN Refused
    ELSE [raw EXCEPT !.port = IF raw.port = Absent THEN 0 ELSE raw.port]

\* detected: the first address of the interfaces that is IPv4 and no loopback, or Refused.
ResolveListenHost(host, detected) ==
    CASE host.form = "ip"   -> host
      [] host.form = "auto" /\ detected # Refused -> [form |-> detected, port |-> host.port]
      [] OTHER -> Refused

(***************************************************************************)
(* The settings, by how the command line acts on them.                     *)
(***************************************************************************)
\* counted flags: given or not, never able to switch a setting off
FlagSettings == {"announce", "announceLocal", "preferLocal", "explicitPaths",
                 "initialize", "forceInitialize", "apiEnable"}
\* options whose parsed value replaces that of the file
PlainSettings == {"probeRecheck", "password", "privateKey", "identity", "blokliUrl"}
\* dials of the library which the user configuration hoists, and what it pins
HoistedDials == {"quota", "ssasPerRequest", "drainAfterClose", "fillEnabled", "fillMaxRate"}
PinnedDials == {"maxRecoveryIdle", "fillHeartbeat", "reconstructor"}
Settings == FlagSettings \cup PlainSettings \cup HoistedDials
            \cup {"auth", "host", "apiHost", "listen", "safe", "module", "winProb", "mixer", "strategy"}

(***************************************************************************)
(* The packet mixer.  env and the shapes of the file give numbers or       *)
(* Absent; a bad number in the environment counts as absent there.         *)
(***************************************************************************)
Uniform(min, range, capacity) ==
    [engine |-> "uniform", min |-> min, range |-> range, capacity |-> capacity]
DefaultMixer == Uniform(0, 20, 20000)

MixerFromEnv(env) ==
    Uniform(Override(DefaultMixer.min, env.min), Override(DefaultMixer.range, env.range),
            IF env.capacity \in {Absent, 0} THEN DefaultMixer.capacity ELSE env.capacity)

\* serde tries the current shape first: a capacity, an optional engine, nothing else.
IsCurrentShape(m) ==
    DOMAIN m \subseteq {"capacity", "engine"} /\ "capacity" \in DOMAIN m
IsLegacyShape(m) == DOMAIN m \subseteq {"min", "range", "capacity"}

ReadCurrent(m) ==
    IF "engine" \in DOMAIN m THEN [DefaultMixer EXCEPT !.engine = m.engine, !.capacity = m.capacity]
                             ELSE [DefaultMixer EXCEPT !.capacity = m.capacity]
ReadLegacy(m) ==
    LET At(k) == IF k \in DOMAIN m THEN m[k] ELSE DefaultMixer[k]
    IN  Uniform(At("min"), At("range"), At("capacity"))

Mixer(m, env) ==
    IF m = Absent THEN MixerFromEnv(env)
    ELSE CASE IsCurrentShape(m) -> ReadCurrent(m)
           [] ~IsCurrentShape(m) /\ IsLegacyShape(m) -> ReadLegacy(m)
           [] OTHER -> Refused

(***************************************************************************)
(* File and command line to one configuration.                             *)
(***************************************************************************)
\* A path is [home, name]; home stands for a leading "~".
ExpandHome(path) == [path EXCEPT !.home = FALSE]

\* The token is set after authentication was disabled.
Auth(file, cli) ==
    LET kept == IF cli.disableAuth THEN Absent ELSE file
    IN  IF cli.apiToken = Absent THEN kept ELSE ParseApiToken(cli.apiToken)

\* An API host brings the default port with it, an API port only itself.
ApiHost(file, cli) ==
    LET host == IF cli.apiHost = Absent THEN file
                ELSE [form |-> cli.apiHost, port |-> DefaultApiPort]
    IN  IF host.form = "junk" THEN Refused
        ELSE [host EXCEPT !.port = Override(@, cli.apiPort)]

P2pHost(cli) == IF cli.host = Absent THEN Absent ELSE ParseHost(cli.host)

Listen(file, cli, detected) ==
    IF cli.listen = Absent THEN file
    ELSE LET parsed == ParseSessionListenHost(cli.listen)
         IN  IF parsed = Refused THEN Refused ELSE ResolveListenHost(parsed, detected)

Address(old, given) == IF given = Bad THEN Refused ELSE Override(old, given)

\* HoprdConfig::try_from, behind serde.  blokliUrl is the one setting without
\* a serde default: a file that leaves it out does not parse.
Effective(file, cli, env) ==
    LET value == [s \in Settings |->
            CASE s \in FlagSettings          -> file[s] \/ cli[s]
              [] s \in {"password", "privateKey", "probeRecheck", "blokliUrl"} -> Override(file[s], cli[s])
              [] s = "identity"              -> ExpandHome(Override(file[s], cli[s]))
              [] s = "auth"                  -> Auth(file[s], cli)
              [] s = "host"                  -> Override(file[s], P2pHost(cli))
              [] s = "apiHost"               -> ApiHost(file[s], cli)
              [] s = "listen"                -> Listen(file[s], cli, env.detected)
              [] s \in {"safe", "module"}    -> Address(file[s], cli[s])
              [] s = "mixer"                 -> Mixer(file[s], env.mixer)
              [] OTHER                       -> file[s]]
    IN  IF file.blokliUrl = Absent \/ \E s \in Settings : value[s] = Refused
        THEN Refused ELSE value

(***************************************************************************)
(* Validation and the library's configuration.                             *)
(***************************************************************************)
\* A key is Absent, "" or "   " (blank), "key" (128 hexadecimal digits) or "junk".
ValidIdentity(cfg) ==
    /\ cfg.password # ""
    /\ cfg.privateKey \in {Absent, "key"}
    /\ cfg.identity.name # "" \/ cfg.privateKey \notin {Absent, "", "   "}

ValidApiOffByOne(cfg) == cfg.auth # Absent => cfg.auth.token >= MinTokenLength - 1   \* a mutant
ValidApi(cfg) == cfg.auth # Absent => cfg.auth.token >= MinTokenLength

\* From<UserHoprLibConfig>: a winning probability outside 0..100 per cent is dropped.
LibraryConfig(cfg) ==
    [d \in HoistedDials \cup PinnedDials \cup {"winProb", "mixer", "publish"} |->
        CASE d \in HoistedDials -> cfg[d]
          [] d \in PinnedDials  -> Absent
          [] d = "winProb"      -> IF cfg.winProb \in 0..100 THEN cfg.winProb ELSE Absent
          [] d = "mixer"        -> cfg.mixer
          [] d = "publish"      -> cfg.announce]

\* What of the library's own validation this code relies on: it refuses a
\* ceiling of the fill rate no accepted cycle could be finished under.
LibraryAccepts(lib) == ~(lib["fillEnabled"] /\ lib["fillMaxRate"] = 0)

\* The strategies' part of validate() is in Strategies.
Valid(cfg) == ValidIdentity(cfg) /\ ValidApi(cfg) /\ LibraryAccepts(LibraryConfig(cfg))

\* update_hopr_lib_config_from_env_vars: both concurrencies are assigned in any
\* case, the capacity only by a positive number.
EnvOverrides(lib, env) ==
    LET Number(v) == IF v = Bad THEN Absent ELSE v
    IN  [d \in DOMAIN lib \cup {"outputConcurrency", "inputConcurrency", "incomingCapacity"} |->
            CASE d = "outputConcurrency" -> Number(env.outputConcurrency)
              [] d = "inputConcurrency"  -> Number(env.inputConcurrency)
              [] d = "incomingCapacity"  ->
                    IF env.incomingCapacity \in {Absent, Bad, 0} THEN Absent ELSE env.incomingCapacity
              [] OTHER                   -> lib[d]]

\* HoprdConfig::as_redacted: what the API and the log are given of a configuration.
AsRedacted(cfg) ==
    [cfg EXCEPT !.auth = IF @ = Absent THEN @ ELSE [token |-> Redacted],
                !.privateKey = IF @ = Absent THEN @ ELSE Redacted,
                !.password = Redacted]
=============================================================================
