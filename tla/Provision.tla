----------------------------- MODULE Provision ------------------------------
(* From an empty or kept cluster directory to running nodes: what identity.rs  *)
(* `generate` persists and pays for, node by node, and what a later run on the *)
(* same directory and chain makes of it. A run ends at any point, by an error, *)
(* a time-out or a kill; transactions it has submitted stay with the chain.    *)
EXTENDS Mesh, Latency, PixSettings, SequencesExt

CONSTANTS
  MaxExtras,        \* identity::MAX_EXTRA_IDENTITIES
  Runs,             \* bound: runs on the directory
  Settings,         \* the settings a run may be started with
  NativeTarget,     \* xDai an account is topped up to
  Stake,            \* wxHOPR an account gets and deploy_safe moves to its Safe
  Float,            \* wxHOPR a Safe holds on top of the stake, for PIX
  PortMax           \* largest port number, 65535

ASSUME AmountsPositive == {NativeTarget, Stake, Float} \subseteq Nat \ {0}
ASSUME ProvisionNumbers ==
  MaxExtras \in Nat /\ Runs \in Nat \ {0} /\ PortMax \in Nat \ {0}

Ids == 0 .. MaxNodes + MaxExtras - 1        \* nodes, then extra identities
IsExtra(id) == id >= MaxNodes

\* The settings of a run:
\*   external     --chain-url: the chain outlives the run
\*   frozen       --frozen-identities
\*   pix          --enable-pix, and the --pix-config file or an empty one
\*   latency      --latency, NoLatency without
\*   grant, asks  HOPRD_CURVY_SCOPE_AGGREGATOR, HOPRD_CURVY_SCOPE_RPC_URL
\*   size, extras, base (--p2p-port-base), relayBase (--latency ..@port)
\*   floats       HOPRD_PIX_FLOAT_NODE_IDS
\*   management   --channel-management
ASSUME SettingsAreSettings == \A o \in Settings :
  /\ o.external \in BOOLEAN /\ o.frozen \in BOOLEAN /\ o.pix.on \in BOOLEAN
  /\ o.grant \in BOOLEAN /\ o.asks \in BOOLEAN
  /\ o.size \in 1 .. MaxNodes /\ o.extras \in 0 .. MaxExtras
  /\ o.base \in 0 .. PortMax /\ o.relayBase \in 0 .. PortMax
  /\ o.floats \subseteq Ids /\ o.management \in Managements
ASSUME PixNumbers == \A o \in Settings : \A field \in DOMAIN o.pix.file \ {"enforce"} :
  o.pix.file[field] \in IF field = "dynamic" THEN BOOLEAN ELSE Nat
ASSUME DelaysInRange == \A o \in Settings : \A e \in Entries(o.latency) :
  /\ e \in Expression /\ e.a <= LongestDelay /\ e.b <= LongestDelay
  /\ e.form = "jitter" => e.a + e.b <= LongestDelay

Key == Ids \X (0 .. Runs)       \* frozen keys have number 0, random ones that of their run
Safe == Key \X (1 .. Runs)      \* by owner and the run that submitted the deployment
NoKey == <<>>
Deployer == <<>>                \* the account that pays, ANVIL's first by default
NoSafe == <<>>
NoPort == PortMax + 1
NoTx == [kind |-> "none"]
NoPix == [on |-> FALSE, file |-> <<>>]
NoConfig == [safe |-> NoSafe, announce |-> FALSE, pix |-> NoPixConfig, keys |-> NoKey]

VARIABLES
  run, opts, pc, id,
  key, safe,        \* the identity being provisioned and the Safe found for it
  keystore,         \* node_id_<id>.id, extra_id_<id>.id
  config,           \* hoprd_cfg_<id>.yaml; "keys" is the history of what the file was made for
  chain,            \* balances, Safes, bindings and announcements, as mined
  pool,             \* transactions submitted and not mined, oldest first
  awaited,          \* the one the run waits for
  paid, lost,       \* history: wxHOPR sent to an account; its transactions given up on
  aside,            \* the external chain while runs on managed ones go on
  displaced         \* history: keys that a run on a managed chain wrote others over

vars == <<run, opts, pc, id, key, safe, keystore, config, chain, pool, awaited, paid, lost,
          aside, displaced, meshVars>>
disk == <<keystore, config, displaced>>
books == <<paid, lost, aside>>

Fresh == [native |-> [k \in Key |-> 0], token |-> [k \in Key |-> 0],
          held |-> [s \in Safe |-> 0], safes |-> {}, indexed |-> {}, scoped |-> {},
          bound |-> [k \in Key |-> NoSafe], port |-> [k \in Key |-> NoPort]]

\* A chain with what is known of it: as it is, and a new one.
Connected == [chain |-> chain, pool |-> pool, paid |-> paid, lost |-> lost,
              channels |-> channels, opening |-> opening]
NewChain == [chain |-> Fresh, pool |-> <<>>, paid |-> [k \in Key |-> 0], lost |-> [k \in Key |-> 0],
             channels |-> {}, opening |-> {}]

Steps == {"keys", "native", "safe", "token", "deploy", "index", "grant", "float",
          "bind", "announce", "config", "store", "start"}

Init ==
  /\ run = 0 /\ opts \in Settings /\ pc = "idle" /\ id = 0
  /\ key = NoKey /\ safe = NoSafe
  /\ keystore = [i \in Ids |-> NoKey] /\ config = [i \in Ids |-> NoConfig]
  /\ chain = Fresh /\ pool = <<>> /\ awaited = NoTx
  /\ paid = [k \in Key |-> 0] /\ lost = [k \in Key |-> 0]
  /\ aside = NewChain /\ displaced = {}
  /\ MeshInit

Calm == awaited = NoTx
At(step) == pc = step /\ Calm
Provisioning == pc \in Steps

-----------------------------------------------------------------------------
(* main(): a managed chain is a new one at every run and gone after it. The    *)
(* external one is there for the next run that names it, with all that was     *)
(* paid on it; what happens there meanwhile happens when it is connected again. *)

Connect(c) ==
  /\ chain' = c.chain /\ pool' = c.pool /\ paid' = c.paid /\ lost' = c.lost
  /\ phase' = "off" /\ channels' = c.channels /\ opening' = c.opening
  /\ UNCHANGED <<members, managed, todo, missing, asked, late>>

External == IF opts.external THEN Connected ELSE aside

Begin(o) ==
  /\ pc = "idle" /\ run < Runs
  /\ o.latency = NoLatency \/ Usable(o.latency)
  /\ Readable(o.pix.file)
  /\ run' = run + 1 /\ opts' = o
  /\ pc' = "keys" /\ id' = 0 /\ key' = NoKey /\ safe' = NoSafe
  /\ Connect(IF o.external THEN External ELSE NewChain)
  /\ aside' = IF o.external THEN NewChain ELSE External
  /\ UNCHANGED <<disk, awaited>>

\* The ids a run provisions, in order.
NodeIds == 0 .. opts.size - 1
LastId == IF opts.extras > 0 THEN MaxNodes + opts.extras - 1 ELSE opts.size - 1
After(i) == IF i = opts.size - 1 /\ opts.extras > 0 THEN MaxNodes ELSE i + 1

\* A plausible bug: the saved identity of an external chain is replaced.
ReusesNever(i) == FALSE

Reuses(i) == opts.external /\ keystore[i] # NoKey

\* node_keys: an external chain's saved identity is loaded, any other is
\* persisted before it is paid for. Extra identities are frozen and stored last.
NodeKeys ==
  /\ At("keys") /\ ~IsExtra(id)
  /\ key' = IF Reuses(id) THEN keystore[id] ELSE <<id, IF opts.frozen THEN 0 ELSE run>>
  /\ keystore' = [keystore EXCEPT ![id] = key']
  /\ displaced' = IF opts.external THEN displaced ELSE displaced \cup ({keystore[id]} \ {key', NoKey})
  /\ pc' = "native"
  /\ UNCHANGED <<run, opts, id, safe, config, chain, pool, awaited, books, meshVars>>

ExtraKeys ==
  /\ At("keys") /\ IsExtra(id)
  /\ key' = <<id, 0>>
  /\ pc' = "native"
  /\ UNCHANGED <<run, opts, id, safe, disk, chain, pool, awaited, books, meshVars>>

\* A transaction is submitted and waited for before the next step is taken.
Submit(tx) == pool' = Append(pool, tx) /\ awaited' = tx
SubmitIf(needed, tx) == IF needed THEN Submit(tx) ELSE UNCHANGED <<pool, awaited>>

Pay(kind, target, amount) ==
  [kind |-> kind, from |-> Deployer, account |-> key, safe |-> target, port |-> NoPort,
   amount |-> amount, run |-> run]
Own(kind, target, port) ==
  [kind |-> kind, from |-> key, account |-> key, safe |-> target, port |-> port,
   amount |-> Stake, run |-> run]

NativeTopUp ==
  /\ At("native")
  /\ SubmitIf(chain.native[key] < NativeTarget,
              Pay("native", NoSafe, NativeTarget - chain.native[key]))
  /\ pc' = "safe"
  /\ UNCHANGED <<run, opts, id, key, safe, disk, chain, books, meshVars>>

Owned(k) == {s \in chain.indexed : s[1] = k}

\* A plausible bug: the Safe of an earlier run is not looked for.
FindSafeNever ==
  /\ At("safe")
  /\ pc' = "token"
  /\ UNCHANGED <<run, opts, id, key, safe, disk, chain, pool, awaited, books, meshVars>>

\* An identity that has a Safe already keeps it.
FindSafe ==
  /\ At("safe")
  /\ IF Owned(key) = {}
     THEN pc' = "token" /\ UNCHANGED safe
     ELSE pc' = "grant" /\ safe' \in Owned(key)
  /\ UNCHANGED <<run, opts, id, key, disk, chain, pool, awaited, books, meshVars>>

TokenDeficit == IF chain.token[key] < Stake THEN Stake - chain.token[key] ELSE 0

TokenTopUp ==
  /\ At("token")
  /\ SubmitIf(TokenDeficit > 0, Pay("token", NoSafe, TokenDeficit))
  /\ paid' = [paid EXCEPT ![key] = @ + TokenDeficit]
  /\ pc' = "deploy"
  /\ UNCHANGED <<run, opts, id, key, safe, disk, chain, lost, aside, meshVars>>

DeploySafe ==
  /\ At("deploy")
  /\ Submit(Own("deploy", <<key, run>>, NoPort))
  /\ pc' = "index"
  /\ UNCHANGED <<run, opts, id, key, safe, disk, chain, books, meshVars>>

\* The poll started before the deployment returns what the indexer shows; its
\* 120 s may also run out (Fail).
AwaitIndexed ==
  /\ At("index")
  /\ safe' \in Owned(key)
  /\ pc' = "grant"
  /\ UNCHANGED <<run, opts, id, key, disk, chain, pool, awaited, books, meshVars>>

\* A module that has the target already is asked for it, or reverts the grant,
\* which counts as granted when the error says so and ends the run otherwise.
ScopeAggregator ==
  /\ At("grant")
  /\ SubmitIf(opts.grant /\ ~(opts.asks /\ safe \in chain.scoped), Own("grant", safe, NoPort))
  /\ pc' = "float"
  /\ UNCHANGED <<run, opts, id, key, safe, disk, chain, books, meshVars>>

\* The float comes on top of the stake that is in the Safe already.
FloatTarget(i) == IF i \in opts.floats THEN Stake + Float ELSE Stake

FloatTopUp ==
  /\ At("float")
  /\ SubmitIf(~IsExtra(id) /\ opts.pix.on /\ chain.held[safe] < FloatTarget(id),
              Pay("float", safe, FloatTarget(id) - chain.held[safe]))
  /\ pc' = IF IsExtra(id) THEN "store" ELSE "bind"
  /\ UNCHANGED <<run, opts, id, key, safe, disk, chain, books, meshVars>>

\* AlreadyRegistered is taken for success, whichever Safe it names.
RegisterSafe ==
  /\ At("bind")
  /\ SubmitIf(chain.bound[key] = NoSafe, Own("bind", safe, NoPort))
  /\ pc' = "announce"
  /\ UNCHANGED <<run, opts, id, key, safe, disk, chain, books, meshVars>>

\* Peers of a latency cluster dial the relay, of any other the node.
Relayed == opts.latency # NoLatency
AnnouncedBase == IF Relayed THEN opts.relayBase ELSE opts.base
AnnouncePort(i) == AnnouncedBase + i

Announce ==
  /\ At("announce")
  /\ AnnouncePort(id) <= PortMax        \* checked_add; an overflow ends the run (Fail)
  /\ SubmitIf(chain.port[key] # AnnouncePort(id), Own("announce", NoSafe, AnnouncePort(id)))
  /\ pc' = "config"
  /\ UNCHANGED <<run, opts, id, key, safe, disk, chain, books, meshVars>>

PixOf(i) == IF opts.pix.on THEN PixConfig(Merged(opts.pix.file), i) ELSE NoPixConfig

Advance == IF id = LastId THEN pc' = "start" /\ UNCHANGED id ELSE pc' = "keys" /\ id' = After(id)

\* A plausible bug: every node announces itself.
NodeConfigAnnounces ==
  /\ At("config")
  /\ config' = [config EXCEPT ![id] = [safe |-> safe, announce |-> TRUE,
                                            pix |-> PixOf(id), keys |-> key]]
  /\ Advance
  /\ UNCHANGED <<run, opts, key, safe, keystore, displaced, chain, pool, awaited, books, meshVars>>

\* node_config: behind a relay a node must not announce itself.
NodeConfig ==
  /\ At("config")
  /\ config' = [config EXCEPT ![id] = [safe |-> safe, announce |-> ~Relayed,
                                            pix |-> PixOf(id), keys |-> key]]
  /\ Advance
  /\ UNCHANGED <<run, opts, key, safe, keystore, displaced, chain, pool, awaited, books, meshVars>>

StoreExtra ==
  /\ At("store")
  /\ keystore' = [keystore EXCEPT ![id] = key]
  /\ Advance
  /\ UNCHANGED <<run, opts, key, safe, config, displaced, chain, pool, awaited, books, meshVars>>

\* start_nodes, the wait for readiness, and on to the channels.
StartNodes ==
  /\ At("start")
  /\ \A i \in NodeIds : config[i] # NoConfig
  /\ Relayed => opts.base + opts.size - 1 <= PortMax     \* relay target ports
  /\ StartMesh(NodeIds, opts.management)
  /\ pc' = "up"
  /\ UNCHANGED <<run, opts, id, key, safe, disk, chain, pool, awaited, books>>

-----------------------------------------------------------------------------
(* The end of a run, the nodes and the chain.                                  *)

\* An error, a time-out or a kill. What the run waited for may still be mined
\* or, for a Safe, show up in the index.
GivesUp(k) == (awaited # NoTx /\ awaited.account = k) \/ (pc = "index" /\ key = k)

End ==
  /\ pc # "idle"
  /\ pc' = "idle"
  /\ awaited' = NoTx
  /\ lost' = [k \in Key |-> IF GivesUp(k) THEN lost[k] + 1 ELSE lost[k]]
  /\ StopMesh
  /\ UNCHANGED <<run, opts, id, key, safe, disk, chain, pool, paid, aside>>

\* External: what a mined transaction does to the chain.
Mine(tx) ==
  CASE tx.kind = "native"   -> [chain EXCEPT !.native[tx.account] = @ + tx.amount]
    [] tx.kind = "token"    -> [chain EXCEPT !.token[tx.account] = @ + tx.amount]
    [] tx.kind = "float"    -> [chain EXCEPT !.held[tx.safe] = @ + tx.amount]
    [] tx.kind = "deploy"   -> [chain EXCEPT !.token[tx.account] = @ - tx.amount,
                                             !.held[tx.safe] = @ + tx.amount,
                                             !.safes = @ \cup {tx.safe}]
    [] tx.kind = "grant"    -> [chain EXCEPT !.scoped = @ \cup {tx.safe}]
    [] tx.kind = "bind"     -> [chain EXCEPT !.bound[tx.account] = tx.safe]
    [] tx.kind = "announce" -> [chain EXCEPT !.port[tx.account] = tx.port]

Reverts(tx) == \/ tx.kind = "deploy" /\ chain.token[tx.account] < tx.amount
               \/ tx.kind = "bind" /\ chain.bound[tx.account] # NoSafe

\* External: transactions of one sender are mined in the order of their nonces.
Land(n) ==
  /\ \A m \in 1 .. n - 1 : pool[m].from # pool[n].from
  /\ ~Reverts(pool[n])
  /\ chain' = Mine(pool[n])
  /\ pool' = RemoveAt(pool, n)
  /\ awaited' = IF awaited = pool[n] THEN NoTx ELSE awaited
  /\ UNCHANGED <<run, opts, pc, id, key, safe, disk, books, meshVars>>

Forget(n) ==
  /\ pool' = RemoveAt(pool, n)
  /\ UNCHANGED <<run, opts, pc, id, key, safe, disk, chain, awaited, books, meshVars>>

Index(s) ==
  /\ s \in chain.safes \ chain.indexed
  /\ chain' = [chain EXCEPT !.indexed = @ \cup {s}]
  /\ UNCHANGED <<run, opts, pc, id, key, safe, disk, pool, awaited, books, meshVars>>

\* External: a node that may announce publishes the port it listens on itself.
NodeAnnounces(i) ==
  /\ pc = "up" /\ i \in members
  /\ config[i].announce
  /\ chain' = [chain EXCEPT !.port[keystore[i]] = opts.base + i]
  /\ UNCHANGED <<run, opts, pc, id, key, safe, disk, pool, awaited, books, meshVars>>

\* External: nodes pay gas, channels and deposits.
Spend(i) ==
  /\ pc = "up" /\ i \in members /\ phase = "running"
  /\ chain' = [chain EXCEPT !.native[keystore[i]] = 0, !.held[config[i].safe] = 0]
  /\ chain' # chain
  /\ UNCHANGED <<run, opts, pc, id, key, safe, disk, pool, awaited, books, meshVars>>

\* sweep_safes on a stopped cluster: every kept node has a config, and what the
\* Safes named there hold is moved, node by node; any of them may fail.
Kept == {i \in Ids : ~IsExtra(i) /\ keystore[i] # NoKey}
Sweep(n) ==
  /\ pc = "idle" /\ Kept # {}
  /\ \A i \in Kept : config[i] # NoConfig
  /\ chain' = [chain EXCEPT !.held = [s \in Safe |->
                  IF \E i \in Kept : i <= n /\ config[i].safe = s THEN 0 ELSE @[s]]]
  /\ UNCHANGED <<run, opts, pc, id, key, safe, disk, pool, awaited, books, meshVars>>

MeshStep ==
  /\ MeshNext
  /\ pc' = IF pc = "up" /\ phase' = "failed" THEN "idle" ELSE pc
  /\ UNCHANGED <<run, opts, id, key, safe, disk, chain, pool, awaited, books>>

Provide ==
  \/ NodeKeys \/ ExtraKeys \/ NativeTopUp \/ FindSafe \/ TokenTopUp \/ DeploySafe
  \/ AwaitIndexed \/ ScopeAggregator \/ FloatTopUp \/ RegisterSafe \/ Announce
  \/ NodeConfig \/ StoreExtra \/ StartNodes

Next ==
  \/ \E o \in Settings : Begin(o)
  \/ Provide \/ End \/ MeshStep
  \/ \E n \in DOMAIN pool : Land(n) \/ Forget(n)
  \/ \E s \in chain.safes : Index(s)
  \/ \E i \in Ids : NodeAnnounces(i) \/ Spend(i) \/ Sweep(i)

Spec == Init /\ [][Next]_vars
FairSpec == Spec /\ MeshFairness

-----------------------------------------------------------------------------
(* What a bring-up promises.                                                   *)

Tx == [kind : {"native", "token", "float", "deploy", "grant", "bind", "announce"},
       from : Key \cup {Deployer}, account : Key, safe : Safe \cup {NoSafe},
       port : 0 .. PortMax + 1, amount : Nat, run : 1 .. Runs]

TypeOK ==
  /\ run \in 0 .. Runs /\ opts \in Settings
  /\ pc \in Steps \cup {"idle", "up"} /\ id \in Ids
  /\ key \in Key \cup {NoKey} /\ safe \in Safe \cup {NoSafe}
  /\ keystore \in [Ids -> Key \cup {NoKey}]
  /\ \A i \in Ids : config[i] = NoConfig
       \/ /\ config[i].safe \in Safe /\ config[i].announce \in BOOLEAN
          /\ config[i].keys \in Key
  /\ chain.native \in [Key -> Nat] /\ chain.token \in [Key -> Nat] /\ chain.held \in [Safe -> Nat]
  /\ chain.indexed \subseteq chain.safes /\ chain.safes \subseteq Safe /\ chain.scoped \subseteq Safe
  /\ chain.bound \in [Key -> Safe \cup {NoSafe}] /\ chain.port \in [Key -> 0 .. PortMax + 1]
  /\ \A n \in DOMAIN pool : pool[n] \in Tx
  /\ awaited = NoTx \/ awaited \in Tx
  /\ paid \in [Key -> Nat] /\ lost \in [Key -> Nat]
  /\ displaced \subseteq Key
  /\ (pc = "up" /\ phase # "off") \/ (pc # "up" /\ phase \in {"off", "failed"})
  /\ MeshTypeOK

(* Whatever was paid to an account, and whatever its Safe holds, can be got at *)
(* again after a crash: its keys are in the directory before the first payment *)
(* is submitted, and no later run replaces them while the chain lives, but one *)
(* on a managed chain, which writes new ones over those of an external chain   *)
(* (identity.rs:556-558, 724-741). Frozen keys are in the program.             *)
Recoverable(k) == k[2] = 0 \/ keystore[k[1]] = k
Funds(c, txs, k) == \/ c.native[k] > 0 \/ c.token[k] > 0
                    \/ \E s \in Safe : s[1] = k /\ c.held[s] > 0
                    \/ \E n \in DOMAIN txs : txs[n].account = k
HasFunds(k) == Funds(chain, pool, k)
KeysBeforeFunds == \A k \in Key :
  /\ HasFunds(k) => Recoverable(k) \/ (opts.external /\ k \in displaced)
  /\ Funds(aside.chain, aside.pool, k) => Recoverable(k) \/ k \in displaced

(* Reruns do not pay again: an account gets one stake, and another only for a  *)
(* transaction a run gave up on (identity.rs:1058-1086). Generation is         *)
(* idempotent, cli.rs says of --frozen-identities.                             *)
PaidOnce == \A k \in Key : paid[k] <= Stake * (1 + lost[k])

(* An account whose transactions were all seen through has at most one Safe,   *)
(* so that the one a config names is all `sweep-safes` has to empty            *)
(* (identity.rs:1058-1119, sweep.rs:36-81).                                    *)
OneSafePerAccount ==
  \A k \in Key : lost[k] = 0 => \A s, t \in chain.safes : s[1] = k /\ t[1] = k => s = t

(* Generation is paid for, and its Safes are deployed, once.                   *)
ProvisionedOnce == PaidOnce /\ OneSafePerAccount

(* Before its first node starts, every Safe that is to pay PIX deposits holds  *)
(* them on top of the stake its channels are opened with (identity.rs:857-895, *)
(* 1138-1168).                                                                 *)
FloatOnTopOfStake ==
  pc = "start" /\ opts.pix.on =>
    \A i \in opts.floats \cap NodeIds : chain.held[config[i].safe] >= Stake + Float

(* A node is started as the chain knows it: with the key of its config, a Safe *)
(* bound to that key and granted, and announced under the port its peers have  *)
(* to dial, the relay's when there is one, for as long as it runs              *)
(* (identity.rs:743-807, 1170-1260).                                           *)
StartedAsProvisioned ==
  /\ TypeOK
  /\ FloatOnTopOfStake
  /\ pc = "up" => \A i \in members :
    LET k == keystore[i] IN
    /\ config[i].keys = k
    /\ lost[k] = 0 =>
         /\ chain.bound[k] = config[i].safe
         /\ opts.grant => config[i].safe \in chain.scoped
         /\ chain.port[k] = i + (IF Relayed THEN opts.relayBase ELSE opts.base)

(* Any node can be the Entry and any the Exit, and the batch is not negotiated *)
(* between them: a PIX Session between two nodes is served and paid for if the *)
(* settings allow it, and the demo's do. An Exit free to choose its batch asks *)
(* for one when that fits, whatever the ceiling, and for no other than the one *)
(* it was given when it is not (identity.rs:150-176, 278-294, 417-546).        *)
Served(set) ==
  LET quota == QuotaPerSsa(set)  window == set.quotaMin .. set.quotaMax
  IN /\ set.price * quota <= set.allocation
     /\ IF set.dynamic
        THEN \E n \in 1 .. Clamped(set.batch) : n <= Clamped(set.cap) /\ n * quota \in window
        ELSE Clamped(set.batch) <= Clamped(set.cap) /\ quota \in window

PixHalvesAgree ==
  pc = "up" /\ opts.pix.on => LET set == Merged(opts.pix.file)  quota == QuotaPerSsa(set) IN
    /\ DOMAIN opts.pix.file = {} => Served(set)
    /\ \A e, x \in members : LET batch == Asks(config[x].pix.incoming, Emitted(config[e].pix.global)) IN
         /\ Serves(config[e].pix, config[x].pix) <=> Served(set)
         /\ set.dynamic /\ quota \in set.quotaMin .. set.quotaMax => batch = {1}
         /\ ~set.dynamic => batch \subseteq {Clamped(set.batch)}

(* The relays of a running cluster can draw every delay: none is negative, no  *)
(* range is empty, for which sampling would panic in the task of the link      *)
(* (latency.rs:37-55, 204-211).                                                *)
DelaysDrawable ==
  pc = "up" => \A s, d \in members : LET delays == Sample(Resolve(opts.latency, s, d)) IN
                 delays # {} /\ delays \subseteq 0 .. LongestDelay

(* What the summary says of a node's traffic is what its relay does to every   *)
(* link that is delayed, one entry for all or one for each source              *)
(* (latency.rs:85-122, summary.rs).                                            *)
DelayedAsDescribed ==
  /\ DelaysDrawable
  /\ pc = "up" => \A d \in members :
    LET said == DescribeInbound(opts.latency, d, opts.size)
        delayed == {s \in members \ {d} : Sample(Resolve(opts.latency, s, d)) # {0}}
    IN \A s \in delayed :
         Sample(Resolve(opts.latency, s, d)) =
           Sample(IF said.kind = "one" THEN said.dist ELSE said.sources[s])
=============================================================================
