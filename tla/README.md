# Specifications of hoprd

TLA+ models of this repository's own logic: the latency relays of the local
cluster, the registry of Session listeners behind the REST API, the cluster
orchestrator, the provisioning of a cluster's identities and channels, the hoprd
daemon with its configuration, and the handlers of its REST API. TLC checks them
on small instances; TLAPS proves their safety properties for every size.

    cd tla
    tlc -workers 2 -config RelayFlowJitter.cfg RelayFlow   # any run of section 4
    tlapm RelayFlowProofs.tla                              # any module of section 6

The source paths below are relative to the repository.

## 1. Inventory

| Part | Source | State it keeps | Operations | What is hard |
|---|---|---|---|---|
| Relay, directed flow | `localcluster/src/relay.rs` (`sender_worker`, `stall_delay`), `latency.rs` (`sample`) | bounded channel, release heap, tie-breaker, the worker's reading of the clock | `try_send`, drain of due entries, awaited send, `select` of receive and timer, cancellation | order under jitter and stalls; two buffers with a cap each; a clock read before awaits and used after |
| Relay, sessions | `relay.rs` (`run_relay`, `new_upstream`, `watch_blocked_links`) | session table by peer with `last_seen`; per session three tasks and a shared upstream socket; the cut links | receive, create, evict, enqueue, forward, return, cut, abort | eviction and abort while tasks are between awaits; one socket's error seen by either of two tasks |
| Session listeners | `rest-api/src/session.rs` (`create_client*`, `close_client`) | `open_listeners`, a concurrent map shared by all handlers; the listeners' sockets, accept loops and client sessions | POST, DELETE of one port or of all ports, client connects and disconnects | check, bind and insert are separate steps; so are match, remove, close and abort |
| Cluster orchestrator | `localcluster/src/main.rs`, `lock.rs`, `control.rs`, `state.rs`, `blokli_helper.rs`, `client_helper.rs` (`start_nodes`), `summary.rs` | two lock files, control socket, chain container, node directories, child processes, live summary | acquire, serve, start chain, clear, generate, spawn, wait, stop, shut down | several runs on shared directories; runs that are killed; start-up that fails half-way; leftovers |
| Identity generation, sweep, grant | `localcluster/src/identity.rs`, `sweep.rs`, `curvy_grant.rs` | key stores and node configs; accounts, Safes, bindings and announcements on the chain | a dozen steps for each identity, each with a transaction awaited; a rerun on the same directory | runs that end between paying and using; transactions mined after their run has gone; an index that lags |
| Channel mesh | `client_helper.rs` (`open_full_mesh_channels`, `wait_full_mesh_*`) | the pairs still missing, a deadline | passes over all pairs of nodes: list, open, list again, ping | calls cut off by the client that the node goes on with; one listing that fails ends everything |
| Latency model, PIX settings | `latency.rs`, `identity.rs` (`pix_*`) | none | parse, resolve, sample, describe; what Entry and Exit are configured with | precedence, boundaries; two readers of one setting |
| Daemon | `hoprd/src/main.rs`, `lib.rs`, `telemetry.rs` | the list of abortable processes, clones of the node's `Arc`, signal handlers, telemetry providers | a dozen steps of start-up, each of which may fail; signals; teardown | order of start and stop, errors of a part, signals at any time, connections nobody aborts |
| Configuration, strategies | `hoprd/src/config.rs`, `cli.rs`, `strategy.rs`, `rest-api/src/config.rs` | one value, built once | parse, combine, resolve, validate, hoist, override from the environment, redact, build | what is validated is replaced later; two walks of one tree; overlapping shapes of a section |
| REST API, other handlers | `rest-api/src/{channels,tickets,peers,network,node,account,checks,root}.rs`, `session.rs` (settings) | none of its own; the node's, which moves meanwhile | one to five awaited calls each; transactions sent, mined, confirmed | reads of different moments in one answer; a look-up that is stale when used; lost confirmations |
| Router and authentication | `rest-api/src/lib.rs`, `middleware/` | per request | layers around routes | which routes stand behind which layer |
| Generated client, packaging, scripts | `rest-api-client/`, `deploy/`, `scripts/` | - | - | not modelled |

How they interact. The orchestrator starts the chain container, provisions an
identity for each node (keys, funds, Safe, binding, announcement, config file),
starts one relay per node when a latency model is given and one `hoprd` process
per node, polls the nodes' REST APIs and has them open a full mesh of channels.
A relay sits between a node's announced and its real P2P port and never talks to
the orchestrator after `spawn_relay`, except that it is aborted at shutdown and
that all relays read the link tables their watchers maintain. Inside `hoprd`, one
thread builds the configuration, connects to the chain, builds the node, and
starts the REST API and the strategies as tasks that share it; a connection to
the API is a task of its own. The Session listeners a request creates live on in
the library's accept loops, tied to the API by `open_listeners`.

What makes each part correct, in one sentence each:

- a flow delays, may lose, never duplicates, delivers nothing early, and
  reorders only as far as jitter and stalls allow;
- a relay shows the node one stable source per peer, keeps the session table
  bounded, detaches no task, and lets nothing new over a cut link;
- what is listed is live, what was closed is closed, and no bound socket is out
  of reach of the API;
- one run per data directory, status always from the live run, node state that
  belongs to the chain of the run, an orderly end;
- funds are paid once and can be got at after any crash, nodes start as the chain
  knows them, and a mesh that is reported is there;
- a node runs with settings that are valid wherever they came from, and a process
  lets go of node, tasks and telemetry in order however it ends;
- an answer of the API was true at some time of its request, and what it says of a
  Session's settings may be sent back.

The hazards, line by line, with the properties that address them, are in
`PROJECT.json` under `hazards`.

## 2. Plan

Written, in this order: `DelayLink` and `RelayFlow` with proofs and refinement,
`Relay`, `SessionRegistry`, `Cluster` with proofs; `NodeConfig`, `Strategies`,
`Telemetry` and on them `Daemon`; `SessionSettings` and on it `NodeApi`; `Mesh`,
`Latency`, `PixSettings` and on them `Provision`; then the proofs, one module for
each module that has actions (`RegistryProofs` for `SessionRegistry`, `ProvisionProofs`
for `Provision` and `Mesh`), and `RelayFlowRefinement`.

Left, most important first:

1. Composition: `Relay` with a `RelayFlow` on each leg, as a refinement in which the
   counters of a leg are the datagrams of a flow; `Provision` as what the steps
   `Generate` and `Mesh` of `Cluster` do.
2. Proofs: the simulation steps of 1., from the invariants of the parts.
3. The statistics of requests the router keeps, and the documents it generates.

## 3. The modules

`Strategies` and `Telemetry` (which extends `NodeConfig`) are extended by
`Daemon`; `SessionSettings` by `NodeApi`; `Mesh`, `Latency` and `PixSettings` by
`Provision`. The modules called MC... give the constants of TLC's instances that
do not fit in a configuration file, and symmetry where it is sound. Operators in
the middle of a module that are called a plausible bug or a mutant, or that
precede the definition whose name theirs begins with, are the altered forms of that
definition which show that a property can fail; no action uses them.

### RelayFlow - one directed flow

The unit of interleaving is what runs between two await points. `TrySend` is the
producer's whole `try_send((Instant::now() + held, datagram))`; its parameter is
what `stall_delay` returned, nothing or the hold. `StartPass` reads the clock at
the top of the loop; `Pop` takes one due entry and starts the awaited send, which
`SendOk` or `SendErr` ends while time may have passed; `EndPass` enters the
`select`, which `Recv`, `RecvClosed` or `Timer` wins. `Recv` includes the cap, the
sampled delay and the overflow check of `checked_add` (`Push`). `Cancel` is the
drop of the session's `JoinSet`, possible at the two await points. `CloseTx` is
the end of the only sender while the worker lives. Time is discrete, one `Tick`
at a time; a datagram is its number; `at` is the time it was offered. `sent`
records what was handed to the network and when.

`DelayLink` is the promise in the relay's header, stated without channel, heap or
task: `Offer`, `Deliver` (not early; past no datagram older by the window or
more), `Lose`, `Tick`. `RelayFlow` implements it with `transit` read from channel,
heap and outbox, and `delivered` from `sent`.

### Relay - the sessions of one relay

One loop and three tasks per session. `Receive`, `ReceiveNew` and `ReceiveNewFails`
are the loop up to the block check (look-up, eviction, `new_upstream` with its three
tasks, or its failure after the eviction), `Enqueue` is the `try_send` behind it with
its three outcomes; `hand` is the datagram in between, during which another thread may
change the link table. `recency` orders the table by `last_seen`. `Drop` marks
sessions whose `JoinSet` is dropped; their tasks are aborted one by one and each runs
on until its own `Cancel`. `ForwardSend`, `ReaderRecv`, `ReaderEnqueue`, `ReaderErr`,
`ReturnSend` and `ReturnEnds` are the tasks. `sockErr` is the error a connected UDP
socket reports once to whichever of its users asks first: set when a datagram is sent
to a port nobody has, taken by the forward worker (which only warns) or by the reader
(which returns).

Abstractions: a leg is the number of datagrams on it, at most `LegCap`, since the
order on it is `RelayFlow`'s subject; a session's number stands for its upstream
socket and its ephemeral port, and such ports are not used twice; a node answers
only sources it has heard from.

### SessionRegistry - the Session listeners

Every request (`Posts`, `Deletes`) is a handler with a program counter; they arrive
in the order of their numbers, which leaves out nothing but names, and overlap as
they like. `Create`, `Bind`, `Register`
are POST, `Close`, `Match`, `Matched`, `Remove`, `CloseSessions`, `Abort` are
DELETE. `Match` visits the keys of the concurrent map one at a time, because its
iteration is no snapshot. Binding, registering and serving a listener are in a
library outside this repository: those actions are derived from how the handlers
use it (it is handed `open_listeners`, it answers with the bound address or
`ListenHostAlreadyUsed`, a listener has an abort handle) and marked external.
Sockets are exclusive; `Abandon` covers a failed session set-up and a handler
dropped because its HTTP client hung up.

### Cluster - runs of the orchestrator

Any number of runs, each with a control base, a data directory, a size and a managed
or external chain. Locks, socket files, the container name, API ports and node
directories are shared state, so that what a run leaves behind or takes away is seen
by others. API ports are those of the one host, whatever the directory: node `n` of a
run is given `base + n` (`ApiPort`), and whichever process has bound that port, of
this cluster or another, answers the run's probes (`Answers`). `db` says whose chain's
state a node directory holds. Locking and writing the pid are separate steps, clearing
goes directory by directory, spawning node by node, because another run or a kill can
come in between. `Kill` is SIGKILL, a crash, or a signal before the program has a
handler for it; `Abrupt` enables it and failing spawns. Nodes are external: they bind
their port when it is free, and exit at any time. Directories are deleted only by
`prepare_node_state`; nodes write no directory that was deleted under them. `Step` is
what a run does by itself or after a wait that times out; `Await` are the commands of
the container runtime and `identity::generate`, which wait without a timeout. What the
steps `Generate` and `Mesh` do inside is the subject of the next module.

### Provision, Mesh, Latency, PixSettings - what a bring-up pays for and promises

`Provision` is `identity::generate` for one identity after the other, one action
for each step that ends in an awaited transaction or a file, over several runs on
one directory. A run may `End` at any point, by an error, a time-out or a kill.
Runs are on the external chain or on a managed one of their own: `Begin` connects to
a new chain or to the external one as it was left (`Connect`, `aside`), so a managed
run between two external ones finds, and replaces, the keys of accounts that still
have funds there (`displaced` is the history of it).
The chain is external: `pool` holds submitted transactions, mined in the order of
their sender's nonces (`Land`), forgotten (`Forget`), or mined after the run that
waited for them has ended; a Safe shows up in the index some time after it was
deployed (`Index`). `NodeKeys` and `ExtraKeys` are the key stores, `NativeTopUp`
and `TokenTopUp` the funding against balances, `FindSafe`, `DeploySafe` and
`AwaitIndexed` the Safe, `ScopeAggregator` the Curvy grant, `FloatTopUp` the PIX
float, `RegisterSafe` and `Announce` the registrations, `NodeConfig` and
`StoreExtra` the files, `Sweep` the sweep tool on what earlier runs kept. `paid`
and `lost` are history: what an account was sent, and the transactions of it a
run gave up on.

`Mesh` is the last stage: passes over all ordered pairs of nodes in three phases,
with a deadline that is looked at at the end of a pass. A call the client cuts off
goes on in the node (`OpenErr`, then `Mined` or `GivenUp`); `ListErr` is the two
early returns. `Latency` has the operators from a delay expression to the range of
delays a link draws from, and what the summary condenses it to; `PixSettings`
those from the settings file to the node's configuration, and what an Entry and an
Exit make of theirs: an Entry emits SSAs by its global section and pays them by its
strategy stanza, an Exit asks for a batch by its incoming section, fixed or raised to
its least quota (`allow_dynamic_ssa_batches`), and accepts a range of quotas.

Assumed: the nodes of a run that was killed are stopped before the directory is
used again (`Cluster` has what happens when they are not).

### Daemon, NodeConfig, Strategies, Telemetry - one hoprd process

`Daemon` is `main` and `main_inner` as one thread with a program counter: each
step that may return with `?` is an action that goes on or fails, and from a
failure the locals are dropped in reverse order (`Unwind`, `FlushTelemetry`,
`ShutdownRuntime`). Beside it run the tasks (`listeners`, `api`, `strategies`,
`stats`, and one connection, `conn`, that stands for all). `holders` are the
clones of the node's `Arc`; `procs` is the list that aborts on drop. Signals are
raised at any time; before `RegisterSignals` they have the system's default
action, afterwards `OnTerm` leads through `DropNode` and `DropProcesses` to
`EmulateDefault`, which ends the process where it stands.

What a process is started with is a record of file, command line and environment
(`boot`), and `LoadConfig` applies the operators of `NodeConfig`: the parsers of
options, how they override the file (`Effective`), what validation refuses (`Valid`),
what the library is given (`LibraryConfig`), what the environment replaces afterwards
(`EnvOverrides`), what is shown (`AsRedacted`). Values are abstract: a token is its
length and quoting, a host its form and port. The name of a metric is the sequence of
its words, as is a prefix, so that `StartsWith` is about whole words; prefixes that
end inside one are left out. Settings that are only copied stand for one another
(`HoistedDials`, `safe` and `module`); `identity` stands for its file and `db.data`
alike, whose paths are expanded the same way. `Strategies` has the two walks over the
tree of stanzas, the one that validates and the one that builds; `Telemetry` the
providers an environment yields.

### NodeApi, SessionSettings - the REST API

Requests are tasks; each has an operation, a program counter and what it has read
so far. A handler's actions end at its awaits and between two reads of the node.
The node (channels, currencies, status, peers, one client Session's settings) is
external and moves by itself. A transaction is `Mine`d between being sent and
being confirmed; its confirmation may be lost (`Confirm`), it may be refused
(`Refuse`), and a client may leave at any time, with the transaction mined or not
(`Disconnect`). `ever` and `steady` record which facts held at some time, and at
all times, since the request came; they serve the properties alone. `Protected` is
which routes stand behind the layer that checks the token. `SessionSettings` has
the conversions between bytes or bits and SURBs in both directions, with `ByteSize`'s
text of one decimal in between (`Displayed`).

A behaviour is confined to one of several `Scenes`: which operations are asked
for, how many at once, and which part of the node moves. Requests for Session
listeners are in `SessionRegistry`.

## 4. The runs

| Run | Question | Bounds |
|---|---|---|
| `RelayFlowJitter` | early, bounded, ordered within the window, implements `DelayLink`, everything leaves (liveness) | cap 2, delay 1..2, stall 1, 3 datagrams, time 6: the channel and the heap both fill, an overtaking inside the window happens, one outside would fit |
| `RelayEvict` | table bounded, no task detached, forward worker lives | 2 peers, table of 1, 2 sessions, legs of 2, node bound at any time: a session is evicted while its tasks run, for a session of another peer or for one that fails, after which its own peer returns; 171,000 states |
| `RelayStable` | stable source, a cut link only drains, every reply is picked up (liveness) | 2 peers, table of 2, one link of two cuttable, legs of 2, node bound first; 144,000 states |
| `RelayLateNode` | *violation*: every reply is picked up, when the node binds late | 1 peer, 1 session |
| `RegistrySafety` | listed is live, 204 means closed, no orphaned socket (liveness) | 2 POSTs, 2 DELETEs, 2 ports, 2 listeners, 1 client: a key is closed by one DELETE and taken anew by the second POST under the other; 289,000 states |
| `RegistryPortZero` | *violation*: port 0 closes all | 2 POSTs, 2 DELETEs, 2 ports |
| `ClusterGraceful` | state of the chain, clean exit, answers, for clusters of several nodes | 2 runs, 1 directory, 2 nodes, API bases 0 and 1 (so that ports of two clusters overlap), no kills; 538,000 states |
| `ClusterSettles` | ownership, status, pid files, answers, start-up ends (liveness), with kills and failing spawns | 2 runs, 2 control bases, 1 directory, 1 node; 815,000 states |
| `ClusterSpawn` | *violation*: everything killed on exit | 1 run, 2 nodes |
| `Provision` | funds recoverable, paid once, started as provisioned, mesh open, delays as described, PIX halves agree, bring-up returns (liveness) | 2 runs, 1 to 3 nodes, 1 extra identity, seven settings with three PIX files (a fixed batch above the Entry's cap, one at it, one the Exit has to raise), external and managed chains, delays up to 4, ports up to 5; 218,000 states |
| `Daemon` | valid settings, no unreachable strategy, metrics served, orderly exits and teardown, termination (liveness) | 91 combinations of file, command line and environment, one group of settings varied at a time; three metrics and five prefixes, those of Sessions among them; 110,000 states |
| `NodeApi` | authorised only, answers true, settings read back | eleven scenes of one or two requests, with and without tokens, 1 peer, both directions, payloads of 1452 bytes, SURBs of 3200 bits; 388,000 states |

Deadlock is not checked: a relay whose datagrams are used up, a node without
requests, a process that has exited and a cluster whose runs have ended may all stop.

Type invariants are part of a module's first state invariant (`TableBounded`,
`ListedIsLive`, `CleanExit`, `EffectiveSettings`, `SettingsReadBack`,
`StartedAsProvisioned`), except `RelayFlow`'s, which is checked by itself.

Why the bounds are enough. Every safety property of the passing runs is also proved,
for every value of the constants (section 6): for those the runs show that the proofs
speak of something that happens, and the mutants of the actions that it could have
been otherwise. Liveness rests on the runs alone. For `Relay` the interesting events
involve one session and the one that replaces it; for `SessionRegistry` a POST, two
DELETEs of its key and a POST that takes it anew between them, one request more than
the longest story told of it. In `Provision` two runs are one that leaves something
behind and one that meets it; what a third meets is no different, since runs leave
nothing but files, balances and transactions. Only one story needs three runs, an
external chain, a managed one and the external one again: its first two are in the
run, where the funds set aside are looked at too, and the proof is for any number.
Port base 5 of at most 5 makes the check on ports fail for the second node. In
`Daemon`, settings meet only in the few operators whose groups are varied together;
`PixBuilt` is FALSE because the claim about Pix stanzas is about such a binary. In
`NodeApi` what disturbs a request is one other request on the same channel or the node
itself; scenes combine each operation with what it reads.

### What the violations show

- `RelayLateNode`: the first datagram to a node that is not up yet ends the
  return direction of that session for good, while the forward direction goes on.
- `RegistryPortZero`: a DELETE of all ports stops at the first entry that another
  DELETE has removed since it was matched.
- `ClusterSpawn`: nodes spawned before a failing spawn are not killed.

### Further disagreements

Met while modelling, without a run of their own.

Local cluster:

- the comment of `RELAY_QUEUE_CAP` (`relay.rs:48`) counts channel and heap
  together; the code caps each, so a flow may hold twice as much
  (`BuffersBounded` states what holds);
- `lock.rs:33-34` says a pid is only ever read while its holder lives; between a
  run's `flock` and its write (`lock.rs:94-100`) a run it turns away reads the pid
  of the holder before (`PidIsHolders` states what holds);
- `summary.rs:45` says of a node that it passed `/startedz`; API ports are of the host
  and 3000 by default, so the one that passed may be a node of another cluster, or of
  a killed run (`main.rs:404-430`; `AnswersAreOurs` says whose it may be: a stopped
  cluster's it is not);
- `identity.rs:556-558` says that keys are kept for what an external chain holds; a run
  on a managed chain in the same directory writes new ones over them
  (`identity.rs:724-741`; `KeysBeforeFunds` excepts keys displaced like this);
- `docs/localcluster/README.md:291` says the guarantee is keyed on the control
  base only; the lock on the data directory (`main.rs:132-139`) gives more
  (`OneRunPerDir`);
- the help of `--size` says 1-5, `MAX_NUM_NODES` is 10;
- when a Safe shows up in the index after the 120 s of its run, the next run
  deploys another, and `AlreadyRegistered` is then taken for success though the
  binding names the first; `ProvisionedOnce` and `StartedAsProvisioned` except
  accounts of which a transaction was given up on;
- `describe_inbound` says a delay is everybody's when the sources that have one
  agree, also if others have none.

Daemon and configuration:

- `--apiHost` sets the API port back to 3001, whatever the file says;
- a file without `blokli_url` is refused even when `--blokliUrl` is given;
- a winning probability outside 0..100 per cent is dropped without a word;
- a legacy mixer section that is not complete is filled with compiled-in defaults;
- the environment's concurrencies are assigned also when they are not set, so
  that they reset what the library was given;
- help text of `--disableApiAuthentication` (`cli.rs:216`) says it overrides any
  token; the token is set after it (`cli.rs:389-394`);
- the comment at `strategy.rs:437` says a stanza that cannot be honoured stops the
  node rather than being dropped silently; groups below the second level are
  validated, and dropped with a line in the log;
- on a signal telemetry is never flushed (`lib.rs:251`); "All processes stopped"
  is logged before the aborted tasks have ended (`lib.rs:250`); a connection
  may outlive the teardown and open a listener after it;
- a REST API or strategy task that fails is logged, and the daemon goes on without;

REST API:

- `session.rs:957-958` asks for a buffer of at least two packets; the smallest one,
  2904 bytes, is shown as `2.8 KiB`, which is 2867 bytes, and refused when posted back
  (`SettingsReadBack` excepts it);
- the metrics of requests replace identifiers by a regular expression
  (`middleware/prometheus.rs:29`) whose 40-digit alternative comes before the
  64-digit one, so that of a channel id only the first 40 digits are replaced;
- `channels.rs:309` documents 409 for a channel that exists; the answer is 422;
  403, 409 and 412 are documented for requests that never return them;
- `/eligiblez` always answers 200;
- a client that connects between the collection of the sessions and the abort in
  `close_client` (`session.rs:1231-1241`) keeps its session after the 204
  (`OkMeansClosed` speaks of the sessions there were when the entry was matched).

## 5. Fairness

- `RelayFlow`: weak fairness of the worker's steps together (the runtime polls a
  ready task) and of `Tick`. None of the producer or of cancellation.
- `Relay`: weak fairness of each task's steps and of the cancellation of each
  aborted task; none of peers, node, link table or loop.
- `SessionRegistry`: weak fairness of each handler, once it runs, and of the end
  of an aborted accept loop; nobody owes the node a request.
- `Cluster`: weak fairness of a run's own steps and of the timeouts of its waits for
  nodes (`DEFAULT_WAIT_TIMEOUT`); none of the commands of the container runtime and of
  `identity::generate`, which have no timeout (`Settles` excepts a run that hangs
  there for good), nor of nodes, operator or kills.
- `Provision`: weak fairness of the mesh's passes and of the answers to its calls
  (each call has a timeout of 30 s) and of the clock; none of chain or nodes.
- `Daemon`: weak fairness of the main thread, of the delivery of a signal to its
  handler and of its default action, and of an aborted task's last poll; none of
  connections, failures or whoever sends signals.
- `NodeApi` checks safety only.

## 6. What is proved

All proofs are for arbitrary constants that satisfy the named assumptions of the
modules (`RelayFlowConstants`: positive cap, natural delays with `MinDelay <=
MaxDelay`; `RelayConstants`: finitely many peers, positive `MAX_SESSIONS` and leg
capacity; `RegistryConstants`: some host, ports other than 0, every request has a
number and is a POST or a DELETE; `ClusterConstants`: at least one node, API bases are
numbers, control bases other than `<data-dir>/data` are other files; `MetricsNamed`: a
metric has a name of strings; `PixNumbers`: PIX settings are numbers and switches;
`AbsentIsNoValue`, `NothingIsNoNumber`: an option that is not given is no value;
`BootsRead`: ports and capacities in files and options are read as numbers;
`AmountsPositive`, `ProvisionNumbers`, `SettingsAreSettings`, `DelaysInRange`: amounts
are positive, settings have their types, no delay is longer than the longest;
`ScenesAreWellFormed`, `UnitsArePositive`: requests carry what their handlers parse).
TLC evaluates all of them in the runs.

`RelayFlowProofs` (`TypeCorrect`, `BuffersAlwaysBounded`, `NeverReleasedEarly`,
`BoundedReordering`, `FixedDelayIsFifo`). `TypeOK` and `BuffersBounded` are
inductive by themselves, the latter with the finiteness of the heap. `NeverEarly`
and `ReorderOnlyInWindow` are not: that a datagram leaves late enough depends on
when its entry was released, and that on when it was offered. The invariant `IInv`
therefore says what the worker knows of each place a datagram can be in: channel
(in order of arrival, stamped between offer and offer plus stall), heap (release
between offer plus `MinDelay` and offer plus `MaxDelay` plus stall), outbox (due
at the clock reading of the pass, before everything in the heap), and `sent`
against all of these: whatever has left and whatever is still there are at most a
window out of order. `FixedDelayIsFifo` follows from the same invariant with a
window of zero, by the tie-breaker.

`RelayFlowRefinement` (`FlowImplementsLink`). Each action is mapped to `Offer`,
`Deliver`, `Lose`, `Tick` or a stutter, under `IInv`.

`ClusterProofs` (`DirHasOneOwner`, `QueriesReachLiveRun`, `NodesKnowOneChain`,
`PidFilesAreHolders`, `ExitsAreClean`, `OwnNodesAnswer`). The invariant is the
type of the variables involved, `Locks` (which of its two locks a run has at each
step, the rejected run that still has its control lock included), `StatusIsLive`,
and `Fresh` (how far the clearing loop is, and what is clear before it).
`OneRunPerDir` follows from `Locks`: owning a directory means holding its lock.
`StatusIsLive` and `StateOfThisChain` need it as well: whoever writes a socket
file or a node directory holds the lock that excludes the others. `PidIsHolders`
needs besides that a step which writes a pid file is a step of a run that has the
lock. Steps that change none of this are put together first (`Steps`, `Quiet`), so
that each part of the invariant has one case per action that matters.

The last two need a second invariant, `Tidy`, on top of the first: what a run has
at each step, by the label it is at. Before `spawn` it has no processes; while it
has some they are its own nodes', all of them in `cleanup.nodes` once it is past
`spawn`; what it has left it has killed; the container is in its name only while
it has one; and whoever answers on a port is a live process on that directory.
`Abrupt` takes from this what it takes from the code: a run whose spawning failed
has processes its cleanup does not know. `OwnNodesAnswer` is for kills and failed
spawns alike: the nodes of one run have different ports of the host, so a process
that answers in a node's place is of another run, whose API base made the ports
meet; and a run that is off, was not killed and knew its nodes has none.

`RegistryProofs` (`ListedListenersAreLive`, `NoContentMeansClosed`). Nothing is
locked between two steps of a handler, so the invariant follows each listener
instead: until it is registered one POST has it, and no one else (`Hands`); while
it is registered it holds the socket of its key (`Live`), which no other can be
bound to (`Exclusive`); once it is removed a DELETE has it that has not aborted it
yet. A socket is let go only when its listener was aborted. Hence what a DELETE
has matched is still under a key it has to visit, with the same socket; or in its
hands; or aborted by whoever took it away (`MatchedGoing`) - and sessions it saw
there are closed or can still be reached by it (`EarlyGoing`). `TypeOK` is not
inductive without `Hands`.

`RelayProofs` (`TableStaysBounded`, `NoWorkerIsDetached`, `ForwardWorkersLive`,
`SourcesAreStable`, `CutLinksDrain`). The table and its order are two pieces of
state that every operation has to change alike: `Ordered` says that `recency` has
the peers of the table, each once (`IsOrder`), with lemmas for an append, the
removal of the oldest and of any peer. `Owned` says that a session in the table is
its peer's, was not dropped, and has its forward worker; the detached-worker
property is inductive only with it, since eviction drops the session the table
names. The lemma `Eviction` is what `Victims` and `Kept` do together.
`StableSource` is a matter of counting: a table that is full with a peer still
missing has fewer places than there are peers. `CutLinkDrains` counts as well,
over the legs of all sessions a peer ever had: a step takes datagrams away
(`Drains`), or moves one from the loop's hands or the reader's to a leg, which
grows by one at most (`OneMoreCell`). That a new session has empty legs is an
invariant of its own (`Unused`).

`DaemonProofs` (`ExitsAreOrderly`, `SignalsTearDown`, `PixIsRefused`,
`MetricsServed`, `SettingsAreEffective`). The invariant follows `main` down: until
it has a configuration there is nothing (`NothingYet`), afterwards the
configuration is the effective one and valid (`Configured`); what has been let go
of by each label on the way out, and that a live task is listed among the
processes or belongs to a process that has exited (`Teardown`); and that the
providers are those of the environment, all or none (`Exporting`); `MetricsServed`
adds that every instrument, whatever its name, is given to a provider that `/metrics`
reads, or to none that shows it when it is a Session's. `OrderlyExit`
is part of it: a process exits from its early returns, from the end of `main` and
on signals, having let go of different things each time. Of the strategy tree the
proof needs only that `ValidSection` looks at every stanza that can be built.

`ProvisionProofs` (`KeysSaved`, `PaidForOnce`, `NodesAsProvisioned`,
`PixOnBothEnds`, `FullMesh`, `RelaysAsDescribed`). Runs leave transactions behind
that are mined later, or never, so the invariant accounts for each: what is in the
pool is awaited by the run under way, at the step its kind belongs to, or was
given up on and counted as `lost` for its account (`Traced`). `ProvisionedOnce` is
then a balance (`Balanced`): what an account was sent, with the stakes that
deployments given up on may still move, is at most its stakes lost, its tokens,
what is coming, and the stake of a Safe that reruns will find. An account without
losses has one Safe, deployed or on its way (`OneSafe`). `KeysBeforeFunds` needs
the order of the loop (`Funded`), also for the external chain while a run on a
managed one goes on (`Resting`); `StartedAsProvisioned` needs that what the steps
before have done stays done (`UnderWay`, `Started`), `MeshOkMeansOpen` that a pair
no pass has to look at again has its channel (`MeshSound`). `PixOnBothEnds` is about
every settings file: what the two ends make of their configurations is what the file
says of the price, the quota and the batch, fixed or free.

`NodeApiProofs` (`TokenGuards`, `ChannelsAsTold`, `HealthAsTold`,
`SettingsSurviveReading`). The invariant is about each
request by itself, `Sound`: what it has recorded frames the present (`Framed`:
`steady`, then the facts of now, then `ever`); what it has found so far, at each
await, it found at some time while it ran (`SoFar`); and an answer once given is
one it earned (`Earned`). A step of others only moves the frame (`Seen`), which
what is `SoFar` and `Earned` survives since `ever` grows and `steady` shrinks;
only a request's own step has to be looked at. `SettingsReadBack` needs the
invariant that a session holds at least two SURBs, and a lemma on `Displayed`: the
rounded text is off by less than a twentieth and a byte, whatever the unit, which from
three SURBs on is not enough to fall below the smallest buffer that is accepted.

Only model-checked: liveness (`EventuallyLeaves`, `RepliesPickedUp`,
`NoOrphanSocket`, `Settles`, `MeshReturns`, `TermEnds`). The prover has neither
fairness nor ENABLED, and no induction over data. The latter would be needed for
what `Latency`, `NodeConfig` and `Strategies` compute from expressions and trees
of any size; the proofs use their definitions as they stand, and what these return
is checked on the inputs of the runs.

## 7. What is not modelled

`PROJECT.json`, `components`, has every part with its reason. In short:

- the node itself, its chain connector, the binding and session library: they are
  dependencies, and appear as external actions, derived from how this code uses them;
- the generated REST client, packaging, deployment and scripts;
- of the router, the API documents, CORS, compression, static routes and the
  metrics of requests; of the API, formats and wording of requests and answers, and
  handlers that read one value and return it;
- the `hoprd-cfg` tool, which prints a default configuration, and the override of
  the indexer's name resolution for tests;
- key material, password and key-file formats: a key store is there, readable with
  the password, or not;
- logging, bytes and wording.
