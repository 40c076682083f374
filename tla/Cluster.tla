------------------------------ MODULE Cluster ------------------------------
(***************************************************************************)
(* Runs of the hoprd-localcluster orchestrator (localcluster/src/main.rs)  *)
(* against shared directories: the two advisory locks (lock.rs), the       *)
(* control socket (control.rs), the chain container (blokli_helper.rs),    *)
(* the node directories (state.rs) and the hoprd processes                 *)
(* (client_helper.rs), from launch to exit, crash or SIGKILL.              *)
(*                                                                         *)
(* A run is named by its pid.  A data directory also names its lock file   *)
(* data.lock and the control base <dir>/data, whose lock file is the same. *)
(* What goes on inside a node, and the relays, are other modules' subject. *)
(***************************************************************************)
EXTENDS Naturals, FiniteSets

CONSTANTS
    Bases,      \* control bases other than <dir>/data
    Dirs,       \* data directories
    PortBases,  \* API base ports a run may be given
    MaxNodes,   \* MAX_NUM_NODES
    MaxRuns,    \* bound: runs ever launched
    Abrupt      \* TRUE: runs may be killed, and starting a node may fail

ASSUME ClusterConstants ==
    /\ Bases \intersect Dirs = {}
    /\ PortBases \subseteq Nat
    /\ MaxNodes \in Nat \ {0}
    /\ MaxRuns \in Nat
    /\ Abrupt \in BOOLEAN

Run      == 1 .. MaxRuns
Node     == 0 .. MaxNodes - 1
LockFile == Bases \union Dirs
None     == 0
External == MaxRuns + 1     \* the chain behind --chain-url

VARIABLES
    pc,         \* where a run is
    ctl,        \* its control base
    dir,        \* its data directory
    size,       \* its number of nodes
    base,       \* its API base port: node n is given base + n
    managed,    \* it starts the chain container itself
    holder,     \* external: the run that holds the flock of a lock file, or None
    written,    \* the pid in a lock file, or None
    refused,    \* the lock a run was refused: a lock file, or None
    told,       \* the holder's pid it named in the rejection, or None
    sock,       \* the run that bound <control-base>.sock, None when there is no file
    status,     \* summary.state
    nodeState,  \* summary.nodes[..].state
    next,       \* the node that a loop over the nodes has reached
    kids,       \* cleanup.nodes
    hasChain,   \* cleanup.chain is set
    procs,      \* external: live hoprd processes <<run, node>>
    api,        \* external: those whose REST API has its port, of the one host
    chain,      \* external: the run whose container is called hopr-chain, or None
    db,         \* the chain whose state is in db_<node>, None when there is no directory
    killed      \* runs that were killed or crashed

vars == <<pc, ctl, dir, size, base, managed, holder, written, refused, told, sock, status,
          nodeState, next, kids, hasChain, procs, api, chain, db, killed>>

args    == <<ctl, dir, size, base, managed>>
locks   == <<holder, written, refused, told>>
cleanup == <<kids, hasChain>>
summary == <<status, nodeState>>
outside == <<procs, api, chain, db>>

\* Nodes are numbered 0 .. size - 1.
LastNode(r) == size[r] - 1

NodesOf(r) == 0 .. size[r] - 1

\* The port of a process's REST API, and who answers there for a node of a run.
ApiPort(p) == base[p[1]] + p[2]

Answers(r, n) == {p \in api : ApiPort(p) = ApiPort(<<r, n>>)}

Init ==
    /\ pc = [r \in Run |-> "new"]
    /\ ctl = [r \in Run |-> None]
    /\ dir = [r \in Run |-> None]
    /\ size = [r \in Run |-> MaxNodes]
    /\ base = [r \in Run |-> 0]
    /\ managed = [r \in Run |-> TRUE]
    /\ holder = [f \in LockFile |-> None]
    /\ written = [f \in LockFile |-> None]
    /\ refused = [r \in Run |-> None]
    /\ told = [r \in Run |-> None]
    /\ sock = [f \in LockFile |-> None]
    /\ status = [r \in Run |-> "not_running"]
    /\ nodeState = [r \in Run |-> [n \in Node |-> "pending"]]
    /\ next = [r \in Run |-> 0]
    /\ kids = [r \in Run |-> {}]
    /\ hasChain = [r \in Run |-> FALSE]
    /\ procs = {}
    /\ api = {}
    /\ chain = None
    /\ db = [d \in Dirs |-> [n \in Node |-> None]]
    /\ killed = {}

Goto(r, l) == pc' = [pc EXCEPT ![r] = l]

Free(f) == holder' = [holder EXCEPT ![f] = None]

Launch(r, c, d, n, b, m) ==
    /\ pc[r] = "new"
    /\ \A q \in Run : q < r => pc[q] # "new"
    /\ ctl' = [ctl EXCEPT ![r] = c]
    /\ dir' = [dir EXCEPT ![r] = d]
    /\ size' = [size EXCEPT ![r] = n]
    /\ base' = [base EXCEPT ![r] = b]
    /\ managed' = [managed EXCEPT ![r] = m]
    /\ Goto(r, "lock control")
    /\ UNCHANGED <<locks, sock, summary, next, cleanup, outside, killed>>

-----------------------------------------------------------------------------
(* ClusterLock::acquire, for the control base and then the data directory. *)

\* flock(2) without waiting.  The loser goes on to read the file.
TryLock(r, f, won) ==
    IF holder[f] = None
    THEN holder' = [holder EXCEPT ![f] = r] /\ Goto(r, won) /\ UNCHANGED refused
    ELSE /\ refused' = [refused EXCEPT ![r] = f]
         /\ Goto(r, "read pid")
         /\ UNCHANGED holder

LockControlTruncates(r) ==
    /\ pc[r] = "lock control"
    /\ TryLock(r, ctl[r], "write control pid")
    /\ written' = [written EXCEPT ![ctl[r]] = None]
    /\ UNCHANGED <<args, told, sock, summary, next, cleanup, outside, killed>>

LockControl(r) ==
    /\ pc[r] = "lock control"
    /\ TryLock(r, ctl[r], "write control pid")
    /\ UNCHANGED <<args, written, told, sock, summary, next, cleanup, outside, killed>>

\* Truncate, then write; a failure of either is only warned about.
WriteControlPid(r) ==
    /\ pc[r] = "write control pid"
    /\ \E pid \in {r, None, written[ctl[r]]} : written' = [written EXCEPT ![ctl[r]] = pid]
    /\ Goto(r, "lock data")
    /\ UNCHANGED <<args, holder, refused, told, sock, summary, next, cleanup, outside, killed>>

LockDataNever(r) ==
    /\ pc[r] = "lock data"
    /\ Goto(r, "bind socket")
    /\ UNCHANGED <<args, locks, sock, summary, next, cleanup, outside, killed>>

\* Not taken twice when the control base is the one that data.lock belongs to.
LockData(r) ==
    /\ pc[r] = "lock data"
    /\ IF ctl[r] = dir[r]
       THEN Goto(r, "bind socket") /\ UNCHANGED <<holder, refused>>
       ELSE TryLock(r, dir[r], "write data pid")
    /\ UNCHANGED <<args, written, told, sock, summary, next, cleanup, outside, killed>>

WriteDataPid(r) ==
    /\ pc[r] = "write data pid"
    /\ \E pid \in {r, None, written[dir[r]]} : written' = [written EXCEPT ![dir[r]] = pid]
    /\ Goto(r, "bind socket")
    /\ UNCHANGED <<args, holder, refused, told, sock, summary, next, cleanup, outside, killed>>

RejectRemovesSocket(r) ==
    /\ pc[r] = "read pid"
    /\ told' = [told EXCEPT ![r] = written[refused[r]]]
    /\ sock' = [sock EXCEPT ![ctl[r]] = None]
    /\ Goto(r, IF refused[r] = ctl[r] THEN "off" ELSE "free control")
    /\ UNCHANGED <<args, holder, written, refused, summary, next, cleanup, outside, killed>>

\* The rejection names the pid in the file, and the run ends.
Reject(r) ==
    /\ pc[r] = "read pid"
    /\ told' = [told EXCEPT ![r] = written[refused[r]]]
    /\ Goto(r, IF refused[r] = ctl[r] THEN "off" ELSE "free control")
    /\ UNCHANGED <<args, holder, written, refused, sock, summary, next, cleanup, outside, killed>>

-----------------------------------------------------------------------------
(* Start-up.                                                               *)

\* ControlServer::start: any file at the path is stale and removed.
BindSocket(r) ==
    /\ pc[r] = "bind socket"
    /\ \/ /\ sock' = [sock EXCEPT ![ctl[r]] = r]
          /\ status' = [status EXCEPT ![r] = "initializing"]
          /\ Goto(r, "start chain")
       \/ /\ sock' = [sock EXCEPT ![ctl[r]] = None]     \* bind fails
          /\ Goto(r, "free data")
          /\ UNCHANGED status
    /\ UNCHANGED <<args, locks, nodeState, next, cleanup, outside, killed>>

\* ChainHandle::start removes whatever container has the name and runs its own.
StartChain(r) ==
    /\ pc[r] = "start chain"
    /\ chain' = IF managed[r] THEN r ELSE chain
    /\ hasChain' = [hasChain EXCEPT ![r] = managed[r]]
    /\ Goto(r, "clear state")
    /\ UNCHANGED <<args, locks, sock, summary, next, kids, procs, api, db, killed>>

ClearOwnNodes(r) ==
    /\ pc[r] = "clear state"
    /\ IF managed[r]
       THEN /\ db' = [db EXCEPT ![dir[r]][next[r]] = None]
            /\ IF next[r] < size[r] - 1
               THEN next' = [next EXCEPT ![r] = @ + 1] /\ UNCHANGED pc
               ELSE next' = [next EXCEPT ![r] = 0] /\ Goto(r, "generate")
       ELSE Goto(r, "generate") /\ UNCHANGED <<db, next>>
    /\ UNCHANGED <<args, locks, sock, summary, cleanup, procs, api, chain, killed>>

\* prepare_node_state: for a fresh chain every node directory goes, those of a
\* previous, larger cluster too; nothing is touched for an external chain.
ClearState(r) ==
    /\ pc[r] = "clear state"
    /\ IF managed[r]
       THEN /\ db' = [db EXCEPT ![dir[r]][next[r]] = None]
            /\ IF next[r] < MaxNodes - 1
               THEN next' = [next EXCEPT ![r] = @ + 1] /\ UNCHANGED pc
               ELSE next' = [next EXCEPT ![r] = 0] /\ Goto(r, "generate")
       ELSE Goto(r, "generate") /\ UNCHANGED <<db, next>>
    /\ UNCHANGED <<args, locks, sock, summary, cleanup, procs, api, chain, killed>>

\* The indexer is ready, identities and configurations are written, relays run.
Generate(r) ==
    /\ pc[r] = "generate"
    /\ Goto(r, "spawn")
    /\ UNCHANGED <<args, locks, sock, summary, next, cleanup, outside, killed>>

ChainOf(r) == IF managed[r] THEN r ELSE External

\* start_nodes, one node: its directory is created unless it is there, its
\* process spawned.  cleanup.nodes is assigned when the last one is.
Spawn(r) ==
    /\ pc[r] = "spawn"
    /\ LET n == next[r]
       IN  /\ procs' = procs \union {<<r, n>>}
           /\ db' = [db EXCEPT ![dir[r]][n] = IF @ = None THEN ChainOf(r) ELSE @]
    /\ IF next[r] < LastNode(r)
       THEN /\ next' = [next EXCEPT ![r] = @ + 1]
            /\ UNCHANGED <<pc, kids, summary>>
       ELSE /\ next' = [next EXCEPT ![r] = 0]
            /\ kids' = [kids EXCEPT ![r] = NodesOf(r)]
            /\ nodeState' = [nodeState EXCEPT ![r] =
                                [n \in Node |-> IF n \in NodesOf(r) THEN "spawned" ELSE @[n]]]
            /\ status' = [status EXCEPT ![r] = "starting"]
            /\ Goto(r, "started")
    /\ UNCHANGED <<args, locks, sock, hasChain, api, chain, killed>>

\* wait_nodes: whoever answers on the node's API port passes the check for it.
Passes(r, n, wait, reached, then) ==
    /\ pc[r] = wait
    /\ n \in NodesOf(r) /\ nodeState[r][n] # reached
    /\ Answers(r, n) # {}
    /\ nodeState' = [nodeState EXCEPT ![r][n] = reached]
    /\ IF \A m \in NodesOf(r) : nodeState'[r][m] = reached
       THEN Goto(r, then)
       ELSE UNCHANGED pc
    /\ UNCHANGED <<args, locks, sock, status, next, cleanup, outside, killed>>

Started(r, n) == Passes(r, n, "started", "started", "ready")

Ready(r, n) == Passes(r, n, "ready", "ready", "mesh")

\* Addresses are fetched and, unless channel management is off, channels opened.
Mesh(r) ==
    /\ pc[r] = "mesh"
    /\ \A n \in NodesOf(r) : Answers(r, n) # {}
    /\ \/ nodeState' = [nodeState EXCEPT ![r] =
                            [n \in Node |-> IF n \in NodesOf(r) THEN "channels_open" ELSE @[n]]]
       \/ UNCHANGED nodeState
    /\ status' = [status EXCEPT ![r] = "running"]
    /\ Goto(r, "running")
    /\ UNCHANGED <<args, locks, sock, next, cleanup, outside, killed>>

\* ... or fails to, the old container already removed or not.
StartChainFails(r) ==
    /\ pc[r] = "start chain"
    /\ managed[r]
    /\ chain' \in {None, chain}
    /\ status' = [status EXCEPT ![r] = "failed"]
    /\ Goto(r, "kill nodes")
    /\ UNCHANGED <<args, locks, sock, nodeState, next, cleanup, procs, api, db, killed>>

\* An error ends start-up; everything but what Cleanup knows of is forgotten.
Failed(r) ==
    /\ status' = [status EXCEPT ![r] = "failed"]
    /\ Goto(r, "kill nodes")
    /\ UNCHANGED <<args, locks, sock, nodeState, next, cleanup, outside, killed>>

Fails(r) ==
    \/ pc[r] \in {"clear state", "generate"} /\ Failed(r)
    \/ Abrupt /\ pc[r] = "spawn" /\ Failed(r)

NeverTimesOut(r) == pc[r] = "mesh" /\ Failed(r)

\* The waits for nodes and channels give up after a while.
TimesOut(r) == pc[r] \in {"started", "ready", "mesh"} /\ Failed(r)

-----------------------------------------------------------------------------
(* The end of a run.                                                       *)

\* Ctrl-C or SIGTERM, once the cluster is up.
Stop(r) ==
    /\ pc[r] = "running"
    /\ status' = [status EXCEPT ![r] = "shutting_down"]
    /\ Goto(r, "kill nodes")
    /\ UNCHANGED <<args, locks, sock, nodeState, next, cleanup, outside, killed>>

\* The processes P end, and with them their sockets.
Exit(P) ==
    /\ procs' = procs \ P
    /\ api' = api \ P

KillOneNode(r) ==
    /\ pc[r] = "kill nodes"
    /\ Exit({r} \X (kids[r] \intersect {0}))
    /\ Goto(r, "stop chain")
    /\ UNCHANGED <<args, locks, sock, summary, next, cleanup, chain, db, killed>>

KillNodesUnawaited(r) ==
    /\ pc[r] = "kill nodes"
    /\ Goto(r, "stop chain")
    /\ UNCHANGED <<args, locks, sock, summary, next, cleanup, outside, killed>>

\* Cleanup::shutdown: kill and wait for every child ...
KillNodes(r) ==
    /\ pc[r] = "kill nodes"
    /\ Exit({r} \X kids[r])
    /\ Goto(r, "stop chain")
    /\ UNCHANGED <<args, locks, sock, summary, next, cleanup, chain, db, killed>>

\* ... then `rm -f hopr-chain`, whoever's container that is by now.
StopChain(r) ==
    /\ pc[r] = "stop chain"
    /\ chain' = IF hasChain[r] THEN None ELSE chain
    /\ Goto(r, "remove socket")
    /\ UNCHANGED <<args, locks, sock, summary, next, cleanup, procs, api, db, killed>>

\* The guards drop in reverse order: control socket, data lock, control lock.
RemoveSocket(r) ==
    /\ pc[r] = "remove socket"
    /\ sock' = [sock EXCEPT ![ctl[r]] = None]
    /\ Goto(r, "free data")
    /\ UNCHANGED <<args, locks, summary, next, cleanup, outside, killed>>

FreeData(r) ==
    /\ pc[r] = "free data"
    /\ IF ctl[r] = dir[r] THEN UNCHANGED holder ELSE Free(dir[r])
    /\ Goto(r, "free control")
    /\ UNCHANGED <<args, written, refused, told, sock, summary, next, cleanup, outside, killed>>

FreeControl(r) ==
    /\ pc[r] = "free control"
    /\ Free(ctl[r])
    /\ Goto(r, "off")
    /\ UNCHANGED <<args, written, refused, told, sock, summary, next, cleanup, outside, killed>>

\* SIGKILL, a crash, or SIGTERM before there is a handler for it: the system
\* releases the locks; socket file, nodes and container stay.
Kill(r) ==
    /\ Abrupt
    /\ pc[r] \notin {"new", "off"}
    /\ holder' = [f \in LockFile |-> IF holder[f] = r THEN None ELSE holder[f]]
    /\ killed' = killed \union {r}
    /\ Goto(r, "off")
    /\ UNCHANGED <<args, written, refused, told, sock, summary, next, cleanup, outside>>

-----------------------------------------------------------------------------
(* The nodes, external to the orchestrator.                                *)

\* A node's REST API comes up, if nobody else on the host has its port.
NodeServes(r, n) ==
    /\ <<r, n>> \in procs
    /\ Answers(r, n) = {}
    /\ api' = api \union {<<r, n>>}
    /\ UNCHANGED <<pc, args, locks, sock, summary, next, cleanup, procs, chain, db, killed>>

\* A node exits: its port is taken, or it fails in another way.
NodeExits(r, n) ==
    /\ <<r, n>> \in procs
    /\ Exit({<<r, n>>})
    /\ UNCHANGED <<pc, args, locks, sock, summary, next, cleanup, chain, db, killed>>

-----------------------------------------------------------------------------
\* The steps of a run that wait for nobody.
Step(r) ==
    \/ LockControl(r) \/ WriteControlPid(r) \/ LockData(r) \/ WriteDataPid(r) \/ Reject(r)
    \/ BindSocket(r) \/ ClearState(r) \/ Spawn(r)
    \/ KillNodes(r) \/ RemoveSocket(r) \/ FreeData(r) \/ FreeControl(r)

\* Those behind calls without a timeout: commands of the container runtime, and
\* the chain's transactions and requests that identity::generate awaits.
Await(r) ==
    \/ StartChain(r) \/ StartChainFails(r) \/ Generate(r) \/ Fails(r) \/ StopChain(r)

Next ==
    \E r \in Run :
        \/ \E c \in LockFile, d \in Dirs, n \in 1 .. MaxNodes,
             b \in PortBases, m \in BOOLEAN : Launch(r, c, d, n, b, m)
        \/ Step(r) \/ Await(r)
        \/ \E n \in Node : Started(r, n) \/ Ready(r, n) \/ NodeServes(r, n) \/ NodeExits(r, n)
        \/ Mesh(r) \/ TimesOut(r) \/ Stop(r) \/ Kill(r)

Spec == Init /\ [][Next]_vars

\* A run keeps running and its waits for nodes time out; nothing is asked of the
\* chain, the container runtime, the nodes, the operator, or of fate.
Fairness == \A r \in Run : WF_vars(Step(r)) /\ WF_vars(TimesOut(r))

FairSpec == Spec /\ Fairness

-----------------------------------------------------------------------------
Labels == {"new", "lock control", "write control pid", "lock data", "write data pid", "read pid",
           "bind socket", "start chain", "clear state", "generate", "spawn", "started", "ready",
           "mesh", "running", "kill nodes", "stop chain", "remove socket", "free data",
           "free control", "off"}

\* Between the locks and their release a run owns its data directory.
Owning == Labels \ {"new", "lock control", "write control pid", "lock data", "read pid",
                    "free control", "off"}

\* While its control server runs.
Serving == Owning \ {"write data pid", "bind socket", "free data"}

\* The values the variables take.
TypeOK ==
    /\ pc \in [Run -> Labels]
    /\ \A r \in Run : pc[r] # "new" =>
         ctl[r] \in LockFile /\ dir[r] \in Dirs /\ base[r] \in PortBases
    /\ size \in [Run -> 1 .. MaxNodes]
    /\ managed \in [Run -> BOOLEAN]
    /\ holder \in [LockFile -> Run \union {None}]
    /\ written \in [LockFile -> Run \union {None}]
    /\ \A r \in Run : refused[r] \in {None, ctl[r], dir[r]}
    /\ told \in [Run -> Run \union {None}]
    /\ sock \in [LockFile -> Run \union {None}]
    /\ status \in [Run -> {"not_running", "initializing", "starting", "running",
                           "shutting_down", "failed"}]
    /\ nodeState \in [Run -> [Node -> {"pending", "spawned", "started", "ready", "channels_open"}]]
    /\ next \in [Run -> Node]
    /\ \A r \in Run : kids[r] \in {{}, NodesOf(r)}
    /\ hasChain \in [Run -> BOOLEAN]
    /\ procs \subseteq Run \X Node
    /\ api \subseteq procs
    /\ \A p, q \in api : ApiPort(p) = ApiPort(q) => p = q
    /\ chain \in Run \union {None}
    /\ db \in [Dirs -> [Node -> Run \union {None, External}]]
    /\ killed \subseteq Run

\* "A custom control base must not allow two harnesses to share node state": no
\* two runs own a data directory at once, whatever control bases they were given.
OneRunPerDir ==
    \A r, s \in Run : pc[r] \in Owning /\ pc[s] \in Owning /\ dir[r] = dir[s] => r = s

\* "its pid contents are only ever read while the lock is held (by a live holder)":
\* a pid file changes only under the lock, to its holder's pid or to nothing.  A
\* run that is refused, rejected or leaving never touches what the holder wrote.
PidIsHolders ==
    [][\A f \in LockFile : written'[f] # written[f] =>
         holder[f] # None /\ written'[f] \in {holder[f], None}]_vars

\* A status query always reaches the live run: while its server runs, the socket
\* file of its control base is its own - no other run removes or replaces it.
StatusIsLive == \A r \in Run : pc[r] \in Serving => sock[ctl[r]] = r

\* "Node state belongs to the lifetime of the chain localcluster starts": once a
\* managed run has cleared its directory, no node directory there - of its own
\* nodes or of a larger cluster before it - holds the state of another chain.
StateOfThisChain ==
    \A r \in Run : managed[r] /\ pc[r] \in {"spawn", "started", "ready", "mesh", "running"} =>
        \A n \in Node : db[dir[r]][n] \in {None, r}

\* A run that brought all its nodes up, or at least its chain, and was not killed
\* takes its nodes and its container with it - however start-up ended.
CleanExit ==
    /\ TypeOK
    /\ \A r \in Run : pc[r] = "off" /\ r \notin killed =>
         /\ kids[r] # {} => procs \intersect ({r} \X Node) = {}
         /\ chain # r

\* "Passed /startedz": the answer a run takes for its node's is its node's, or that
\* of a cluster given some of the same ports that is up, was killed, or never knew
\* its nodes.  One that was stopped or failed later leaves nobody to answer.
AnswersAreOurs ==
    [][\A r \in Run, n \in Node :
         nodeState'[r][n] # nodeState[r][n] /\ nodeState'[r][n] \in {"started", "ready"}
         => \A p \in Answers(r, n) :
              \/ p = <<r, n>>
              \/ /\ p[1] # r
                 /\ pc[p[1]] # "off" \/ p[1] \in killed \/ kids[p[1]] = {}]_vars

\* Start-up ends, in a running cluster or in the end of the run, unless a call
\* without a timeout hangs for good.
Settles ==
    \A r \in Run : (pc[r] # "new") ~>
        \/ pc[r] \in {"running", "off"}
        \/ [](pc[r] \in {"start chain", "generate", "stop chain"})

\* "the orchestrator kills all hoprd processes and removes the chain container on
\* exit".
KillsAllOnExit ==
    \A r \in Run : pc[r] = "off" /\ r \notin killed => procs \intersect ({r} \X Node) = {}
=============================================================================
