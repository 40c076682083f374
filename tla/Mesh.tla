-------------------------------- MODULE Mesh --------------------------------
(* The last stage of a bring-up: a full mesh of channels between the nodes of  *)
(* a cluster (localcluster/src/client_helper.rs), asked for over their REST    *)
(* APIs one after the other, or left to the nodes' own strategy and awaited.   *)
(* A call is cut off by the client after 30 s, the node goes on with it: a     *)
(* channel whose call failed may open later.                                   *)
EXTENDS Naturals, FiniteSets

CONSTANT MaxNodes           \* nodes of a cluster, identity::MAX_NUM_NODES

ASSUME MaxNodesPositive == MaxNodes \in Nat \ {0}

Managements == {"api", "strategy", "both", "none"}          \* --channel-management

VARIABLES
  phase,        \* "off", "open", "reach", "wait", "running" or "failed"
  members,      \* the nodes started
  managed,      \* who opens the channels
  todo,         \* pairs the pass under way has still to look at
  missing,      \* pairs it found without a channel
  asked,        \* the pair of the call under way and what it is, or NoCall
  late,         \* the deadline of the phase has passed
  channels,     \* pairs with an open channel
  opening       \* pairs whose opening a node has under way

meshVars == <<phase, members, managed, todo, missing, asked, late, channels, opening>>

NoCall == [pair |-> <<>>, call |-> "none"]

Pairs(nodes) == {p \in nodes \X nodes : p[1] # p[2]}

MeshTypeOK ==
  /\ phase \in {"off", "open", "reach", "wait", "running", "failed"}
  /\ members \subseteq 0 .. MaxNodes - 1
  /\ managed \in Managements
  /\ todo \subseteq Pairs(members) /\ missing \subseteq Pairs(members)
  /\ todo \cap missing = {}
  /\ asked = NoCall
       \/ /\ asked.call \in {"open", "recheck"} /\ asked.pair \in todo
          /\ phase = "open"
  /\ late \in BOOLEAN
  /\ channels \subseteq Pairs(0 .. MaxNodes - 1)
  /\ opening \subseteq Pairs(0 .. MaxNodes - 1)

\* Nothing is started and the chain knows no channel.
MeshInit ==
  /\ phase = "off" /\ members = {} /\ managed = "none"
  /\ todo = {} /\ missing = {} /\ asked = NoCall /\ late = FALSE
  /\ channels = {} /\ opening = {}

\* A phase starts with its own deadline and a first pass over every pair.
Enter(next, nodes) ==
  /\ phase' = next
  /\ todo' = Pairs(nodes)
  /\ missing' = {}
  /\ asked' = NoCall
  /\ late' = FALSE

\* main() turns to the channels once every node is ready.
FirstPhase(management) ==
  CASE management = "none"            -> "running"
    [] management = "strategy"        -> "reach"
    [] management \in {"api", "both"} -> "open"

StartMesh(nodes, management) ==
  /\ members' = nodes
  /\ managed' = management
  /\ Enter(FirstPhase(management), nodes)
  /\ UNCHANGED <<channels, opening>>

\* The cluster is gone; what its nodes have sent to the chain is not.
StopMesh ==
  /\ phase' = "off"
  /\ members' = {} /\ todo' = {} /\ missing' = {} /\ asked' = NoCall /\ late' = FALSE
  /\ UNCHANGED <<managed, channels, opening>>

NextPhase == IF phase = "wait" THEN "running" ELSE "wait"

\* The end of a pass: on to the next phase, or a pause and another pass.
PassOk ==
  /\ phase \in {"open", "reach", "wait"}
  /\ todo = {} /\ missing = {}
  /\ Enter(NextPhase, members)
  /\ UNCHANGED <<members, managed, channels, opening>>

PassAgain ==
  /\ phase \in {"open", "reach", "wait"}
  /\ todo = {} /\ missing # {}
  /\ ~late
  /\ todo' = Pairs(members) /\ missing' = {}
  /\ UNCHANGED <<phase, members, managed, asked, late, channels, opening>>

\* A plausible bug: the deadline is compared but nothing is returned.
PassTimesOutNever == FALSE

PassTimesOut ==
  /\ phase \in {"open", "reach", "wait"}
  /\ todo = {} /\ missing # {}
  /\ late
  /\ phase' = "failed"
  /\ UNCHANGED <<members, managed, todo, missing, asked, late, channels, opening>>

Elapse ==
  /\ phase \in {"open", "reach", "wait"} /\ ~late
  /\ late' = TRUE
  /\ UNCHANGED <<phase, members, managed, todo, missing, asked, channels, opening>>

\* open_full_mesh_channels: list the channels of the source, ask it to open the
\* one that is not there, and list again when that was refused or cut off.
Skip(p) ==
  /\ phase = "open" /\ asked = NoCall /\ p \in todo
  /\ p \in channels
  /\ todo' = todo \ {p}
  /\ UNCHANGED <<phase, members, managed, missing, asked, late, channels, opening>>

AskOpen(p) ==
  /\ phase = "open" /\ asked = NoCall /\ p \in todo
  /\ p \notin channels
  /\ asked' = [pair |-> p, call |-> "open"]
  /\ opening' = opening \cup {p}
  /\ UNCHANGED <<phase, members, managed, todo, missing, late, channels>>

OpenOk ==
  /\ asked.call = "open"
  /\ asked.pair \in channels
  /\ todo' = todo \ {asked.pair}
  /\ asked' = NoCall
  /\ UNCHANGED <<phase, members, managed, missing, late, channels, opening>>

\* Refused, cut off or lost; whether the node goes on with it is left open.
OpenErr ==
  /\ asked.call = "open"
  /\ asked' = [asked EXCEPT !.call = "recheck"]
  /\ UNCHANGED <<phase, members, managed, todo, missing, late, channels, opening>>

\* A plausible bug: a call that failed counts as done whatever the listing says.
RecheckTrusting ==
  /\ asked.call = "recheck"
  /\ todo' = todo \ {asked.pair}
  /\ asked' = NoCall
  /\ UNCHANGED <<phase, members, managed, missing, late, channels, opening>>

Recheck ==
  /\ asked.call = "recheck"
  /\ todo' = todo \ {asked.pair}
  /\ missing' = IF asked.pair \in channels THEN missing ELSE missing \cup {asked.pair}
  /\ asked' = NoCall
  /\ UNCHANGED <<phase, members, managed, late, channels, opening>>

\* A listing that fails ends the whole call at once (the two `?`).
ListErr ==
  /\ phase = "open" /\ asked.call \in {"none", "recheck"}
  /\ asked = NoCall => todo # {}
  /\ phase' = "failed"
  /\ asked' = NoCall
  /\ UNCHANGED <<members, managed, todo, missing, late, channels, opening>>

\* wait_full_mesh_reachable pings every pair.
Ping(p, ok) ==
  /\ phase = "reach" /\ p \in todo
  /\ todo' = todo \ {p}
  /\ missing' = IF ok THEN missing ELSE missing \cup {p}
  /\ UNCHANGED <<phase, members, managed, asked, late, channels, opening>>

\* wait_full_mesh_channels lists every pair; an error counts as not open.
Listed(p, ok) ==
  /\ phase = "wait" /\ p \in todo
  /\ ok => p \in channels
  /\ todo' = todo \ {p}
  /\ missing' = IF ok THEN missing ELSE missing \cup {p}
  /\ UNCHANGED <<phase, members, managed, asked, late, channels, opening>>

\* The chain and the nodes: an opening is mined, given up, or started by the
\* nodes' own ChannelLifecycle strategy.
Mined(p) ==
  /\ p \in opening
  /\ channels' = channels \cup {p} /\ opening' = opening \ {p}
  /\ UNCHANGED <<phase, members, managed, todo, missing, asked, late>>

GivenUp(p) ==
  /\ p \in opening
  /\ opening' = opening \ {p}
  /\ UNCHANGED <<phase, members, managed, todo, missing, asked, late, channels>>

StrategyOpens(p) ==
  /\ phase \notin {"off", "failed"}
  /\ managed \in {"strategy", "both"}
  /\ p \in Pairs(members) \ (channels \cup opening)
  /\ opening' = opening \cup {p}
  /\ UNCHANGED <<phase, members, managed, todo, missing, asked, late, channels>>

Passes == PassOk \/ PassAgain \/ PassTimesOut
Answers ==
  \/ OpenOk \/ OpenErr \/ Recheck \/ ListErr
  \/ \E p \in todo, ok \in BOOLEAN : Skip(p) \/ AskOpen(p) \/ Ping(p, ok) \/ Listed(p, ok)
Outside == \E p \in Pairs(0 .. MaxNodes - 1) : Mined(p) \/ GivenUp(p) \/ StrategyOpens(p)

MeshNext == Passes \/ Elapse \/ Answers \/ Outside

\* Every call has a timeout, every pause ends, and the deadline is on the clock.
MeshFairness == WF_meshVars(Passes) /\ WF_meshVars(Answers) /\ WF_meshVars(Elapse)

(* open_full_mesh_channels that returns Ok, and a bring-up that says it is     *)
(* running, have a channel for every pair of nodes: a call that failed is not  *)
(* taken for a channel, one that opened late is found                          *)
(* (client_helper.rs:611-723).                                                 *)
MeshOkMeansOpen ==
  (phase = "running" /\ managed # "none") \/ (phase = "wait" /\ managed # "strategy")
  => Pairs(members) \subseteq channels

(* However calls, nodes and the chain behave, the bring-up's wait for channels *)
(* ends, in a running cluster or with an error (client_helper.rs:711-720).     *)
MeshReturns ==
  phase \in {"open", "reach", "wait"} ~> phase \notin {"open", "reach", "wait"}
=============================================================================
