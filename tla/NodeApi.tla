------------------------------- MODULE NodeApi ------------------------------
(***************************************************************************)
(* The REST API of hoprd: rest-api/src.  Requests run side by side, each   *)
(* in a task of its own, on one node (hopr-lib) whose channels, status and *)
(* peers change by themselves, by other requests and by the strategies.    *)
(* A handler's steps end at its awaits and between its reads of the node.  *)
(*                                                                         *)
(* The listeners of Sessions, and the requests that open, list and close   *)
(* them, are in SessionRegistry.                                           *)
(***************************************************************************)
EXTENDS FiniteSets, Sequences, SessionSettings

CONSTANTS Peers,       \* counterparties, by on-chain address
          Requests,    \* requests served at one time
          AsksToken,   \* Auth::Token
          Scenes       \* bound on one behaviour: [slots, ops, moves, args, headers, statuses]

VARIABLES
    scene,       \* the one of this behaviour
    chain,       \* the channels of this node: [status, stake]
    funds,       \* the currencies the node could withdraw
    view,        \* what the library reports of the node and its peers
    session,     \* the SURB settings of a client Session, or NoSession
    redeeming,   \* scopes of the redemptions that run
    req          \* the requests

vars == <<scene, chain, funds, view, session, redeeming, req>>
node == <<chain, funds, view, session, redeeming>>

(***************************************************************************)
(* The node.  A channel is <<peer, "in">> or <<peer, "out">>.              *)
(***************************************************************************)
Directions == {"in", "out"}
Channels == Peers \X Directions
Statuses == {"None", "Open", "PendingToClose", "Closed"}
Components == {"chain", "network", "transport"}
ComponentStatuses == {"Ready", "Initializing", "Degraded", "Unavailable"}
Currencies == {"xdai", "wxhopr"}
Everyone == "all"
MaxStake == 2            \* bound: funding beyond it is not told apart

\* The scenes: fullTopology is TRUE or FALSE, a body is a SessionConfig, and a
\* component reports one of its statuses.  No peer is called "open", the name of a fact.
ASSUME ScenesAreWellFormed ==
    /\ "open" \notin Peers
    /\ \A s \in Scenes :
          /\ s.slots \subseteq Requests /\ s.statuses \subseteq ComponentStatuses
          /\ "list" \in s.ops => s.args \subseteq BOOLEAN
          /\ "adjust" \in s.ops \/ "session" \in s.moves => \A c \in s.args : IsConfig(c)

NoChannel == [status |-> "None", stake |-> 0]
Live(c) == c.status \in {"Open", "PendingToClose"}

\* What a transaction of the channel contract makes of a channel.  The source
\* opens, funds and closes in two steps; the destination closes at once.
Opened(c)      == IF Live(c) THEN {} ELSE {[status |-> "Open", stake |-> 1]}
Funded(c)      == IF c.status = "Open" /\ c.stake < MaxStake THEN {[c EXCEPT !.stake = @ + 1]} ELSE {}
ClosedBySource(c) ==
    IF c.status = "Open" THEN {[c EXCEPT !.status = "PendingToClose"]}
    ELSE IF Live(c) THEN {[status |-> "Closed", stake |-> 0]} ELSE {}
ClosedByDestination(c) == IF Live(c) THEN {[status |-> "Closed", stake |-> 0]} ELSE {}
Onwards(c) == Opened(c) \cup Funded(c) \cup ClosedBySource(c) \cup ClosedByDestination(c)

(***************************************************************************)
(* Facts a request's answer is about.                                      *)
(***************************************************************************)
ChannelFacts(ch) == {c \in Channels : Live(ch[c])} \cup {<<"open", c>> : c \in {d \in Channels : ch[d].status = "Open"}}
NodeFacts(v) ==
    (IF v.running THEN {"running"} ELSE {}) \cup (IF v.health # "Red" THEN {"connected"} ELSE {})
    \cup (IF v.status["chain"] # "Unavailable" THEN {"available"} ELSE {})
StatusFacts(v) == {<<c, v.status[c]>> : c \in Components}
Facts(op, ch, v) ==
    CASE op \in {"startedz", "readyz", "healthyz"} -> NodeFacts(v)
      [] op = "status"                             -> StatusFacts(v)
      [] op = "connected"                          -> v.connected
      [] OTHER                                     -> ChannelFacts(ch)

(***************************************************************************)
(* Requests.  ever and steady record the facts that held at some time, and *)
(* those that held all the time, since the request came; they only serve   *)
(* the properties.                                                         *)
(***************************************************************************)
Unserved == [pc |-> "idle", op |-> "none"]
Active(q) == q.pc \notin {"idle", "done"}

\* The requests reqs once they have seen the channels ch and the view v.
Seeing(reqs, ch, v) ==
    [r \in Requests |->
        IF Active(reqs[r])
        THEN LET now == Facts(reqs[r].op, ch, v)
             IN  [reqs[r] EXCEPT !.ever = @ \cup now, !.steady = @ \cap now]
        ELSE reqs[r]]

At(r, op, pc) == req[r].pc = pc /\ req[r].op = op
Target(r) == <<req[r].peer, req[r].dir>>
Goes(r, pc, got) == req' = [req EXCEPT ![r].pc = pc, ![r].got = got]
Answers(r, code, got) == req' = [req EXCEPT ![r].pc = "done", ![r].code = code, ![r].got = got]
Says(r, code) == Answers(r, code, {})

\* A call of the library that gives a value or an error; the handler passes it on.
OneCall(r, op, codes) ==
    /\ At(r, op, "run")
    /\ UNCHANGED <<node, scene>>
    /\ \E code \in codes : Says(r, code)

(***************************************************************************)
(* Router and authentication.  A header is named for what it carries: the  *)
(* token as a bearer (the scheme in any case) or as X-Auth-Token, or wrong.*)
(***************************************************************************)
CheckOps == {"startedz", "readyz", "healthyz", "eligiblez"}
MetricsOpen(op) == op \notin CheckOps \cup {"metrics"}       \* a mutant
Protected(op) == op \notin CheckOps

Authorized(headers) == ~AsksToken \/ headers \cap {"bearer", "x-auth-token"} # {}

\* What a request names: a peer and a direction, where its route has them.
Names(op) ==
    CASE op \in {"show", "close"}               -> Peers \X Directions
      [] op \in {"open", "fund", "ping", "peer"} -> Peers \X {"out"}
      [] op \in {"stats", "redeem"}             -> (Peers \cup {Everyone}) \X {"in"}
      [] OTHER                                  -> {<<Everyone, "in">>}

Arrive(r) ==
    /\ r \in scene.slots /\ ~Active(req[r])
    /\ \E op \in scene.ops, headers \in scene.headers :
       \E name \in Names(op), arg \in IF op \in {"list", "withdraw", "adjust"} THEN scene.args ELSE {Nothing} :
          req' = [req EXCEPT ![r] =
                [op |-> op, headers |-> headers, peer |-> name[1], dir |-> name[2], arg |-> arg, code |-> 0, got |-> {},
                 pc |-> IF Protected(op) THEN "auth" ELSE "run",
                 ever |-> Facts(op, chain, view), steady |-> Facts(op, chain, view)]]
    /\ UNCHANGED <<node, scene>>

\* The layers around a route, outermost first: the Accept header, the token.
Authenticate(r) ==
    /\ req[r].pc = "auth"
    /\ UNCHANGED <<node, scene>>
    /\ \/ Says(r, 406)
       \/ IF Authorized(req[r].headers) THEN Goes(r, "run", {}) ELSE Says(r, 401)

\* An address, a query or a body that does not parse: the framework answers.
Reject(r) ==
    /\ req[r].pc = "run" /\ Protected(req[r].op)
    /\ UNCHANGED <<node, scene>>
    /\ \E code \in {400, 415, 422} : Says(r, code)

(***************************************************************************)
(* Channels and tickets.                                                   *)
(***************************************************************************)
Listed(dir, closed) == {c \in Channels : c[2] = dir /\ (Live(chain[c]) \/ (closed /\ chain[c] # NoChannel))}

ListIncoming(r) ==
    /\ At(r, "list", "run")
    /\ UNCHANGED <<node, scene>>
    /\ Says(r, 422) \/ Goes(r, "outgoing", Listed("in", req[r].arg))

ListOutgoing(r) ==
    /\ At(r, "list", "outgoing")
    /\ UNCHANGED <<node, scene>>
    /\ Says(r, 422) \/ Answers(r, 200, req[r].got \cup Listed("out", req[r].arg))

\* fullTopology: what the chain connector has, closed channels too.
ListTopology(r) ==
    /\ At(r, "full", "run")
    /\ UNCHANGED <<node, scene>>
    /\ Says(r, 422) \/ Answers(r, 200, {c \in Channels : chain[c] # NoChannel})

FoundOutgoing(r) == Live(chain[<<req[r].peer, "out">>])      \* a mutant: the direction is forgotten

\* resolve_channel and filter_open_channel: the channel of the peer in the
\* direction, unless it is closed, there is none, or the lookup fails.
Found(r) == Live(chain[Target(r)])
NotResolved(r) == Says(r, 422) \/ (~Found(r) /\ Says(r, 404))
Resolve(r, GoOn) == NotResolved(r) \/ (Found(r) /\ GoOn)

ShowChannel(r) ==
    /\ At(r, "show", "run")
    /\ UNCHANGED <<node, scene>>
    /\ Resolve(r, Answers(r, 200, {Target(r)}))

OpenChannel(r) ==
    /\ At(r, "open", "run")
    /\ UNCHANGED <<node, scene>>
    /\ Goes(r, "tx", {})

ResolveForTx(r) ==       \* close_channel and fund_channel
    /\ At(r, "close", "run") \/ At(r, "fund", "run")
    /\ Resolve(r, Goes(r, "tx", {}))
    /\ UNCHANGED <<node, scene>>

\* What the transaction of a request does to its channel, if it can be mined.
Effect(r) ==
    LET c == chain[Target(r)]
    IN  CASE req[r].op = "open"  -> Opened(c)
          [] req[r].op = "fund"  -> Funded(c)
          [] req[r].op = "close" -> IF req[r].dir = "out" THEN ClosedBySource(c) ELSE ClosedByDestination(c)
Transacts(r) == req[r].pc = "tx" /\ req[r].op \in {"open", "close", "fund"}
After(r) == {[chain EXCEPT ![Target(r)] = c] : c \in Effect(r)}

Mine(r) ==
    /\ Transacts(r)
    /\ \E ch \in After(r) : chain' = ch /\ req' = Seeing([req EXCEPT ![r].pc = "mined"], ch, view)
    /\ UNCHANGED <<funds, view, session, redeeming, scene>>

\* The confirmation reaches the handler, or is lost: the answer is an error
\* though the transaction was mined.
Confirm(r) ==
    /\ req[r].pc = "mined"
    /\ UNCHANGED <<node, scene>>
    /\ Says(r, IF req[r].op = "open" THEN 201 ELSE 200) \/ Says(r, 422)

\* withdraw does not tell NotReady apart.
Refuse(r) ==
    /\ req[r].pc = "tx"
    /\ UNCHANGED <<node, scene>>
    /\ Says(r, IF req[r].op # "withdraw" /\ ~view.running THEN 412 ELSE 422)

TicketStatistics(r) ==
    /\ At(r, "stats", "run")
    /\ UNCHANGED <<node, scene>>
    /\ IF req[r].peer = Everyone THEN Says(r, 200) \/ Says(r, 422)
       ELSE Resolve(r, Says(r, 200) \/ Says(r, 422))

\* The redemption is a task that outlives the request.
RedeemTickets(r) ==
    /\ At(r, "redeem", "run")
    /\ UNCHANGED <<chain, funds, view, session, scene>>
    /\ LET Started == Says(r, 202) /\ redeeming' = redeeming \cup {req[r].peer}
       IN  IF req[r].peer = Everyone THEN Started
           ELSE \/ Found(r) /\ Started
                \/ NotResolved(r) /\ UNCHANGED redeeming

(***************************************************************************)
(* Wallet, network and node.                                               *)
(***************************************************************************)
\* The amount is tried as xDai, then as wxHOPR.
Withdraw(r) ==
    /\ At(r, "withdraw", "run")
    /\ UNCHANGED <<node, scene>>
    /\ IF req[r].arg \in Currencies THEN Goes(r, "tx", {}) ELSE Says(r, 422)

Transfer(r) ==
    /\ At(r, "withdraw", "tx") /\ req[r].arg \in funds
    /\ funds' = funds \ {req[r].arg}
    /\ UNCHANGED <<chain, view, session, redeeming, scene>>
    /\ Goes(r, "mined", {})

\* Five balances, one after the other; an error ends the request.
Balances(r) ==
    /\ At(r, "balances", "run")
    /\ UNCHANGED <<node, scene>>
    /\ LET read == req[r].got \cup {Cardinality(req[r].got) + 1}
       IN  \/ Says(r, 422)
           \/ IF Cardinality(read) = 5 THEN Answers(r, 200, read) ELSE Goes(r, "run", read)

Price(r)         == OneCall(r, "price", {200, 422})
Probability(r)   == OneCall(r, "probability", {200, 422})
Announced(r)     == OneCall(r, "announced", {200, 422})
Graph(r)         == OneCall(r, "graph", {200})
Metrics(r)       == OneCall(r, "metrics", {200, 422})
Addresses(r)     == OneCall(r, "addresses", {200})
Version(r)       == OneCall(r, "version", {200})
Configuration(r) == OneCall(r, "configuration", {200})
Info(r)          == OneCall(r, "info", {200, 422})
Eligiblez(r)     == OneCall(r, "eligiblez", {200})

\* The edges of the graph are read at once, their keys resolved afterwards.
ConnectedEdges(r) ==
    /\ At(r, "connected", "run")
    /\ UNCHANGED <<node, scene>>
    /\ Goes(r, "names", view.connected)
ConnectedNames(r) ==
    /\ At(r, "connected", "names")
    /\ UNCHANGED <<node, scene>>
    /\ Answers(r, 200, req[r].got \cap view.known)

\* A lookup that fails is a peer not found here, an error in ping_peer.
PeerKey(r) ==
    /\ At(r, "peer", "run")
    /\ UNCHANGED <<node, scene>>
    /\ Says(r, 404) \/ Says(r, 422) \/ (req[r].peer \in view.known /\ Goes(r, "outgoing", {}))

\* A channel that cannot be looked up is left out like one that is not there.
PeerChannels(r) ==
    /\ req[r].op = "peer" /\ req[r].pc \in {"outgoing", "incoming"}
    /\ UNCHANGED <<node, scene>>
    /\ LET c == <<req[r].peer, IF req[r].pc = "outgoing" THEN "out" ELSE "in">>
       IN  \E shown \in {{}, IF Live(chain[c]) THEN {c} ELSE {}} :
              IF req[r].pc = "outgoing" THEN Goes(r, "incoming", shown) ELSE Answers(r, 200, req[r].got \cup shown)

PingKey(r) ==
    /\ At(r, "ping", "run")
    /\ UNCHANGED <<node, scene>>
    /\ \/ Says(r, 422)
       \/ IF req[r].peer \in view.known THEN Goes(r, "pinging", {}) ELSE Says(r, 404)
Pinged(r) ==
    /\ At(r, "ping", "pinging")
    /\ UNCHANGED <<node, scene>>
    /\ \E code \in {200, 404, 408, 422} : Says(r, code)

\* The components are read in this order; each read may see another moment.
ReadOrder == <<"chain", "network", "transport">>

Overall(statuses) ==
    IF "Unavailable" \in statuses THEN "Unavailable"
    ELSE IF "Degraded" \in statuses THEN "Degraded"
    ELSE IF "Initializing" \in statuses THEN "Initializing" ELSE "Ready"

NodeStatus(r) ==
    /\ At(r, "status", "run")
    /\ UNCHANGED <<node, scene>>
    /\ LET component == ReadOrder[Cardinality(req[r].got) + 1]
           read == req[r].got \cup {<<component, view.status[component]>>}
       IN  IF Cardinality(read) < 3 THEN Goes(r, "run", read)
           ELSE Answers(r, 200, read \cup {<<"overall", Overall({p[2] : p \in read})>>})

NeedsNoConnection(op) ==         \* a mutant
    IF op = "startedz" THEN <<"running">> ELSE IF op = "healthyz" THEN <<"running">> ELSE <<"running", "available">>

Needs(op) ==
    CASE op = "startedz" -> <<"running">>
      [] op = "healthyz" -> <<"running", "connected">>
      [] op = "readyz"   -> <<"running", "connected", "available">>

\* A chain of "&&": the next condition is read only when the last one held.
Check(r) ==
    /\ req[r].pc = "run" /\ req[r].op \in {"startedz", "readyz", "healthyz"}
    /\ UNCHANGED <<node, scene>>
    /\ LET needs == Needs(req[r].op)
           n == Cardinality(req[r].got) + 1
       IN  IF needs[n] \notin NodeFacts(view) THEN Says(r, 412)
           ELSE IF n = Len(needs) THEN Answers(r, 200, req[r].got \cup {needs[n]})
           ELSE Goes(r, "run", req[r].got \cup {needs[n]})

(***************************************************************************)
(* The settings of a client Session.  It may go between the look-up of its *)
(* configurator and the use of it.                                         *)
(***************************************************************************)
FindConfigurator(r) ==
    /\ At(r, "adjust", "run") \/ At(r, "sconfig", "run")
    /\ UNCHANGED <<node, scene>>
    /\ \/ Says(r, 400)                        \* not a Session ID
       \/ IF req[r].op = "adjust" /\ ToSurbs(req[r].arg) = Nothing THEN Says(r, 400)
          ELSE IF session = NoSession THEN Says(r, 404)
          ELSE Goes(r, "configure", {})

AdjustSession(r) ==
    /\ At(r, "adjust", "configure")
    /\ UNCHANGED <<chain, funds, view, redeeming, scene>>
    /\ \/ Says(r, 406) /\ UNCHANGED session
       \/ session # NoSession /\ Says(r, 204) /\ session' = ToSurbs(req[r].arg)

SessionConfig(r) ==
    /\ At(r, "sconfig", "configure")
    /\ UNCHANGED <<node, scene>>
    /\ \/ Says(r, 422)
       \/ IF session = NoSession THEN Says(r, 404) ELSE Answers(r, 200, {ToConfig(session)})

Handle(r) ==
    \/ ListIncoming(r) \/ ListOutgoing(r) \/ ListTopology(r) \/ ShowChannel(r) \/ OpenChannel(r)
    \/ ResolveForTx(r) \/ Mine(r) \/ Confirm(r) \/ Refuse(r) \/ TicketStatistics(r) \/ RedeemTickets(r)
    \/ Withdraw(r) \/ Transfer(r) \/ Balances(r) \/ Price(r) \/ Probability(r) \/ Announced(r)
    \/ Graph(r) \/ Metrics(r) \/ Addresses(r) \/ Version(r) \/ Configuration(r) \/ Info(r) \/ Eligiblez(r)
    \/ ConnectedEdges(r) \/ ConnectedNames(r) \/ PeerKey(r) \/ PeerChannels(r) \/ PingKey(r) \/ Pinged(r)
    \/ NodeStatus(r) \/ Check(r) \/ FindConfigurator(r) \/ AdjustSession(r) \/ SessionConfig(r)

Serve(r) == Authenticate(r) \/ Reject(r) \/ Handle(r)

\* The client goes away: the task is dropped at the await it is in.  The
\* transaction it waits for may have been sent.
Disconnect(r) ==
    /\ Active(req[r])
    /\ \E ch \in {chain} \cup (IF Transacts(r) THEN After(r) ELSE {}) :
          chain' = ch /\ req' = Seeing([req EXCEPT ![r] = Unserved], ch, view)
    /\ UNCHANGED <<funds, view, session, redeeming, scene>>

(***************************************************************************)
(* What changes without a request: the counterparties and the strategies   *)
(* transact, redemptions end, the network moves, Sessions come and go.     *)
(***************************************************************************)
Moves(kind) == kind \in scene.moves

ChannelMoves ==
    /\ Moves("chain")
    /\ \E c \in Channels : \E to \in Onwards(chain[c]) :
          LET ch == [chain EXCEPT ![c] = to] IN chain' = ch /\ req' = Seeing(req, ch, view)
    /\ UNCHANGED <<scene, funds, view, session, redeeming>>

RedemptionEnds ==
    /\ \E scope \in redeeming : redeeming' = redeeming \ {scope}
    /\ UNCHANGED <<scene, chain, funds, view, session, req>>

OtherViews ==
    (IF Moves("running") THEN {[view EXCEPT !.running = ~@]} ELSE {})
    \cup (IF Moves("health") THEN {[view EXCEPT !.health = h] : h \in {"Red", "Orange"}} ELSE {})
    \cup (IF Moves("status") THEN {[view EXCEPT !.status[c] = s] : c \in Components, s \in scene.statuses} ELSE {})
    \cup (IF Moves("peers") THEN {[view EXCEPT !.known = @ \cup {p}] : p \in Peers}
                                 \cup {[view EXCEPT !.connected = c] : c \in SUBSET Peers} ELSE {})

NodeMoves ==
    /\ \E v \in OtherViews \ {view} : view' = v /\ req' = Seeing(req, chain, v)
    /\ UNCHANGED <<scene, chain, funds, session, redeeming>>

\* A Session starts with the settings its POST asked for, or without any
\* balancer, whose configurator has nothing to read.
SessionMoves ==
    /\ Moves("session")
    /\ session' \in ({NoSession} \cup {ToSurbs(c) : c \in scene.args}) \ {Nothing}
    /\ session' # session
    /\ UNCHANGED <<scene, chain, funds, view, redeeming, req>>

Init ==
    /\ scene \in Scenes
    /\ chain = [c \in Channels |-> NoChannel]
    /\ funds = Currencies
    /\ view = [running |-> FALSE, health |-> "Red", status |-> [c \in Components |-> "Initializing"],
               known |-> {}, connected |-> {}]
    /\ session = NoSession
    /\ redeeming = {}
    /\ req = [r \in Requests |-> Unserved]

Next ==
    \/ \E r \in Requests : Arrive(r) \/ Serve(r) \/ Disconnect(r)
    \/ ChannelMoves \/ RedemptionEnds \/ NodeMoves \/ SessionMoves

Spec == Init /\ [][Next]_vars

-----------------------------------------------------------------------------
(***************************************************************************)
(* Properties.                                                             *)
(***************************************************************************)
Answered(r, op, code) == req[r].pc = "done" /\ req[r].op = op /\ req[r].code = code

\* The variables have their types; what the library holds is well formed.
TypeOK ==
    /\ scene \in Scenes
    /\ chain \in [Channels -> [status : Statuses, stake : 0 .. MaxStake]]
    /\ \A c \in Channels : Live(chain[c]) <=> chain[c].stake > 0
    /\ funds \subseteq Currencies
    /\ view \in [running : BOOLEAN, health : {"Red", "Orange"}, status : [Components -> ComponentStatuses],
                 known : SUBSET Peers, connected : SUBSET Peers]
    /\ session = NoSession \/ session.target >= 2
    /\ redeeming \subseteq Peers \cup {Everyone}
    /\ \A r \in Requests : req[r] = Unserved \/ req[r].op \in scene.ops

\* With Auth::Token nothing behind the authenticated routers runs, or is
\* answered other than 401 or 406, without the token: build_api puts the layer
\* on two routers of three, and /metrics is on one of its own.
AuthorizedOnly ==
    \A r \in Requests : req[r].pc # "idle" =>
        LET q == req[r]
        IN  q.op \in CheckOps \/ Authorized(q.headers) \/ q.pc = "auth" \/ (q.pc = "done" /\ q.code \in {401, 406})

\* Whatever is answered of channels was so at some time of the request: not
\* found, shown, listed - each direction read at another time - opened, funded,
\* closed.  What held all along is listed, and is not answered "not found".
ChannelAnswersTrue ==
    \A r \in Requests : req[r].pc = "done" =>
        LET q == req[r]
            t == Target(r)
        IN  /\ q.op \in {"show", "close", "fund", "stats", "redeem"} /\ q.code = 404 => t \notin q.steady
            /\ q.op \in {"show", "close", "peer"} /\ q.code = 200 => q.got \subseteq q.ever
            /\ Answered(r, "stats", 200) /\ q.peer # Everyone => t \in q.ever
            /\ Answered(r, "redeem", 202) /\ q.peer # Everyone => t \in q.ever
            /\ Answered(r, "list", 200) => /\ q.steady \cap Channels \subseteq q.got
                                           /\ q.arg \/ q.got \subseteq q.ever
            /\ Answered(r, "full", 200) => q.steady \cap Channels \subseteq q.got
            /\ Answered(r, "open", 201) => t \in q.ever
            /\ Answered(r, "fund", 200) => <<"open", t>> \in q.ever
            /\ Answered(r, "close", 200) => t \in q.ever /\ <<"open", t>> \notin q.steady
            /\ Answered(r, "connected", 200) => q.got \subseteq q.ever

\* A probe answers 200 only if each thing it stands for held at some time of
\* the request, and 412 only if one of them failed at some time: readyz must
\* see running, connected and chain, healthyz must not see the chain.
ProbeAnswersTrue ==
    LET standsFor == [startedz |-> {"running"}, healthyz |-> {"running", "connected"},
                      readyz |-> {"running", "connected", "available"}]
    IN  \A r \in Requests : req[r].pc = "done" /\ req[r].op \in DOMAIN standsFor =>
            /\ req[r].code = 200 => standsFor[req[r].op] \subseteq req[r].ever
            /\ req[r].code = 412 => ~(standsFor[req[r].op] \subseteq req[r].steady)

\* The overall status is one that a component was in, "Ready" only if each
\* was, and no component that was worse all along is passed over - though the
\* components are read one after the other.
StatusAnswersTrue ==
    \A r \in Requests : Answered(r, "status", 200) =>
        LET q == req[r]
            overall == (CHOOSE p \in q.got : p[1] = "overall")[2]
            Some(s) == \E c \in Components : <<c, s>> \in q.ever
            Throughout(s) == \E c \in Components : <<c, s>> \in q.steady
        IN  /\ Some(overall)
            /\ overall = "Ready" => \A c \in Components : <<c, "Ready">> \in q.ever
            /\ Throughout("Unavailable") => overall = "Unavailable"
            /\ Throughout("Degraded") => overall \in {"Unavailable", "Degraded"}

\* Each answer about the node's health is one the node earned, though all are
\* put together from reads at different times.
HealthAnswersTrue == ProbeAnswersTrue /\ StatusAnswersTrue

\* Posting back what GET /session/config reads leaves the Session's rate as it
\* is and its buffer within a twentieth and a SURB, though bytes and bits are
\* divided one way and multiplied the other and the buffer is written with one
\* decimal.  Only the smallest buffer may be shown as less than it is and so be
\* refused: with 1452 bytes a SURB it is, 2904 bytes read as "2.8 KiB".
SettingsReadBack ==
    /\ TypeOK
    /\ session # NoSession =>
          LET back == ToSurbs(ToConfig(session))
          IN  /\ back = Nothing => session.target = 2
              /\ back # Nothing => /\ back.rate = session.rate
                                   /\ 20 * back.target <= 21 * session.target
                                   /\ 20 * (back.target + 1) > 19 * session.target
=============================================================================
