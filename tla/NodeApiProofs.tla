--------------------------- MODULE NodeApiProofs ----------------------------
(***************************************************************************)
(* The answers of the REST API, for any peers, requests and scenes: what a *)
(* request is told is what was so while it ran, whatever the node, its     *)
(* counterparties and the other requests did in between.                   *)
(***************************************************************************)
EXTENDS NodeApi, FiniteSetTheorems, TLAPS

Probes == {"startedz", "readyz", "healthyz"}
Transactions == {"open", "close", "fund", "withdraw"}
Named(q) == <<q.peer, q.dir>>

\* A request, once it came: its ten fields.
Shaped(q) ==
    q \in [op : {q.op}, headers : {q.headers}, peer : {q.peer}, dir : {q.dir}, arg : {q.arg}, code : {q.code},
           got : {q.got}, pc : {q.pc}, ever : {q.ever}, steady : {q.steady}]

\* n is q later on: what it came with does not change.
Later(q, n) ==
    Shaped(n) /\ n.op = q.op /\ n.headers = q.headers /\ n.peer = q.peer /\ n.dir = q.dir /\ n.arg = q.arg

\* n is q after a step of its own, and after it has seen the facts now in a step of others.
Turned(q, n, pc, code, got) ==
    Later(q, n) /\ n.pc = pc /\ n.code = code /\ n.got = got /\ n.ever = q.ever /\ n.steady = q.steady
Seen(q, n, now) ==
    /\ Later(q, n) /\ n.pc = q.pc /\ n.code = q.code /\ n.got = q.got
    /\ n.ever = q.ever \cup now /\ n.steady = q.steady \cap now

\* Where a request can be, with what it came with, and past whom.
Placed(q) ==
    /\ q.pc \in {"auth", "run", "outgoing", "incoming", "tx", "mined", "names", "pinging", "configure", "done"}
    /\ q.pc = "auth" => Protected(q.op)
    /\ q.pc \in {"tx", "mined"} => q.op \in Transactions
    /\ Named(q) \in Names(q.op)
    /\ q.op = "list" => q.arg \in BOOLEAN
    /\ q.op = "adjust" => IsConfig(q.arg)
    /\ \/ q.op \in CheckOps \/ Authorized(q.headers) \/ q.pc = "auth"
       \/ q.pc = "done" /\ q.code \in {401, 406}

\* What a request that runs has recorded frames what is so now.
Framed(q, now) == Active(q) => q.steady \subseteq now /\ now \subseteq q.ever

\* The components read so far, in their order; none was read as what it never
\* was, nor as other than what it was all along.
ReadSoFar(q) ==
    /\ \/ q.got = {}
       \/ \E a \in ComponentStatuses : q.got = {<<"chain", a>>}
       \/ \E a, b \in ComponentStatuses : q.got = {<<"chain", a>>, <<"network", b>>}
    /\ q.got \subseteq q.ever
    /\ \A c \in Components, s, t \in ComponentStatuses : <<c, s>> \in q.got /\ <<c, t>> \in q.steady => s = t

\* What a handler has found out at each of its awaits.
SoFar(q) ==
    /\ q.op \in Probes /\ q.pc = "run" =>
          /\ q.got \subseteq q.ever
          /\ \/ q.got = {}
             \/ q.got = {"running"} /\ q.op # "startedz"
             \/ q.got = {"running", "connected"} /\ q.op = "readyz"
    /\ q.op = "status" /\ q.pc = "run" => ReadSoFar(q)
    /\ q.op = "list" /\ q.pc = "outgoing" =>
          /\ \A c \in q.steady \cap Channels : c[2] = "in" => c \in q.got
          /\ q.arg \/ q.got \subseteq q.ever
    /\ q.op = "connected" /\ q.pc = "names" => q.got \subseteq q.ever
    /\ q.op = "peer" /\ q.pc = "incoming" => q.got \subseteq q.ever
    /\ q.op = "adjust" /\ q.pc = "configure" => ToSurbs(q.arg) # Nothing
    /\ q.pc = "mined" =>
          /\ q.op = "open" => Named(q) \in q.ever
          /\ q.op = "fund" => <<"open", Named(q)>> \in q.ever
          /\ q.op = "close" => Named(q) \in q.ever /\ <<"open", Named(q)>> \notin q.steady

\* The three claims about answers, for one request.
ChannelEarned(q) ==
    /\ q.op \in {"show", "close", "fund", "stats", "redeem"} /\ q.code = 404 => Named(q) \notin q.steady
    /\ q.op \in {"show", "close", "peer"} /\ q.code = 200 => q.got \subseteq q.ever
    /\ q.op = "stats" /\ q.code = 200 /\ q.peer # Everyone => Named(q) \in q.ever
    /\ q.op = "redeem" /\ q.code = 202 /\ q.peer # Everyone => Named(q) \in q.ever
    /\ q.op = "list" /\ q.code = 200 =>
          /\ q.steady \cap Channels \subseteq q.got
          /\ q.arg \/ q.got \subseteq q.ever
    /\ q.op = "full" /\ q.code = 200 => q.steady \cap Channels \subseteq q.got
    /\ q.op = "open" /\ q.code = 201 => Named(q) \in q.ever
    /\ q.op = "fund" /\ q.code = 200 => <<"open", Named(q)>> \in q.ever
    /\ q.op = "close" /\ q.code = 200 => Named(q) \in q.ever /\ <<"open", Named(q)>> \notin q.steady
    /\ q.op = "connected" /\ q.code = 200 => q.got \subseteq q.ever

ProbeEarned(q) ==
    /\ q.op = "startedz" =>
          /\ q.code = 200 => {"running"} \subseteq q.ever
          /\ q.code = 412 => ~({"running"} \subseteq q.steady)
    /\ q.op = "healthyz" =>
          /\ q.code = 200 => {"running", "connected"} \subseteq q.ever
          /\ q.code = 412 => ~({"running", "connected"} \subseteq q.steady)
    /\ q.op = "readyz" =>
          /\ q.code = 200 => {"running", "connected", "available"} \subseteq q.ever
          /\ q.code = 412 => ~({"running", "connected", "available"} \subseteq q.steady)

StatusEarned(q) ==
    q.op = "status" /\ q.code = 200 =>
        LET overall == (CHOOSE p \in q.got : p[1] = "overall")[2]
        IN  /\ \E c \in Components : <<c, overall>> \in q.ever
            /\ overall = "Ready" => \A c \in Components : <<c, "Ready">> \in q.ever
            /\ (\E c \in Components : <<c, "Unavailable">> \in q.steady) => overall = "Unavailable"
            /\ (\E c \in Components : <<c, "Degraded">> \in q.steady) => overall \in {"Unavailable", "Degraded"}

Earned(q) == q.pc = "done" => ChannelEarned(q) /\ ProbeEarned(q) /\ StatusEarned(q)

Sound(q, now) ==
    q = Unserved \/ (Shaped(q) /\ Placed(q) /\ Framed(q, now) /\ SoFar(q) /\ Earned(q))

Now(q) == Facts(q.op, chain, view)

IInv ==
    /\ TypeOK
    /\ session = NoSession \/ (session \in [target : Nat, rate : Nat] /\ session.target >= 2)
    /\ req = [r \in Requests |-> req[r]]
    /\ \A r \in Requests : Sound(req[r], Now(req[r]))

-----------------------------------------------------------------------------
(***************************************************************************)
(* Facts, and what the steps do to a request.                              *)
(***************************************************************************)
\* A live channel is a fact, and an open one two.
LEMMA ChannelFact ==
    ASSUME NEW ch, NEW c \in Channels
    PROVE  /\ c \in ChannelFacts(ch) <=> Live(ch[c])
           /\ <<"open", c>> \in ChannelFacts(ch) <=> ch[c].status = "Open"
<1>1. \A d \in Channels : d[1] # "open" /\ <<"open", d>>[1] = "open"
  BY ScenesAreWellFormed DEF Channels
<1>2. <<"open", c>> \notin Channels
  BY ScenesAreWellFormed DEF Channels
<1>3. \A d \in Channels : c # <<"open", d>>
  BY <1>1
<1>4. \A d \in Channels : <<"open", c>> = <<"open", d>> => c = d
  OBVIOUS
<1>5. QED
  BY <1>2, <1>3, <1>4 DEF ChannelFacts

\* The facts of a request that is not about the node's health are its channels.
LEMMA FactsByOp ==
    ASSUME NEW op, NEW ch, NEW v
    PROVE  /\ op \in Probes => Facts(op, ch, v) = NodeFacts(v)
           /\ op = "status" => Facts(op, ch, v) = StatusFacts(v)
           /\ op = "connected" => Facts(op, ch, v) = v.connected
           /\ op \notin Probes \cup {"status", "connected"} => Facts(op, ch, v) = ChannelFacts(ch)
BY DEF Facts, Probes

\* A step of a handler is the request further on.
LEMMA GoesTurns ==
    ASSUME req = [s \in Requests |-> req[s]], NEW r \in Requests, Shaped(req[r]), NEW pc, NEW got,
           Goes(r, pc, got)
    PROVE  req' = [req EXCEPT ![r] = req'[r]] /\ Turned(req[r], req'[r], pc, req[r].code, got)
<1> DEFINE q == req[r]
           n == [q EXCEPT !.pc = pc, !.got = got]
<1>1. req' = [req EXCEPT ![r] = n] /\ req'[r] = n
  BY DEF Goes
<1>2. Turned(q, n, pc, q.code, got)
  <2> HIDE DEF q
  <2>1. Shaped(q)
    BY DEF q
  <2>2. QED
    BY <2>1 DEF Turned, Later, Shaped
<1>3. QED
  BY <1>1, <1>2

LEMMA AnswersTurns ==
    ASSUME req = [s \in Requests |-> req[s]], NEW r \in Requests, Shaped(req[r]), NEW code, NEW got,
           Answers(r, code, got)
    PROVE  req' = [req EXCEPT ![r] = req'[r]] /\ Turned(req[r], req'[r], "done", code, got)
<1> DEFINE q == req[r]
           n == [q EXCEPT !.pc = "done", !.code = code, !.got = got]
<1>1. req' = [req EXCEPT ![r] = n] /\ req'[r] = n
  BY DEF Answers
<1>2. Turned(q, n, "done", code, got)
  <2> HIDE DEF q
  <2>1. Shaped(q)
    BY DEF q
  <2>2. QED
    BY <2>1 DEF Turned, Later, Shaped
<1>3. QED
  BY <1>1, <1>2

\* A step of anyone else is the request having seen more.
LEMMA SeeingSees ==
    ASSUME NEW reqs, NEW s \in Requests, NEW ch, NEW v, reqs[s] = Unserved \/ Shaped(reqs[s])
    PROVE  /\ Active(reqs[s]) => Seen(reqs[s], Seeing(reqs, ch, v)[s], Facts(reqs[s].op, ch, v))
           /\ ~Active(reqs[s]) => Seeing(reqs, ch, v)[s] = reqs[s]
<1> DEFINE q == reqs[s]
           now == Facts(q.op, ch, v)
           n == [q EXCEPT !.ever = @ \cup now, !.steady = @ \cap now]
<1>1. CASE ~Active(q)
  BY <1>1 DEF Seeing
<1>2. CASE Active(q)
  <2>1. Shaped(q)
    BY <1>2 DEF Active, Unserved
  <2>2. Seeing(reqs, ch, v)[s] = n
    BY <1>2 DEF Seeing
  <2>3. Seen(q, n, now)
    <3> HIDE DEF q, now
    <3> QED
      BY <2>1 DEF Seen, Later, Shaped
  <2>4. QED
    BY <1>2, <2>2, <2>3
<1>3. QED
  BY <1>1, <1>2

\* What is sound stays so when others move.
LEMMA SeeingSound ==
    ASSUME NEW q, NEW n, NEW old, NEW now, Sound(q, old),
           IF Active(q) THEN Seen(q, n, now) ELSE n = q
    PROVE  Sound(n, now)
<1>1. CASE ~Active(q)
  BY <1>1 DEF Sound, Framed
<1>2. CASE Active(q)
  <2>1. Shaped(q) /\ Placed(q) /\ Framed(q, old) /\ SoFar(q)
    BY <1>2 DEF Sound, Active, Unserved
  <2>2. /\ n.pc = q.pc /\ n.code = q.code /\ n.got = q.got /\ n.op = q.op /\ n.headers = q.headers /\ n.arg = q.arg
        /\ n.ever = q.ever \cup now /\ n.steady = q.steady \cap now /\ Named(n) = Named(q) /\ Shaped(n)
    BY <1>2 DEF Seen, Later, Named
  <2>3. Placed(n)
    BY <2>1, <2>2 DEF Placed
  <2>4. Framed(n, now)
    BY <2>1, <2>2 DEF Framed
  <2>5. SoFar(n)
    <3>1. q.op = "status" /\ q.pc = "run" => ReadSoFar(n)
      BY <2>1, <2>2 DEF SoFar, ReadSoFar
    <3>2. q.op \in Probes /\ q.pc = "run" =>
          /\ n.got \subseteq n.ever
          /\ \/ n.got = {}
             \/ n.got = {"running"} /\ n.op # "startedz"
             \/ n.got = {"running", "connected"} /\ n.op = "readyz"
      BY <2>1, <2>2 DEF SoFar
    <3>3. q.op = "list" /\ q.pc = "outgoing" =>
          /\ \A c \in n.steady \cap Channels : c[2] = "in" => c \in n.got
          /\ n.arg \/ n.got \subseteq n.ever
      BY <2>1, <2>2 DEF SoFar
    <3>4. q.pc = "mined" =>
          /\ q.op = "open" => Named(n) \in n.ever
          /\ q.op = "fund" => <<"open", Named(n)>> \in n.ever
          /\ q.op = "close" => Named(n) \in n.ever /\ <<"open", Named(n)>> \notin n.steady
      BY <2>1, <2>2 DEF SoFar
    <3>5. /\ q.op = "connected" /\ q.pc = "names" => n.got \subseteq n.ever
          /\ q.op = "peer" /\ q.pc = "incoming" => n.got \subseteq n.ever
          /\ q.op = "adjust" /\ q.pc = "configure" => ToSurbs(n.arg) # Nothing
      BY <2>1, <2>2 DEF SoFar
    <3>6. QED
      BY <2>2, <3>1, <3>2, <3>3, <3>4, <3>5 DEF SoFar
  <2>6. Earned(n)
    BY <1>2, <2>2 DEF Active, Earned
  <2>7. QED
    BY <2>2, <2>3, <2>4, <2>5, <2>6, <1>2 DEF Sound
<1>3. QED
  BY <1>1, <1>2

-----------------------------------------------------------------------------
(***************************************************************************)
(* The steps of a handler that leave the node as it is.                    *)
(***************************************************************************)
\* Answers about which nothing is claimed.
Silent(op, code) ==
    \/ code \in {204, 400, 401, 406, 408, 415, 422}
    \/ code = 412 /\ op \notin Probes
    \/ code = 404 /\ op \notin {"show", "close", "fund", "stats", "redeem"}
    \/ code = 200 /\ op \notin Probes \cup {"show", "close", "peer", "stats", "list", "full", "fund", "connected", "status"}

\* The step moves the request r alone, which runs, and soundly.
Kept(r) ==
    /\ Active(req[r])
    /\ req' = [req EXCEPT ![r] = req'[r]]
    /\ Sound(req'[r], Now(req[r]))
    /\ req'[r].op = req[r].op

LEMMA Running ==
    ASSUME IInv, NEW r \in Requests, Active(req[r])
    PROVE  /\ req = [s \in Requests |-> req[s]]
           /\ Shaped(req[r]) /\ Placed(req[r]) /\ SoFar(req[r])
           /\ req[r].steady \subseteq Now(req[r]) /\ Now(req[r]) \subseteq req[r].ever
BY DEF IInv, Sound, Active, Unserved, Framed

LEMMA TurnSound ==
    ASSUME NEW q, NEW n, NEW now, Sound(q, now), Active(q), NEW pc, NEW code, NEW got,
           Turned(q, n, pc, code, got), Placed(n), SoFar(n), Earned(n)
    PROVE  Sound(n, now)
<1>1. Framed(q, now)
  BY DEF Sound, Active, Unserved
<1>2. Framed(n, now)
  BY <1>1 DEF Framed, Turned
<1>3. QED
  BY <1>2 DEF Sound, Turned, Later

\* Whoever is past authentication stays placed.
LEMMA TurnPlaced ==
    ASSUME NEW q, NEW n, Placed(q), Active(q), NEW pc, NEW code, NEW got,
           Turned(q, n, pc, code, got), q.pc # "auth",
           pc \in {"run", "outgoing", "incoming", "names", "pinging", "configure", "done"}
           \/ (pc \in {"tx", "mined"} /\ q.op \in Transactions)
    PROVE  Placed(n)
BY DEF Placed, Active, Turned, Later, Named

LEMMA SilentAnswer ==
    ASSUME IInv, NEW r \in Requests, Active(req[r]), NEW code, NEW got,
           Answers(r, code, got), Silent(req[r].op, code), req[r].pc # "auth" \/ code \in {401, 406}
    PROVE  Kept(r)
<1> DEFINE q == req[r]
           n == req'[r]
<1>1. /\ req = [s \in Requests |-> req[s]]
      /\ Shaped(q) /\ Placed(q) /\ Sound(q, Now(q))
  BY Running DEF IInv
<1>2. req' = [req EXCEPT ![r] = n] /\ Turned(q, n, "done", code, got)
  BY <1>1, AnswersTurns
<1>3. n.pc = "done" /\ n.code = code /\ n.op = q.op
  BY <1>2 DEF Turned, Later
<1>4. Placed(n)
  <2>1. CASE q.pc # "auth"
    BY <2>1, <1>1, <1>2, TurnPlaced
  <2>2. CASE code \in {401, 406}
    BY <2>2, <1>1, <1>2 DEF Placed, Turned, Later, Named
  <2>3. QED
    BY <2>1, <2>2
<1>5. SoFar(n)
  BY <1>3 DEF SoFar
<1>6. Earned(n)
  <2>1. ChannelEarned(n)
    BY <1>3 DEF ChannelEarned, Silent
  <2>2. ProbeEarned(n)
    BY <1>3 DEF ProbeEarned, Silent, Probes
  <2>3. StatusEarned(n)
    BY <1>3 DEF StatusEarned, Silent
  <2>4. QED
    BY <2>1, <2>2, <2>3 DEF Earned
<1>7. Sound(n, Now(q))
  BY <1>1, <1>2, <1>4, <1>5, <1>6, TurnSound
<1>8. QED
  BY <1>2, <1>3, <1>7 DEF Kept

\* A step to a further await, with what has been found out by then.
LEMMA GoesOn ==
    ASSUME IInv, NEW r \in Requests, Active(req[r]), NEW pc, NEW got, Goes(r, pc, got),
           req[r].pc # "auth" \/ Authorized(req[r].headers),
           \/ pc \in {"run", "outgoing", "incoming", "names", "pinging", "configure"}
           \/ pc \in {"tx", "mined"} /\ req[r].op \in Transactions,
           Turned(req[r], req'[r], pc, req[r].code, got) => SoFar(req'[r])
    PROVE  Kept(r)
<1> DEFINE q == req[r]
           n == req'[r]
<1>1. /\ req = [s \in Requests |-> req[s]]
      /\ Shaped(q) /\ Placed(q) /\ Sound(q, Now(q))
  BY Running DEF IInv
<1>2. req' = [req EXCEPT ![r] = n] /\ Turned(q, n, pc, q.code, got)
  BY <1>1, GoesTurns
<1>3. n.pc = pc /\ n.op = q.op /\ n.pc # "done"
  BY <1>2 DEF Turned, Later
<1>4. Placed(n)
  <2>1. CASE q.pc # "auth"
    BY <2>1, <1>1, <1>2, TurnPlaced
  <2>2. CASE Authorized(q.headers)
    BY <2>2, <1>1, <1>2 DEF Placed, Turned, Later, Named
  <2>3. QED
    BY <2>1, <2>2
<1>5. SoFar(n) /\ Earned(n)
  BY <1>2, <1>3 DEF Earned
<1>6. Sound(n, Now(q))
  BY <1>1, <1>2, <1>4, <1>5, TurnSound
<1>7. QED
  BY <1>2, <1>3, <1>6 DEF Kept

\* An answer that claims something, with what it rests on.
LEMMA Tells ==
    ASSUME IInv, NEW r \in Requests, Active(req[r]), NEW code, NEW got, Answers(r, code, got),
           req[r].pc # "auth",
           Turned(req[r], req'[r], "done", code, got) =>
               ChannelEarned(req'[r]) /\ ProbeEarned(req'[r]) /\ StatusEarned(req'[r])
    PROVE  Kept(r)
<1> DEFINE q == req[r]
           n == req'[r]
<1>1. /\ req = [s \in Requests |-> req[s]]
      /\ Shaped(q) /\ Placed(q) /\ Sound(q, Now(q))
  BY Running DEF IInv
<1>2. req' = [req EXCEPT ![r] = n] /\ Turned(q, n, "done", code, got)
  BY <1>1, AnswersTurns
<1>3. n.pc = "done" /\ n.op = q.op
  BY <1>2 DEF Turned, Later
<1>4. Placed(n)
  BY <1>1, <1>2, TurnPlaced
<1>5. SoFar(n) /\ Earned(n)
  BY <1>2, <1>3 DEF SoFar, Earned
<1>6. Sound(n, Now(q))
  BY <1>1, <1>2, <1>4, <1>5, TurnSound
<1>7. QED
  BY <1>2, <1>3, <1>6 DEF Kept

\* At the layers in front of the handlers.
LEMMA GatesKeep ==
    ASSUME IInv, NEW r \in Requests, Authenticate(r) \/ Reject(r)
    PROVE  Kept(r)
<1> USE DEF Active
<1>1. CASE Authenticate(r) /\ Says(r, 406)
  BY <1>1, SilentAnswer DEF Authenticate, Says, Silent
<1>2. CASE Authenticate(r) /\ Says(r, 401)
  BY <1>2, SilentAnswer DEF Authenticate, Says, Silent
<1>3. CASE Authenticate(r) /\ Authorized(req[r].headers) /\ Goes(r, "run", {})
  <2>1. req[r].pc = "auth" /\ Protected(req[r].op)
    BY <1>3, Running DEF Authenticate, Placed
  <2>2. Turned(req[r], req'[r], "run", req[r].code, {}) => SoFar(req'[r])
    BY <2>1 DEF Turned, Later, SoFar, ReadSoFar
  <2>3. QED
    BY <1>3, <2>1, <2>2, GoesOn
<1>4. CASE Reject(r)
  <2>1. PICK code \in {400, 415, 422} : Says(r, code)
    BY <1>4 DEF Reject
  <2>2. req[r].pc = "run"
    BY <1>4 DEF Reject
  <2>3. QED
    BY <2>1, <2>2, SilentAnswer DEF Says, Silent
<1>5. QED
  BY <1>1, <1>2, <1>3, <1>4 DEF Authenticate

\* The handlers that only read one value, or try the node and go on.
LEMMA PlainKeep ==
    ASSUME IInv, NEW r \in Requests,
           \/ Price(r) \/ Probability(r) \/ Announced(r) \/ Graph(r) \/ Metrics(r) \/ Addresses(r) \/ Version(r)
           \/ Configuration(r) \/ Info(r) \/ Eligiblez(r)
           \/ OpenChannel(r) \/ Refuse(r) \/ Withdraw(r) \/ Balances(r)
           \/ PingKey(r) \/ Pinged(r) \/ FindConfigurator(r) \/ SessionConfig(r)
    PROVE  Kept(r)
<1> USE DEF Active
<1>1. ASSUME NEW op, NEW codes, OneCall(r, op, codes), codes \subseteq {200, 422},
             op \notin Probes \cup {"show", "close", "peer", "stats", "list", "full", "fund", "connected", "status"}
      PROVE  Kept(r)
  <2>1. PICK code \in codes : Says(r, code)
    BY <1>1 DEF OneCall
  <2>2. req[r].pc = "run" /\ req[r].op = op
    BY <1>1 DEF OneCall, At
  <2>3. QED
    BY <1>1, <2>1, <2>2, SilentAnswer DEF Says, Silent
<1>2. CASE \/ Price(r) \/ Probability(r) \/ Announced(r) \/ Graph(r) \/ Metrics(r) \/ Addresses(r) \/ Version(r)
           \/ Configuration(r) \/ Info(r) \/ Eligiblez(r)
  BY <1>1, <1>2
     DEF Price, Probability, Announced, Graph, Metrics, Addresses, Version, Configuration, Info, Eligiblez, Probes
<1>4. CASE OpenChannel(r)
  <2>1. req[r].pc = "run" /\ req[r].op = "open" /\ Goes(r, "tx", {})
    BY <1>4 DEF OpenChannel, At
  <2>2. Turned(req[r], req'[r], "tx", req[r].code, {}) => SoFar(req'[r])
    BY DEF Turned, SoFar
  <2>3. QED
    BY <2>1, <2>2, GoesOn DEF Transactions
<1>5. CASE Refuse(r)
  <2>1. req[r].pc = "tx" /\ (Says(r, 412) \/ Says(r, 422))
    BY <1>5 DEF Refuse
  <2>2. req[r].op \in Transactions
    BY <2>1, Running DEF Placed
  <2>3. Silent(req[r].op, 412) /\ Silent(req[r].op, 422)
    BY <2>2 DEF Silent, Transactions, Probes
  <2>4. QED
    BY <2>1, <2>3, SilentAnswer DEF Says
<1>6. CASE Withdraw(r)
  <2>1. req[r].pc = "run" /\ req[r].op = "withdraw" /\ (Goes(r, "tx", {}) \/ Says(r, 422))
    BY <1>6 DEF Withdraw, At
  <2>2. Turned(req[r], req'[r], "tx", req[r].code, {}) => SoFar(req'[r])
    BY DEF Turned, SoFar
  <2>3. CASE Goes(r, "tx", {})
    BY <2>1, <2>2, <2>3, GoesOn DEF Transactions
  <2>4. CASE Says(r, 422)
    BY <2>1, <2>4, SilentAnswer DEF Says, Silent
  <2>5. QED
    BY <2>1, <2>3, <2>4
<1>7. CASE Balances(r)
  <2> DEFINE read == req[r].got \cup {Cardinality(req[r].got) + 1}
  <2>1. req[r].pc = "run" /\ req[r].op = "balances" /\ (Says(r, 422) \/ Answers(r, 200, read) \/ Goes(r, "run", read))
    BY <1>7 DEF Balances, At
  <2> HIDE DEF read
  <2>2. Turned(req[r], req'[r], "run", req[r].code, read) => SoFar(req'[r])
    BY <2>1 DEF Turned, Later, SoFar, Probes
  <2>3. CASE Goes(r, "run", read)
    BY <2>1, <2>2, <2>3, GoesOn
  <2>4. CASE Says(r, 422)
    BY <2>1, <2>4, SilentAnswer DEF Says, Silent
  <2>5. CASE Answers(r, 200, read)
    <3>1. Silent("balances", 200)
      BY DEF Silent, Probes
    <3>2. QED
      BY <2>1, <2>5, <3>1, SilentAnswer
  <2>6. QED
    BY <2>1, <2>3, <2>4, <2>5
<1>8. CASE PingKey(r)
  <2>1. req[r].pc = "run" /\ req[r].op = "ping" /\ (Says(r, 422) \/ Says(r, 404) \/ Goes(r, "pinging", {}))
    BY <1>8 DEF PingKey, At
  <2>2. Turned(req[r], req'[r], "pinging", req[r].code, {}) => SoFar(req'[r])
    BY DEF Turned, SoFar
  <2>3. CASE Goes(r, "pinging", {})
    BY <2>1, <2>2, <2>3, GoesOn
  <2>4. CASE Says(r, 422) \/ Says(r, 404)
    BY <2>1, <2>4, SilentAnswer DEF Says, Silent
  <2>5. QED
    BY <2>1, <2>3, <2>4
<1>9. CASE Pinged(r)
  <2>1. req[r].pc = "pinging" /\ req[r].op = "ping"
    BY <1>9 DEF Pinged, At
  <2>2. PICK code \in {200, 404, 408, 422} : Says(r, code)
    BY <1>9 DEF Pinged
  <2>3. Silent("ping", code)
    BY <2>2 DEF Silent, Probes
  <2>4. QED
    BY <2>1, <2>2, <2>3, SilentAnswer DEF Says
<1>10. CASE FindConfigurator(r)
  <2>1. /\ req[r].pc = "run" /\ req[r].op \in {"adjust", "sconfig"}
        /\ \/ Says(r, 400) \/ Says(r, 404)
           \/ Goes(r, "configure", {}) /\ (req[r].op = "adjust" => ToSurbs(req[r].arg) # Nothing)
    BY <1>10 DEF FindConfigurator, At
  <2>2. CASE Says(r, 400) \/ Says(r, 404)
    BY <2>1, <2>2, SilentAnswer DEF Says, Silent
  <2>3. CASE Goes(r, "configure", {}) /\ (req[r].op = "adjust" => ToSurbs(req[r].arg) # Nothing)
    <3>1. Turned(req[r], req'[r], "configure", req[r].code, {}) => SoFar(req'[r])
      BY <2>3 DEF Turned, Later, SoFar
    <3>2. QED
      BY <2>1, <2>3, <3>1, GoesOn
  <2>4. QED
    BY <2>1, <2>2, <2>3
<1>11. CASE SessionConfig(r)
  <2>1. /\ req[r].pc = "configure" /\ req[r].op = "sconfig"
        /\ Answers(r, 422, {}) \/ Answers(r, 404, {}) \/ Answers(r, 200, {ToConfig(session)})
    BY <1>11 DEF SessionConfig, At, Says
  <2>2. Silent("sconfig", 422) /\ Silent("sconfig", 404) /\ Silent("sconfig", 200)
    BY DEF Silent, Probes
  <2>3. QED
    BY <2>1, <2>2, SilentAnswer
<1>12. QED
  BY <1>2, <1>4, <1>5, <1>6, <1>7, <1>8, <1>9, <1>10, <1>11

\* What a handler that looks up a channel finds is so, and is among what the
\* request has recorded.
LEMMA Lookup ==
    ASSUME IInv, NEW r \in Requests, Active(req[r]), NEW d \in Channels,
           req[r].op \notin Probes \cup {"status", "connected"}
    PROVE  /\ Live(chain[d]) => d \in req[r].ever
           /\ ~Live(chain[d]) => d \notin req[r].steady
           /\ chain[d].status = "Open" => <<"open", d>> \in req[r].ever
           /\ chain[d].status # "Open" => <<"open", d>> \notin req[r].steady
<1>1. Now(req[r]) = ChannelFacts(chain)
  BY FactsByOp DEF Now
<1>2. req[r].steady \subseteq Now(req[r]) /\ Now(req[r]) \subseteq req[r].ever
  BY Running
<1>3. QED
  BY <1>1, <1>2, ChannelFact

\* The channel a request names is one.
LEMMA TargetIsChannel ==
    ASSUME NEW q, Placed(q),
           q.op \in {"open", "close", "fund", "show"} \/ (q.op \in {"stats", "redeem"} /\ q.peer # Everyone)
    PROVE  Named(q) \in Channels
BY DEF Placed, Names, Named, Channels, Directions

LEMMA NotResolvedKeeps ==
    ASSUME IInv, NEW r \in Requests, Active(req[r]), req[r].pc # "auth", NotResolved(r),
           req[r].op \in {"close", "fund", "show"} \/ (req[r].op \in {"stats", "redeem"} /\ req[r].peer # Everyone)
    PROVE  Kept(r)
<1>1. CASE Says(r, 422)
  BY <1>1, SilentAnswer DEF Says, Silent
<1>2. CASE ~Found(r) /\ Says(r, 404)
  <2> DEFINE n == req'[r]
  <2>1. Target(r) \in Channels /\ Target(r) = Named(req[r])
    BY TargetIsChannel, Running DEF Named, Target
  <2>2. Target(r) \notin req[r].steady
    BY <1>2, <2>1, Lookup DEF Found, Probes
  <2>3. ASSUME Turned(req[r], n, "done", 404, {})
        PROVE  ChannelEarned(n) /\ ProbeEarned(n) /\ StatusEarned(n)
    <3>1. n.op = req[r].op /\ n.code = 404 /\ Named(n) = Target(r) /\ n.steady = req[r].steady
      BY <2>1, <2>3 DEF Turned, Later, Named, Target
    <3>2. QED
      BY <2>2, <3>1 DEF ChannelEarned, ProbeEarned, StatusEarned
  <2>4. QED
    BY <1>2, <2>3, Tells DEF Says
<1>3. QED
  BY <1>1, <1>2 DEF NotResolved

LEMMA ResolversKeep ==
    ASSUME IInv, NEW r \in Requests,
           ShowChannel(r) \/ ResolveForTx(r) \/ TicketStatistics(r) \/ RedeemTickets(r)
    PROVE  Kept(r)
<1> USE DEF Active
<1>1. ASSUME req[r].pc = "run", req[r].op \in {"show", "stats", "redeem"}, Found(r), NEW code, NEW got,
             Answers(r, code, got), code # 404, req[r].op = "show" => got = {Target(r)},
             req[r].peer # Everyone \/ req[r].op = "show"
      PROVE  Kept(r)
  <2> DEFINE n == req'[r]
  <2>1. Target(r) \in Channels
    BY <1>1, TargetIsChannel, Running DEF Named, Target
  <2>2. Target(r) \in req[r].ever
    BY <1>1, <2>1, Lookup DEF Found, Probes
  <2>3. ASSUME Turned(req[r], n, "done", code, got)
        PROVE  ChannelEarned(n) /\ ProbeEarned(n) /\ StatusEarned(n)
    <3>1. n.op = req[r].op /\ n.code = code /\ Named(n) = Target(r) /\ n.ever = req[r].ever /\ n.got = got
      BY <2>3 DEF Turned, Later, Named, Target
    <3>2. QED
      BY <1>1, <2>2, <3>1 DEF ChannelEarned, ProbeEarned, StatusEarned
  <2>4. QED
    BY <1>1, <2>3, Tells
<1>2. CASE ShowChannel(r)
  <2>1. req[r].pc = "run" /\ req[r].op = "show" /\ (NotResolved(r) \/ (Found(r) /\ Answers(r, 200, {Target(r)})))
    BY <1>2 DEF ShowChannel, At, Resolve
  <2>2. QED
    BY <1>1, <2>1, NotResolvedKeeps
<1>3. CASE ResolveForTx(r)
  <2>1. req[r].pc = "run" /\ req[r].op \in {"close", "fund"} /\ (NotResolved(r) \/ Goes(r, "tx", {}))
    BY <1>3 DEF ResolveForTx, At, Resolve
  <2>2. Turned(req[r], req'[r], "tx", req[r].code, {}) => SoFar(req'[r])
    BY DEF Turned, SoFar
  <2>3. QED
    BY <2>1, <2>2, GoesOn, NotResolvedKeeps DEF Transactions
<1>4. ASSUME req[r].pc = "run", req[r].op \in {"stats", "redeem"}, req[r].peer = Everyone, NEW code,
             code \in {200, 202, 422}, Says(r, code)
      PROVE  Kept(r)
  <2> DEFINE n == req'[r]
  <2>1. ASSUME Turned(req[r], n, "done", code, {})
        PROVE  ChannelEarned(n) /\ ProbeEarned(n) /\ StatusEarned(n)
    BY <1>4, <2>1 DEF Turned, Later, ChannelEarned, ProbeEarned, StatusEarned
  <2>2. QED
    BY <1>4, <2>1, Tells DEF Says
<1>5. CASE TicketStatistics(r)
  <2>1. req[r].pc = "run" /\ req[r].op = "stats"
    BY <1>5 DEF TicketStatistics, At
  <2>2. CASE req[r].peer = Everyone
    BY <1>4, <1>5, <2>1, <2>2 DEF TicketStatistics
  <2>3. CASE req[r].peer # Everyone
    <3>1. NotResolved(r) \/ (Found(r) /\ Answers(r, 200, {})) \/ Answers(r, 422, {})
      BY <1>5, <2>3 DEF TicketStatistics, Resolve, Says
    <3>2. Silent("stats", 422)
      BY DEF Silent
    <3>3. QED
      BY <1>1, <2>1, <2>3, <3>1, <3>2, NotResolvedKeeps, SilentAnswer
  <2>4. QED
    BY <2>2, <2>3
<1>6. CASE RedeemTickets(r)
  <2>1. req[r].pc = "run" /\ req[r].op = "redeem"
    BY <1>6 DEF RedeemTickets, At
  <2>2. CASE req[r].peer = Everyone
    BY <1>4, <1>6, <2>1, <2>2 DEF RedeemTickets
  <2>3. CASE req[r].peer # Everyone
    <3>1. NotResolved(r) \/ (Found(r) /\ Answers(r, 202, {}))
      BY <1>6, <2>3 DEF RedeemTickets, Says
    <3>2. QED
      BY <1>1, <2>1, <2>3, <3>1, NotResolvedKeeps
  <2>4. QED
    BY <2>2, <2>3
<1>7. QED
  BY <1>2, <1>3, <1>5, <1>6

\* Each direction of a list is true of the moment it was read.
LEMMA ListedTrue ==
    ASSUME IInv, NEW r \in Requests, Active(req[r]), req[r].op = "list", NEW dir \in Directions
    PROVE  /\ \A c \in req[r].steady \cap Channels : c[2] = dir => c \in Listed(dir, req[r].arg)
           /\ req[r].arg \/ Listed(dir, req[r].arg) \subseteq req[r].ever
           /\ req[r].arg \in BOOLEAN
<1>1. req[r].arg \in BOOLEAN
  BY Running DEF Placed
<1>2. \A c \in req[r].steady \cap Channels : Live(chain[c])
  BY Lookup DEF Probes
<1>3. \A c \in Channels : Live(chain[c]) => c \in req[r].ever
  BY Lookup DEF Probes
<1>4. CASE req[r].arg = TRUE
  BY <1>2, <1>4 DEF Listed
<1>5. CASE req[r].arg = FALSE
  BY <1>2, <1>3, <1>5 DEF Listed
<1>6. QED
  BY <1>1, <1>4, <1>5

LEMMA ListsKeep ==
    ASSUME IInv, NEW r \in Requests, ListIncoming(r) \/ ListOutgoing(r) \/ ListTopology(r)
    PROVE  Kept(r)
<1> USE DEF Active
<1> DEFINE q == req[r]
           n == req'[r]
<1>1. CASE ListIncoming(r)
  <2> DEFINE got == Listed("in", q.arg)
  <2>1. q.pc = "run" /\ q.op = "list" /\ (Says(r, 422) \/ Goes(r, "outgoing", got))
    BY <1>1 DEF ListIncoming, At
  <2>2. /\ \A c \in q.steady \cap Channels : c[2] = "in" => c \in got
        /\ q.arg \/ got \subseteq q.ever
    BY <2>1, ListedTrue DEF Directions
  <2> HIDE DEF got
  <2>3. ASSUME Turned(q, n, "outgoing", q.code, got)
        PROVE  SoFar(n)
    <3>1. n.op = "list" /\ n.pc = "outgoing" /\ n.got = got /\ n.ever = q.ever /\ n.steady = q.steady /\ n.arg = q.arg
      BY <2>1, <2>3 DEF Turned, Later
    <3>2. QED
      BY <2>2, <3>1 DEF SoFar
  <2>4. CASE Says(r, 422)
    BY <2>1, <2>4, SilentAnswer DEF Says, Silent
  <2>5. QED
    BY <2>1, <2>3, <2>4, GoesOn
<1>2. CASE ListOutgoing(r)
  <2> DEFINE out == Listed("out", q.arg)
             got == q.got \cup out
  <2>1. q.pc = "outgoing" /\ q.op = "list" /\ (Says(r, 422) \/ Answers(r, 200, got))
    BY <1>2 DEF ListOutgoing, At
  <2>2. /\ \A c \in q.steady \cap Channels : c[2] = "out" => c \in out
        /\ q.arg \/ out \subseteq q.ever
        /\ q.arg \in BOOLEAN
    BY <2>1, ListedTrue DEF Directions
  <2>3. /\ \A c \in q.steady \cap Channels : c[2] = "in" => c \in q.got
        /\ q.arg \/ q.got \subseteq q.ever
    BY <2>1, Running DEF SoFar
  <2>4. \A c \in Channels : c[2] \in {"in", "out"}
    BY DEF Channels, Directions
  <2> HIDE DEF out
  <2>5. q.steady \cap Channels \subseteq got /\ (q.arg \/ got \subseteq q.ever)
    BY <2>2, <2>3, <2>4
  <2> HIDE DEF got
  <2>6. ASSUME Turned(q, n, "done", 200, got)
        PROVE  ChannelEarned(n) /\ ProbeEarned(n) /\ StatusEarned(n)
    <3>1. n.op = "list" /\ n.got = got /\ n.ever = q.ever /\ n.steady = q.steady /\ n.arg = q.arg
      BY <2>1, <2>6 DEF Turned, Later
    <3>2. QED
      BY <2>5, <3>1 DEF ChannelEarned, ProbeEarned, StatusEarned
  <2>7. CASE Says(r, 422)
    BY <2>1, <2>7, SilentAnswer DEF Says, Silent
  <2>8. QED
    BY <2>1, <2>6, <2>7, Tells
<1>3. CASE ListTopology(r)
  <2>1. req[r].pc = "run" /\ req[r].op = "full"
    BY <1>3 DEF ListTopology, At
  <2>2. Answers(r, 422, {}) \/ Answers(r, 200, {c \in Channels : chain[c] # NoChannel})
    BY <1>3 DEF ListTopology, Says
  <2>3. CASE Answers(r, 422, {})
    BY <2>1, <2>3, SilentAnswer DEF Silent
  <2>4. CASE Answers(r, 200, {c \in Channels : chain[c] # NoChannel})
    <3> DEFINE got == {c \in Channels : chain[c] # NoChannel}
    <3>1. \A c \in req[r].steady \cap Channels : Live(chain[c])
      BY <2>1, Lookup DEF Probes
    <3>2. \A c \in Channels : Live(chain[c]) => chain[c] # NoChannel
      BY DEF Live, NoChannel
    <3>3. req[r].steady \cap Channels \subseteq got
      BY <3>1, <3>2
    <3> HIDE DEF got
    <3>4. ASSUME Turned(req[r], req'[r], "done", 200, got)
          PROVE  ChannelEarned(req'[r]) /\ ProbeEarned(req'[r]) /\ StatusEarned(req'[r])
      <4>1. req'[r].op = "full" /\ req'[r].got = got /\ req'[r].steady = req[r].steady
        BY <2>1, <3>4 DEF Turned, Later
      <4>2. QED
        BY <3>3, <4>1 DEF ChannelEarned, ProbeEarned, StatusEarned
    <3>5. QED
      BY <2>1, <2>4, <3>4, Tells DEF got
  <2>5. QED
    BY <2>2, <2>3, <2>4
<1>4. QED
  BY <1>1, <1>2, <1>3

\* The confirmation is of a transaction that was seen.
LEMMA ConfirmKeeps ==
    ASSUME IInv, NEW r \in Requests, Confirm(r)
    PROVE  Kept(r)
<1> USE DEF Active
<1> DEFINE q == req[r]
           n == req'[r]
<1>1. q.pc = "mined" /\ q.op \in Transactions
  BY Running DEF Confirm, Placed
<1>2. CASE Says(r, 422)
  BY <1>1, <1>2, SilentAnswer DEF Says, Silent
<1>3. ASSUME NEW code, code = IF q.op = "open" THEN 201 ELSE 200, Says(r, code)
      PROVE  Kept(r)
  <2>1. ASSUME Turned(q, n, "done", code, {})
        PROVE  ChannelEarned(n) /\ ProbeEarned(n) /\ StatusEarned(n)
    <3>1. n.op = q.op /\ n.code = code /\ Named(n) = Named(q) /\ n.ever = q.ever /\ n.steady = q.steady /\ n.got = {}
      BY <2>1 DEF Turned, Later, Named
    <3>2. SoFar(q)
      BY <1>1, Running
    <3>3. QED
      BY <1>1, <1>3, <3>1, <3>2 DEF SoFar, ChannelEarned, ProbeEarned, StatusEarned, Transactions
  <2>2. QED
    BY <1>1, <1>3, <2>1, Tells DEF Says
<1>4. QED
  BY <1>2, <1>3 DEF Confirm

LEMMA PeersKeep ==
    ASSUME IInv, NEW r \in Requests,
           ConnectedEdges(r) \/ ConnectedNames(r) \/ PeerKey(r) \/ PeerChannels(r)
    PROVE  Kept(r)
<1> USE DEF Active
<1> DEFINE q == req[r]
           n == req'[r]
<1>1. CASE ConnectedEdges(r)
  <2>1. q.pc = "run" /\ q.op = "connected" /\ Goes(r, "names", view.connected)
    BY <1>1 DEF ConnectedEdges, At
  <2>2. view.connected \subseteq q.ever
    BY <2>1, Running, FactsByOp DEF Now
  <2>3. Turned(q, n, "names", q.code, view.connected) => SoFar(n)
    BY <2>1, <2>2 DEF Turned, Later, SoFar
  <2>4. QED
    BY <2>1, <2>3, GoesOn
<1>2. CASE ConnectedNames(r)
  <2> DEFINE got == q.got \cap view.known
  <2>1. q.pc = "names" /\ q.op = "connected" /\ Answers(r, 200, got)
    BY <1>2 DEF ConnectedNames, At
  <2>2. got \subseteq q.ever
    BY <2>1, Running DEF SoFar
  <2> HIDE DEF got
  <2>3. Turned(q, n, "done", 200, got) => ChannelEarned(n) /\ ProbeEarned(n) /\ StatusEarned(n)
    BY <2>1, <2>2 DEF Turned, Later, ChannelEarned, ProbeEarned, StatusEarned
  <2>4. QED
    BY <2>1, <2>3, Tells
<1>3. CASE PeerKey(r)
  <2>1. q.pc = "run" /\ q.op = "peer" /\ (Says(r, 404) \/ Says(r, 422) \/ Goes(r, "outgoing", {}))
    BY <1>3 DEF PeerKey, At
  <2>2. Turned(q, n, "outgoing", q.code, {}) => SoFar(n)
    BY <2>1 DEF Turned, Later, SoFar
  <2>3. CASE Goes(r, "outgoing", {})
    BY <2>1, <2>2, <2>3, GoesOn
  <2>4. CASE Says(r, 404) \/ Says(r, 422)
    BY <2>1, <2>4, SilentAnswer DEF Says, Silent
  <2>5. QED
    BY <2>1, <2>3, <2>4
<1>4. CASE PeerChannels(r)
  <2> DEFINE c == <<q.peer, IF q.pc = "outgoing" THEN "out" ELSE "in">>
  <2>1. q.op = "peer" /\ q.pc \in {"outgoing", "incoming"}
    BY <1>4 DEF PeerChannels
  <2>2. c \in Channels
    BY <2>1, Running DEF Placed, Names, Named, Channels, Directions
  <2>3. PICK shown \in {{}, IF Live(chain[c]) THEN {c} ELSE {}} :
            IF q.pc = "outgoing" THEN Goes(r, "incoming", shown) ELSE Answers(r, 200, q.got \cup shown)
    BY <1>4 DEF PeerChannels
  <2>4. shown \subseteq q.ever
    BY <2>1, <2>2, <2>3, Lookup DEF Probes
  <2> HIDE DEF c
  <2>5. CASE q.pc = "outgoing"
    <3>1. Turned(q, n, "incoming", q.code, shown) => SoFar(n)
      BY <2>1, <2>4 DEF Turned, Later, SoFar
    <3>2. QED
      BY <2>3, <2>5, <3>1, GoesOn
  <2>6. CASE q.pc = "incoming"
    <3> DEFINE got == q.got \cup shown
    <3>1. Answers(r, 200, got)
      BY <2>3, <2>6
    <3>2. got \subseteq q.ever
      BY <2>1, <2>4, <2>6, Running DEF SoFar
    <3> HIDE DEF got
    <3>3. Turned(q, n, "done", 200, got) => ChannelEarned(n) /\ ProbeEarned(n) /\ StatusEarned(n)
      BY <2>1, <3>2 DEF Turned, Later, ChannelEarned, ProbeEarned, StatusEarned
    <3>4. QED
      BY <2>6, <3>1, <3>3, Tells
  <2>7. QED
    BY <2>1, <2>5, <2>6
<1>5. QED
  BY <1>1, <1>2, <1>3, <1>4

-----------------------------------------------------------------------------
LEMMA TwoMembers ==
    ASSUME NEW a, NEW b, a # b
    PROVE  Cardinality({a, b}) = 2 /\ IsFiniteSet({a, b})
<1>1. Cardinality({a}) = 1 /\ IsFiniteSet({a})
  BY FS_Singleton
<1>2. {a, b} = {a} \cup {b} /\ b \notin {a}
  OBVIOUS
<1>3. QED
  BY <1>1, <1>2, FS_AddElement

LEMMA ThreeMembers ==
    ASSUME NEW a, NEW b, NEW c, a # b, a # c, b # c
    PROVE  Cardinality({a, b, c}) = 3
<1>1. Cardinality({a, b}) = 2 /\ IsFiniteSet({a, b})
  BY TwoMembers
<1>2. {a, b, c} = {a, b} \cup {c} /\ c \notin {a, b}
  OBVIOUS
<1>3. QED
  BY <1>1, <1>2, FS_AddElement

\* The probe's next condition, by how far it is.
LEMMA NextNeed ==
    ASSUME NEW q, SoFar(q), q.op \in Probes, q.pc = "run"
    PROVE  LET n == Cardinality(q.got) + 1
           IN  \/ q.op = "startedz" /\ q.got = {} /\ Needs(q.op)[n] = "running" /\ n = Len(Needs(q.op))
               \/ q.op = "healthyz" /\ q.got = {} /\ Needs(q.op)[n] = "running" /\ n # Len(Needs(q.op))
               \/ q.op = "healthyz" /\ q.got = {"running"} /\ Needs(q.op)[n] = "connected" /\ n = Len(Needs(q.op))
               \/ q.op = "readyz" /\ q.got = {} /\ Needs(q.op)[n] = "running" /\ n # Len(Needs(q.op))
               \/ q.op = "readyz" /\ q.got = {"running"} /\ Needs(q.op)[n] = "connected" /\ n # Len(Needs(q.op))
               \/ /\ q.op = "readyz" /\ q.got = {"running", "connected"}
                  /\ Needs(q.op)[n] = "available" /\ n = Len(Needs(q.op))
<1> DEFINE n == Cardinality(q.got) + 1
<1>1. /\ q.got = {} => n = 1
      /\ q.got = {"running"} => n = 2
      /\ q.got = {"running", "connected"} => n = 3
  <2>1. Cardinality({}) = 0 /\ Cardinality({"running"}) = 1
    BY FS_EmptySet, FS_Singleton
  <2>2. Cardinality({"running", "connected"}) = 2
    <3>1. "running" # "connected"
      OBVIOUS
    <3>2. QED
      BY <3>1, TwoMembers
  <2>3. QED
    BY <2>1, <2>2
<1> HIDE DEF n
<1>2. CASE q.op = "startedz"
  <2>1. q.got = {} /\ Needs(q.op) = <<"running">>
    BY <1>2 DEF SoFar, Needs, Probes
  <2>2. n = 1 /\ Needs(q.op)[n] = "running" /\ n = Len(Needs(q.op))
    BY <1>1, <2>1
  <2>3. QED
    BY <1>2, <2>1, <2>2 DEF n
<1>3. CASE q.op = "healthyz"
  <2>1. (q.got = {} \/ q.got = {"running"}) /\ Needs(q.op) = <<"running", "connected">>
    BY <1>3 DEF SoFar, Needs, Probes
  <2>2. q.got = {} => n = 1 /\ Needs(q.op)[n] = "running" /\ n # Len(Needs(q.op))
    BY <1>1, <2>1
  <2>3. q.got = {"running"} => n = 2 /\ Needs(q.op)[n] = "connected" /\ n = Len(Needs(q.op))
    BY <1>1, <2>1
  <2>4. QED
    BY <1>3, <2>1, <2>2, <2>3 DEF n
<1>4. CASE q.op = "readyz"
  <2>1. /\ q.got = {} \/ q.got = {"running"} \/ q.got = {"running", "connected"}
        /\ Needs(q.op) = <<"running", "connected", "available">>
    BY <1>4 DEF SoFar, Needs, Probes
  <2>2. q.got = {} => n = 1 /\ Needs(q.op)[n] = "running" /\ n # Len(Needs(q.op))
    BY <1>1, <2>1
  <2>3. q.got = {"running"} => n = 2 /\ Needs(q.op)[n] = "connected" /\ n # Len(Needs(q.op))
    BY <1>1, <2>1
  <2>4. q.got = {"running", "connected"} => n = 3 /\ Needs(q.op)[n] = "available" /\ n = Len(Needs(q.op))
    BY <1>1, <2>1
  <2>5. QED
    BY <1>4, <2>1, <2>2, <2>3, <2>4 DEF n
<1>5. QED
  BY <1>2, <1>3, <1>4 DEF Probes

LEMMA CheckKeeps ==
    ASSUME IInv, NEW r \in Requests, Check(r)
    PROVE  Kept(r)
<1> USE DEF Active
<1> DEFINE q == req[r]
           n == req'[r]
           k == Cardinality(q.got) + 1
           need == Needs(q.op)[k]
           got == q.got \cup {need}
<1>1. /\ q.pc = "run" /\ q.op \in Probes
      /\ \/ need \notin NodeFacts(view) /\ Answers(r, 412, {})
         \/ need \in NodeFacts(view) /\ k = Len(Needs(q.op)) /\ Answers(r, 200, got)
         \/ need \in NodeFacts(view) /\ k # Len(Needs(q.op)) /\ Goes(r, "run", got)
  BY DEF Check, Says, Probes
<1>2. /\ SoFar(q) /\ q.got \subseteq q.ever
      /\ q.steady \subseteq NodeFacts(view) /\ NodeFacts(view) \subseteq q.ever
  <2>1. SoFar(req[r]) /\ req[r].steady \subseteq Now(req[r]) /\ Now(req[r]) \subseteq req[r].ever
    BY <1>1, Running
  <2>2. Now(req[r]) = NodeFacts(view)
    BY <1>1, FactsByOp DEF Now
  <2>3. q.got \subseteq q.ever
    BY <1>1, <2>1 DEF SoFar
  <2>4. QED
    BY <2>1, <2>2, <2>3
<1>3. \/ q.op = "startedz" /\ q.got = {} /\ need = "running" /\ k = Len(Needs(q.op))
      \/ q.op = "healthyz" /\ q.got = {} /\ need = "running" /\ k # Len(Needs(q.op))
      \/ q.op = "healthyz" /\ q.got = {"running"} /\ need = "connected" /\ k = Len(Needs(q.op))
      \/ q.op = "readyz" /\ q.got = {} /\ need = "running" /\ k # Len(Needs(q.op))
      \/ q.op = "readyz" /\ q.got = {"running"} /\ need = "connected" /\ k # Len(Needs(q.op))
      \/ q.op = "readyz" /\ q.got = {"running", "connected"} /\ need = "available" /\ k = Len(Needs(q.op))
  BY <1>1, <1>2, NextNeed
<1> HIDE DEF k, need
<1>4. CASE need \notin NodeFacts(view) /\ Answers(r, 412, {})
  <2>1. Turned(q, n, "done", 412, {}) => ChannelEarned(n) /\ ProbeEarned(n) /\ StatusEarned(n)
    BY <1>2, <1>3, <1>4 DEF Turned, Later, ChannelEarned, ProbeEarned, StatusEarned
  <2>2. QED
    BY <1>1, <1>4, <2>1, Tells
<1>5. CASE need \in NodeFacts(view) /\ k = Len(Needs(q.op)) /\ Answers(r, 200, got)
  <2>1. Turned(q, n, "done", 200, got) => ChannelEarned(n) /\ ProbeEarned(n) /\ StatusEarned(n)
    BY <1>2, <1>3, <1>5 DEF Turned, Later, ChannelEarned, ProbeEarned, StatusEarned
  <2>2. QED
    BY <1>1, <1>5, <2>1, Tells
<1>6. CASE need \in NodeFacts(view) /\ k # Len(Needs(q.op)) /\ Goes(r, "run", got)
  <2>1. /\ got \subseteq q.ever
        /\ \/ q.op \in {"healthyz", "readyz"} /\ got = {"running"}
           \/ q.op = "readyz" /\ got = {"running", "connected"}
    BY <1>2, <1>3, <1>6
  <2> HIDE DEF got
  <2>2. Turned(q, n, "run", q.code, got) => SoFar(n)
    BY <1>1, <2>1 DEF Turned, Later, SoFar, Probes
  <2>3. QED
    BY <1>1, <1>6, <2>2, GoesOn
<1>7. QED
  BY <1>1, <1>4, <1>5, <1>6

-----------------------------------------------------------------------------
\* Reading one more component keeps what is known of the components read.
LEMMA StatusRead ==
    ASSUME IInv, NEW r \in Requests, req[r].op = "status", req[r].pc = "run", NEW c \in Components
    PROVE  /\ view.status[c] \in ComponentStatuses
           /\ <<c, view.status[c]>> \in req[r].ever
           /\ \A s \in ComponentStatuses : <<c, s>> \in req[r].steady => s = view.status[c]
<1>1. view.status[c] \in ComponentStatuses
  BY DEF IInv, TypeOK
<1>2. Now(req[r]) = StatusFacts(view)
  BY FactsByOp DEF Now
<1>3. req[r].steady \subseteq Now(req[r]) /\ Now(req[r]) \subseteq req[r].ever
  BY Running DEF Active
<1>4. QED
  BY <1>1, <1>2, <1>3 DEF StatusFacts

LEMMA StatusKeeps ==
    ASSUME IInv, NEW r \in Requests, NodeStatus(r)
    PROVE  Kept(r)
<1> USE DEF Active
<1> DEFINE q == req[r]
           n == req'[r]
           component == ReadOrder[Cardinality(q.got) + 1]
           read == q.got \cup {<<component, view.status[component]>>}
           told == read \cup {<<"overall", Overall({p[2] : p \in read})>>}
<1>1. /\ q.pc = "run" /\ q.op = "status"
      /\ IF Cardinality(read) < 3 THEN Goes(r, "run", read) ELSE Answers(r, 200, told)
  BY DEF NodeStatus, At
<1>2. ReadSoFar(q)
  BY <1>1, Running DEF SoFar
<1>3. \A c \in Components :
          /\ view.status[c] \in ComponentStatuses
          /\ <<c, view.status[c]>> \in q.ever
          /\ \A s \in ComponentStatuses : <<c, s>> \in q.steady => s = view.status[c]
  BY <1>1, StatusRead
<1>4. ReadOrder[1] = "chain" /\ ReadOrder[2] = "network" /\ ReadOrder[3] = "transport"
  BY DEF ReadOrder
<1>5. CASE q.got = {}
  <2>0. Cardinality(q.got) = 0
    BY <1>5, FS_EmptySet
  <2>1. component = "chain" /\ read = {<<"chain", view.status["chain"]>>} /\ Cardinality(read) = 1
    <3>1. Cardinality(q.got) + 1 = 1
      BY <2>0
    <3>2. component = "chain"
      BY <1>4, <3>1
    <3>3. read = {<<"chain", view.status["chain"]>>}
      BY <1>5, <3>2
    <3> HIDE DEF read
    <3>4. QED
      BY <3>2, <3>3, FS_Singleton
  <2> HIDE DEF component, read
  <2>2. Turned(q, n, "run", q.code, read) => ReadSoFar(n)
    BY <1>3, <2>1 DEF Turned, Later, ReadSoFar, Components
  <2>3. Turned(q, n, "run", q.code, read) => SoFar(n)
    BY <1>1, <2>2 DEF Turned, Later, SoFar, Probes
  <2>4. QED
    BY <1>1, <2>1, <2>3, GoesOn
<1>6. ASSUME NEW a \in ComponentStatuses, q.got = {<<"chain", a>>}
      PROVE  Kept(r)
  <2>1. Cardinality(q.got) = 1
    BY <1>6, FS_Singleton
  <2>2. component = "network" /\ read = {<<"chain", a>>, <<"network", view.status["network"]>>}
    BY <1>4, <1>6, <2>1
  <2>3. Cardinality(read) = 2
    <3> DEFINE x == <<"chain", a>>
               y == <<"network", view.status["network"]>>
    <3>1. x # y /\ read = {x, y}
      BY <2>2
    <3> HIDE DEF x, y, read
    <3>2. QED
      BY <3>1, TwoMembers
  <2> HIDE DEF component, read
  <2>4. Turned(q, n, "run", q.code, read) => ReadSoFar(n)
    BY <1>2, <1>3, <1>6, <2>2 DEF Turned, Later, ReadSoFar, Components
  <2>5. Turned(q, n, "run", q.code, read) => SoFar(n)
    BY <1>1, <2>4 DEF Turned, Later, SoFar, Probes
  <2>6. QED
    BY <1>1, <2>3, <2>5, GoesOn
<1>7. ASSUME NEW a \in ComponentStatuses, NEW b \in ComponentStatuses, q.got = {<<"chain", a>>, <<"network", b>>}
      PROVE  Kept(r)
  <2> DEFINE d == view.status["transport"]
             all == {<<"chain", a>>, <<"network", b>>, <<"transport", d>>}
             overall == Overall({a, b, d})
  <2>1. /\ <<"chain", a>> # <<"network", b>> /\ <<"chain", a>> # <<"transport", d>>
        /\ <<"network", b>> # <<"transport", d>>
    OBVIOUS
  <2>2. Cardinality(q.got) = 2 /\ Cardinality(all) = 3
    <3> DEFINE x == <<"chain", a>>
               y == <<"network", b>>
               z == <<"transport", d>>
    <3>1. x # y /\ x # z /\ y # z /\ q.got = {x, y} /\ all = {x, y, z}
      BY <1>7, <2>1
    <3> HIDE DEF x, y, z, all
    <3>2. Cardinality({x, y}) = 2
      BY <3>1, TwoMembers
    <3>3. Cardinality({x, y, z}) = 3
      BY <3>1, ThreeMembers
    <3>4. QED
      BY <3>1, <3>2, <3>3
  <2>3. component = "transport" /\ read = all
    <3>1. Cardinality(q.got) + 1 = 3
      BY <2>2
    <3>2. component = "transport"
      BY <1>4, <3>1
    <3>3. QED
      BY <1>7, <3>2
  <2>4. {p[2] : p \in all} = {a, b, d}
    OBVIOUS
  <2>5. told = all \cup {<<"overall", overall>>} /\ Answers(r, 200, told)
    BY <1>1, <2>2, <2>3, <2>4
  <2>6. d \in ComponentStatuses /\ all \subseteq q.ever
    BY <1>2, <1>3, <1>7 DEF ReadSoFar, Components
  <2>7. \A c \in Components, s \in ComponentStatuses : <<c, s>> \in q.steady => <<c, s>> \in all
    <3>1. \A s \in ComponentStatuses : <<"chain", s>> \in q.steady => s = a
      BY <1>2, <1>7 DEF ReadSoFar, Components
    <3>2. \A s \in ComponentStatuses : <<"network", s>> \in q.steady => s = b
      BY <1>2, <1>7 DEF ReadSoFar, Components
    <3>3. \A s \in ComponentStatuses : <<"transport", s>> \in q.steady => s = d
      BY <1>3 DEF Components
    <3>4. QED
      BY <3>1, <3>2, <3>3 DEF Components
  <2> HIDE DEF component, read
  <2>8. (CHOOSE p \in told : p[1] = "overall") = <<"overall", overall>>
    <3>1. \A p \in told : p[1] = "overall" <=> p = <<"overall", overall>>
      <4> HIDE DEF overall, d
      <4>1. \A p \in all : p[1] \in {"chain", "network", "transport"}
        OBVIOUS
      <4>2. <<"overall", overall>>[1] = "overall"
        OBVIOUS
      <4>3. \A p \in told : p \in all \/ p = <<"overall", overall>>
        BY <2>5
      <4> HIDE DEF told, all
      <4>4. QED
        BY <4>1, <4>2, <4>3
    <3>2. <<"overall", overall>> \in told
      BY <2>5
    <3> HIDE DEF told
    <3>3. QED
      BY <3>1, <3>2
  <2> HIDE DEF told
  <2>9. /\ overall \in {a, b, d}
        /\ overall = "Ready" => a = "Ready" /\ b = "Ready" /\ d = "Ready"
        /\ "Unavailable" \in {a, b, d} => overall = "Unavailable"
        /\ "Degraded" \in {a, b, d} => overall \in {"Unavailable", "Degraded"}
    <3> HIDE DEF d
    <3>1. QED
      BY <2>6 DEF Overall, ComponentStatuses
  <2> HIDE DEF overall, d
  <2>10. /\ \E c \in Components : <<c, overall>> \in q.ever
         /\ overall = "Ready" => \A c \in Components : <<c, "Ready">> \in q.ever
    BY <2>6, <2>9 DEF Components
  <2>11. ASSUME NEW c \in Components, NEW s \in ComponentStatuses, <<c, s>> \in q.steady
         PROVE  s \in {a, b, d}
    BY <2>7, <2>11
  <2>12. /\ (\E c \in Components : <<c, "Unavailable">> \in q.steady) => overall = "Unavailable"
         /\ (\E c \in Components : <<c, "Degraded">> \in q.steady) => overall \in {"Unavailable", "Degraded"}
    BY <2>9, <2>11 DEF ComponentStatuses
  <2>13. ASSUME Turned(q, n, "done", 200, told)
         PROVE  ChannelEarned(n) /\ ProbeEarned(n) /\ StatusEarned(n)
    <3>1. n.op = "status" /\ n.got = told /\ n.ever = q.ever /\ n.steady = q.steady
      BY <1>1, <2>13 DEF Turned, Later
    <3>2. (CHOOSE p \in n.got : p[1] = "overall")[2] = overall
      <4> DEFINE last == CHOOSE p \in n.got : p[1] = "overall"
      <4>1. last = <<"overall", overall>>
        BY <2>8, <3>1
      <4> HIDE DEF last
      <4>2. last[2] = overall
        BY <4>1
      <4>3. QED
        BY <4>2 DEF last
    <3>3. StatusEarned(n)
      BY <2>10, <2>12, <3>1, <3>2 DEF StatusEarned
    <3>4. QED
      BY <3>1, <3>3 DEF ChannelEarned, ProbeEarned
  <2>14. QED
    BY <1>1, <2>5, <2>13, Tells
<1>8. QED
  BY <1>2, <1>5, <1>6, <1>7 DEF ReadSoFar

\* The settings a Session is given are settings.
LEMMA SettingsGiven ==
    ASSUME NEW c, IsConfig(c), ToSurbs(c) # Nothing
    PROVE  ToSurbs(c) \in [target : Nat, rate : Nat] /\ ToSurbs(c).target >= 2
<1>1. Mtu \in Nat \ {0} /\ SurbBits \in Nat \ {0}
  BY UnitsArePositive
<1>2. CASE c.buffer = Nothing
  BY <1>2 DEF ToSurbs, DefaultSurbs
<1>3. CASE c.buffer # Nothing
  <2> DEFINE t == c.buffer \div Mtu
             u == IF c.upstream = Nothing THEN DefaultSurbs.rate ELSE c.upstream \div SurbBits
  <2>1. c.buffer \in Nat /\ c.buffer >= 2 * Mtu /\ ToSurbs(c) = [target |-> t, rate |-> u]
    BY <1>3 DEF IsConfig, ToSurbs, SmallestBuffer
  <2>2. t \in Nat /\ t >= 2
    BY <1>1, <2>1
  <2>3. u \in Nat
    BY <1>1 DEF IsConfig, DefaultSurbs
  <2> HIDE DEF t, u
  <2>4. QED
    BY <2>1, <2>2, <2>3
<1>4. QED
  BY <1>2, <1>3

\* Writing a size with one decimal moves it by less than a twentieth and a byte.
LEMMA DisplayedNear ==
    ASSUME NEW b \in Nat \ {0}
    PROVE  Displayed(b) \in Nat /\ 20 * Displayed(b) <= 21 * b /\ 20 * Displayed(b) + 20 > 19 * b
<1> DEFINE u == UnitOf(b)
           up == (20 * b + u) \div (2 * u)
           rest == (20 * b + u) % (2 * u)
           t == Tenths(b, u)
<1>1. u \in Nat \ {0} /\ u <= b
  BY DEF UnitOf, KiB, MiB, GiB
<1>2. CASE u = 1
  BY <1>2 DEF Displayed
<1>3. CASE u # 1
  <2>1. Displayed(b) = (t * u) \div 10
    BY <1>3 DEF Displayed
  <2>2. u \in {1024, 1024 * 1024, 1024 * 1024 * 1024}
    BY <1>3 DEF UnitOf, KiB, MiB, GiB
  <2>3. /\ up \in Nat /\ rest \in Nat /\ rest < 2 * u
        /\ 20 * b + u = 2 * (u * up) + rest
    <3> HIDE DEF u
    <3>1. QED
      BY <2>2, <1>1
  <2>4. t = IF rest = 0 /\ up % 2 = 1 THEN up - 1 ELSE up
    BY DEF Tenths
  <2> HIDE DEF u, t, up, rest
  <2>5. t \in Nat /\ 2 * (t * u) <= 20 * b + u /\ 2 * (t * u) >= 20 * b - u
    <3>1. CASE rest = 0 /\ up % 2 = 1
      <4>1. up >= 1 /\ t = up - 1
        BY <2>3, <2>4, <3>1
      <4>2. t \in Nat /\ t * u = u * up - u
        BY <1>1, <2>3, <4>1, <2>2
      <4>3. QED
        BY <1>1, <2>2, <2>3, <3>1, <4>2
    <3>2. CASE ~(rest = 0 /\ up % 2 = 1)
      <4>1. t = up /\ t * u = u * up
        BY <1>1, <2>3, <2>4, <3>2
      <4>2. QED
        BY <1>1, <2>2, <2>3, <4>1
    <3>3. QED
      BY <3>1, <3>2
  <2> DEFINE tu == t * u
  <2>6. tu \in Nat
    BY <1>1, <2>5, <2>2
  <2> HIDE DEF tu
  <2>7. 2 * tu <= 20 * b + u /\ 2 * tu >= 20 * b - u /\ Displayed(b) = tu \div 10
    BY <2>1, <2>5 DEF tu
  <2>8. QED
    BY <1>1, <2>6, <2>7
<1>4. QED
  BY <1>2, <1>3

\* Reading settings and posting them again keeps the rate, and the buffer within
\* a twentieth and a SURB; only the smallest buffer can be refused.
LEMMA SettingsReturn ==
    ASSUME NEW surbs \in [target : Nat, rate : Nat], surbs.target >= 2
    PROVE  LET back == ToSurbs(ToConfig(surbs))
           IN  /\ back = Nothing => surbs.target = 2
               /\ back # Nothing => /\ back.rate = surbs.rate
                                    /\ 20 * back.target <= 21 * surbs.target
                                    /\ 20 * (back.target + 1) > 19 * surbs.target
<1> DEFINE g == surbs.target
           b == g * Mtu
           d == Displayed(b)
           u == surbs.rate * SurbBits
           c == ToConfig(surbs)
           k == d \div Mtu
<1>1. Mtu \in Nat \ {0} /\ SurbBits \in Nat \ {0} /\ g \in Nat /\ g >= 2 /\ surbs.rate \in Nat
  BY UnitsArePositive
<1>2. b \in Nat \ {0} /\ u \in Nat
  BY <1>1
<1>3. u \div SurbBits = surbs.rate
  BY <1>1
<1>4. c.buffer = d /\ c.upstream = u
  BY DEF ToConfig
<1> HIDE DEF d, u, c
<1>5. d \in Nat /\ 20 * d <= 21 * b /\ 20 * d + 20 > 19 * b
  BY <1>2, DisplayedNear DEF d
<1>6. d # Nothing /\ u # Nothing
  BY <1>2, <1>5, NothingIsNoNumber
<1>7. CASE d >= 2 * Mtu
  <2>1. ToSurbs(c) = [target |-> k, rate |-> surbs.rate]
    BY <1>3, <1>4, <1>6, <1>7 DEF ToSurbs, SmallestBuffer
  <2>2. k \in Nat /\ Mtu * k <= d /\ d < Mtu * (k + 1)
    BY <1>1, <1>5
  <2> HIDE DEF k
  <2>3. 20 * k <= 21 * g
    <3>1. SUFFICES ASSUME 20 * k >= 21 * g + 1 PROVE FALSE
      BY <1>1, <2>2
    <3>2. Mtu * (20 * k) >= Mtu * (21 * g + 1)
      BY <1>1, <2>2, <3>1
    <3>3. Mtu * (20 * k) = 20 * (Mtu * k) /\ Mtu * (21 * g + 1) = 21 * b + Mtu
      BY <1>1, <2>2
    <3> HIDE DEF b
    <3>4. QED
      BY <1>1, <1>2, <1>5, <2>2, <3>2, <3>3
  <2>4. 20 * (k + 1) > 19 * g
    <3>1. SUFFICES ASSUME 20 * (k + 1) <= 19 * g PROVE FALSE
      BY <1>1, <2>2
    <3>2. Mtu * (20 * (k + 1)) <= Mtu * (19 * g)
      BY <1>1, <2>2, <3>1
    <3>3. Mtu * (20 * (k + 1)) = 20 * (Mtu * (k + 1)) /\ Mtu * (19 * g) = 19 * b
      BY <1>1, <2>2
    <3> DEFINE m == Mtu * (k + 1)
    <3>4. m \in Nat /\ d + 1 <= m
      BY <1>1, <1>5, <2>2
    <3> HIDE DEF b, m
    <3>5. 20 * m <= 19 * b
      BY <3>2, <3>3 DEF m
    <3>6. QED
      BY <1>2, <1>5, <3>4, <3>5
  <2>5. ToSurbs(c).target = k /\ ToSurbs(c).rate = surbs.rate /\ ToSurbs(c) # Nothing
    <3>1. ToSurbs(c) \in [target : Nat, rate : Nat]
      BY <1>1, <2>1, <2>2
    <3>2. QED
      BY <2>1, <3>1, NothingIsNoNumber
  <2>6. QED
    BY <2>3, <2>4, <2>5 DEF c
<1>8. CASE ~(d >= 2 * Mtu)
  <2>1. ToSurbs(c) = Nothing
    BY <1>4, <1>6, <1>8 DEF ToSurbs, SmallestBuffer
  <2>2. g = 2
    <3>1. SUFFICES ASSUME g >= 3 PROVE FALSE
      BY <1>1
    <3>2. b >= 3 * Mtu
      BY <1>1, <3>1
    <3>3. d <= 2 * Mtu - 1
      BY <1>1, <1>5, <1>8
    <3> HIDE DEF b
    <3>4. QED
      BY <1>1, <1>2, <1>5, <3>2, <3>3
  <2>3. QED
    BY <2>1, <2>2 DEF c
<1>9. QED
  BY <1>7, <1>8

-----------------------------------------------------------------------------
(***************************************************************************)
(* The node's own state.                                                   *)
(***************************************************************************)
ChannelStates == [status : Statuses, stake : 0 .. MaxStake]
WellFormed(c) == c \in ChannelStates /\ (Live(c) <=> c.stake > 0)

NodeTyped ==
    /\ scene \in Scenes
    /\ chain \in [Channels -> ChannelStates]
    /\ \A c \in Channels : Live(chain[c]) <=> chain[c].stake > 0
    /\ funds \subseteq Currencies
    /\ view \in [running : BOOLEAN, health : {"Red", "Orange"}, status : [Components -> ComponentStatuses],
                 known : SUBSET Peers, connected : SUBSET Peers]
    /\ session = NoSession \/ (session \in [target : Nat, rate : Nat] /\ session.target >= 2)
    /\ redeeming \subseteq Peers \cup {Everyone}

Served ==
    /\ req = [r \in Requests |-> req[r]]
    /\ \A r \in Requests : Sound(req[r], Now(req[r])) /\ (req[r] = Unserved \/ req[r].op \in scene.ops)

LEMMA Parts == IInv <=> NodeTyped /\ Served
BY DEF IInv, TypeOK, NodeTyped, Served, ChannelStates

\* A transaction leaves a channel well formed.
LEMMA OnwardsWellFormed ==
    ASSUME NEW c, WellFormed(c), NEW to \in Onwards(c)
    PROVE  WellFormed(to)
<1> USE DEF WellFormed, ChannelStates, Live, Statuses, MaxStake
<1>1. CASE to \in Opened(c)
  BY <1>1 DEF Opened
<1>2. CASE to \in Funded(c)
  <2>1. c.status = "Open" /\ c.stake \in 0 .. 1 /\ to = [c EXCEPT !.stake = c.stake + 1]
    BY <1>2 DEF Funded
  <2>2. to \in ChannelStates /\ to.status = "Open" /\ to.stake = c.stake + 1
    BY <2>1
  <2>3. QED
    BY <2>1, <2>2
<1>3. CASE to \in ClosedByDestination(c)
  BY <1>3 DEF ClosedByDestination
<1>4. CASE to \in ClosedBySource(c)
  <2>1. CASE c.status = "Open"
    <3>1. to = [c EXCEPT !.status = "PendingToClose"] /\ c.stake > 0
      BY <1>4, <2>1 DEF ClosedBySource
    <3>2. to \in ChannelStates /\ to.status = "PendingToClose" /\ to.stake = c.stake
      BY <3>1
    <3>3. QED
      BY <3>1, <3>2
  <2>2. CASE c.status # "Open"
    BY <1>4, <2>2 DEF ClosedBySource
  <2>3. QED
    BY <2>1, <2>2
<1>5. QED
  BY <1>1, <1>2, <1>3, <1>4 DEF Onwards

LEMMA ChainTyped ==
    ASSUME NodeTyped, NEW d \in Channels, NEW to \in Onwards(chain[d]), chain' = [chain EXCEPT ![d] = to]
    PROVE  /\ chain' \in [Channels -> ChannelStates]
           /\ \A c \in Channels : Live(chain'[c]) <=> chain'[c].stake > 0
<1>1. WellFormed(chain[d])
  BY DEF NodeTyped, WellFormed
<1>2. WellFormed(to)
  BY <1>1, OnwardsWellFormed
<1>3. QED
  BY <1>2 DEF NodeTyped, WellFormed

\* The transaction of a request changes the channel it names, as the contract would.
LEMMA AfterIsOnward ==
    ASSUME IInv, NEW r \in Requests, Transacts(r), NEW ch \in After(r)
    PROVE  /\ Target(r) \in Channels
           /\ \E to \in Effect(r) : to \in Onwards(chain[Target(r)]) /\ ch = [chain EXCEPT ![Target(r)] = to]
<1>1. req[r].op \in {"open", "close", "fund"} /\ Placed(req[r])
  BY Running DEF Transacts, Active
<1>2. Target(r) \in Channels
  BY <1>1, TargetIsChannel DEF Named, Target
<1>3. PICK to \in Effect(r) : ch = [chain EXCEPT ![Target(r)] = to]
  BY DEF After
<1>4. to \in Onwards(chain[Target(r)])
  BY <1>1, <1>3 DEF Effect, Onwards
<1>5. QED
  BY <1>2, <1>3, <1>4

\* What a step of a request can change besides the request.
LEMMA WhatChanges ==
    ASSUME NEW r \in Requests, Serve(r)
    PROVE  /\ scene' = scene /\ view' = view
           /\ chain' = chain \/ Mine(r)
           /\ funds' = funds \/ Transfer(r)
           /\ session' = session \/ AdjustSession(r)
           /\ redeeming' = redeeming \/ RedeemTickets(r)
<1> USE DEF node
<1>1. CASE Authenticate(r) \/ Reject(r)
  BY <1>1 DEF Authenticate, Reject
<1>2. CASE ListIncoming(r) \/ ListOutgoing(r) \/ ListTopology(r) \/ ShowChannel(r) \/ OpenChannel(r)
  BY <1>2 DEF ListIncoming, ListOutgoing, ListTopology, ShowChannel, OpenChannel
<1>3. CASE ResolveForTx(r) \/ Confirm(r) \/ Refuse(r) \/ TicketStatistics(r)
  BY <1>3 DEF ResolveForTx, Confirm, Refuse, TicketStatistics
<1>4. CASE Mine(r) \/ RedeemTickets(r) \/ Transfer(r) \/ AdjustSession(r)
  BY <1>4 DEF Mine, RedeemTickets, Transfer, AdjustSession
<1>5. CASE Withdraw(r) \/ Balances(r)
  BY <1>5 DEF Withdraw, Balances
<1>6. CASE \/ Price(r) \/ Probability(r) \/ Announced(r) \/ Graph(r) \/ Metrics(r) \/ Addresses(r) \/ Version(r)
           \/ Configuration(r) \/ Info(r) \/ Eligiblez(r)
  BY <1>6 DEF Price, Probability, Announced, Graph, Metrics, Addresses, Version, Configuration, Info, Eligiblez, OneCall
<1>7. CASE ConnectedEdges(r) \/ ConnectedNames(r) \/ PeerKey(r) \/ PeerChannels(r) \/ PingKey(r) \/ Pinged(r)
  BY <1>7 DEF ConnectedEdges, ConnectedNames, PeerKey, PeerChannels, PingKey, Pinged
<1>8. CASE NodeStatus(r) \/ Check(r) \/ FindConfigurator(r) \/ SessionConfig(r)
  BY <1>8 DEF NodeStatus, Check, FindConfigurator, SessionConfig
<1>9. QED
  BY <1>1, <1>2, <1>3, <1>4, <1>5, <1>6, <1>7, <1>8 DEF Serve, Handle

\* A Session's settings are as they were, or were asked for.
LEMMA SessionTyped ==
    ASSUME IInv, NEW r \in Requests, AdjustSession(r)
    PROVE  session' = session \/ (session' \in [target : Nat, rate : Nat] /\ session'.target >= 2)
<1>1. CASE session' = ToSurbs(req[r].arg)
  <2>1. req[r].pc = "configure" /\ req[r].op = "adjust"
    BY DEF AdjustSession, At
  <2>2. IsConfig(req[r].arg) /\ ToSurbs(req[r].arg) # Nothing
    BY <2>1, Running DEF Active, Placed, SoFar
  <2>3. QED
    BY <1>1, <2>2, SettingsGiven
<1>2. QED
  BY <1>1 DEF AdjustSession

LEMMA OtherViewsTyped ==
    ASSUME NodeTyped, NEW v \in OtherViews
    PROVE  v \in [running : BOOLEAN, health : {"Red", "Orange"}, status : [Components -> ComponentStatuses],
                  known : SUBSET Peers, connected : SUBSET Peers]
<1> DEFINE Views == [running : BOOLEAN, health : {"Red", "Orange"}, status : [Components -> ComponentStatuses],
                     known : SUBSET Peers, connected : SUBSET Peers]
<1>1. view \in Views /\ scene.statuses \subseteq ComponentStatuses
  BY ScenesAreWellFormed DEF NodeTyped
<1>2. CASE v = [view EXCEPT !.running = ~@]
  BY <1>1, <1>2
<1>3. ASSUME NEW h \in {"Red", "Orange"}, v = [view EXCEPT !.health = h]
      PROVE  v \in Views
  BY <1>1, <1>3
<1>4. ASSUME NEW c \in Components, NEW s \in scene.statuses, v = [view EXCEPT !.status[c] = s]
      PROVE  v \in Views
  <2>1. [view.status EXCEPT ![c] = s] \in [Components -> ComponentStatuses]
    BY <1>1
  <2>2. v = [view EXCEPT !.status = [view.status EXCEPT ![c] = s]]
    BY <1>4
  <2>3. QED
    BY <1>1, <2>1, <2>2
<1>5. ASSUME NEW p \in Peers, v = [view EXCEPT !.known = @ \cup {p}]
      PROVE  v \in Views
  <2>1. view.known \cup {p} \in SUBSET Peers
    BY <1>1
  <2>2. QED
    BY <1>1, <1>5, <2>1
<1>6. ASSUME NEW c \in SUBSET Peers, v = [view EXCEPT !.connected = c]
      PROVE  v \in Views
  BY <1>1, <1>6
<1>7. \/ v = [view EXCEPT !.running = ~@]
      \/ \E h \in {"Red", "Orange"} : v = [view EXCEPT !.health = h]
      \/ \E c \in Components, s \in scene.statuses : v = [view EXCEPT !.status[c] = s]
      \/ \E p \in Peers : v = [view EXCEPT !.known = @ \cup {p}]
      \/ \E c \in SUBSET Peers : v = [view EXCEPT !.connected = c]
  BY DEF OtherViews
<1>8. QED
  BY <1>2, <1>3, <1>4, <1>5, <1>6, <1>7

LEMMA NodeKept ==
    ASSUME IInv, [Next]_vars
    PROVE  NodeTyped'
<1>1. NodeTyped
  BY Parts
<1>2. ASSUME NEW r \in Requests, Serve(r)
      PROVE  NodeTyped'
  <2>1. /\ scene' = scene /\ view' = view
        /\ chain' = chain \/ Mine(r)
        /\ funds' = funds \/ Transfer(r)
        /\ session' = session \/ AdjustSession(r)
        /\ redeeming' = redeeming \/ RedeemTickets(r)
    BY <1>2, WhatChanges
  <2>2. chain' \in [Channels -> ChannelStates] /\ \A c \in Channels : Live(chain'[c]) <=> chain'[c].stake > 0
    <3>1. CASE chain' = chain
      BY <1>1, <3>1 DEF NodeTyped
    <3>2. CASE Mine(r)
      <4>1. Transacts(r) /\ chain' \in After(r)
        BY <3>2 DEF Mine
      <4>2. PICK to \in Onwards(chain[Target(r)]) : Target(r) \in Channels /\ chain' = [chain EXCEPT ![Target(r)] = to]
        BY <4>1, AfterIsOnward
      <4>3. QED
        BY <1>1, <4>2, ChainTyped
    <3>3. QED
      BY <2>1, <3>1, <3>2
  <2>3. funds' \subseteq Currencies
    BY <1>1, <2>1 DEF NodeTyped, Transfer
  <2>4. session' = NoSession \/ (session' \in [target : Nat, rate : Nat] /\ session'.target >= 2)
    BY <1>1, <2>1, SessionTyped DEF NodeTyped
  <2>5. redeeming' \subseteq Peers \cup {Everyone}
    <3>1. CASE RedeemTickets(r)
      <4>1. redeeming' \in {redeeming, redeeming \cup {req[r].peer}}
        BY <3>1 DEF RedeemTickets
      <4>2. req[r].pc = "run" /\ req[r].op = "redeem"
        BY <3>1 DEF RedeemTickets, At
      <4>3. req[r].peer \in Peers \cup {Everyone}
        BY <4>2, Running DEF Active, Placed, Names, Named
      <4>4. QED
        BY <1>1, <4>1, <4>3 DEF NodeTyped
    <3>2. QED
      BY <1>1, <2>1, <3>1 DEF NodeTyped
  <2>6. QED
    BY <1>1, <2>1, <2>2, <2>3, <2>4, <2>5 DEF NodeTyped
<1>3. ASSUME NEW r \in Requests, Arrive(r)
      PROVE  NodeTyped'
  BY <1>1, <1>3 DEF Arrive, node, NodeTyped
<1>4. ASSUME NEW r \in Requests, Disconnect(r)
      PROVE  NodeTyped'
  <2>1. /\ chain' = chain \/ (Transacts(r) /\ chain' \in After(r))
        /\ UNCHANGED <<funds, view, session, redeeming, scene>>
    BY <1>4 DEF Disconnect
  <2>2. CASE chain' = chain
    BY <1>1, <2>1, <2>2 DEF NodeTyped
  <2>3. CASE Transacts(r) /\ chain' \in After(r)
    <3>1. PICK to \in Onwards(chain[Target(r)]) : Target(r) \in Channels /\ chain' = [chain EXCEPT ![Target(r)] = to]
      BY <2>3, AfterIsOnward
    <3>2. chain' \in [Channels -> ChannelStates] /\ \A c \in Channels : Live(chain'[c]) <=> chain'[c].stake > 0
      BY <1>1, <3>1, ChainTyped
    <3>3. QED
      BY <1>1, <2>1, <3>2 DEF NodeTyped
  <2>4. QED
    BY <2>1, <2>2, <2>3
<1>5. CASE ChannelMoves
  <2>1. PICK d \in Channels : \E to \in Onwards(chain[d]) : chain' = [chain EXCEPT ![d] = to]
    BY <1>5 DEF ChannelMoves
  <2>2. chain' \in [Channels -> ChannelStates] /\ \A c \in Channels : Live(chain'[c]) <=> chain'[c].stake > 0
    BY <1>1, <2>1, ChainTyped
  <2>3. QED
    BY <1>1, <1>5, <2>2 DEF ChannelMoves, NodeTyped
<1>6. CASE RedemptionEnds
  BY <1>1, <1>6 DEF RedemptionEnds, NodeTyped
<1>7. CASE NodeMoves
  <2>1. view' \in OtherViews /\ UNCHANGED <<scene, chain, funds, session, redeeming>>
    BY <1>7 DEF NodeMoves
  <2>2. QED
    BY <1>1, <2>1, OtherViewsTyped DEF NodeTyped
<1>8. CASE SessionMoves
  <2>1. session' = NoSession \/ \E c \in scene.args : session' = ToSurbs(c) /\ session' # Nothing
    BY <1>8 DEF SessionMoves
  <2>2. \A c \in scene.args : IsConfig(c)
    BY <1>1, <1>8, ScenesAreWellFormed DEF NodeTyped, SessionMoves, Moves
  <2>3. session' = NoSession \/ (session' \in [target : Nat, rate : Nat] /\ session'.target >= 2)
    BY <2>1, <2>2, SettingsGiven
  <2>4. QED
    BY <1>1, <1>8, <2>3 DEF SessionMoves, NodeTyped
<1>9. CASE UNCHANGED vars
  BY <1>1, <1>9 DEF vars, NodeTyped
<1>10. QED
  BY <1>2, <1>3, <1>4, <1>5, <1>6, <1>7, <1>8, <1>9 DEF Next

-----------------------------------------------------------------------------
(***************************************************************************)
(* The requests.                                                           *)
(***************************************************************************)
LEMMA AdjustKeeps ==
    ASSUME IInv, NEW r \in Requests, AdjustSession(r)
    PROVE  Kept(r)
<1>1. req[r].pc = "configure" /\ (Says(r, 406) \/ Says(r, 204))
  BY DEF AdjustSession, At
<1>2. QED
  BY <1>1, SilentAnswer DEF Says, Silent, Active

LEMMA TransferKeeps ==
    ASSUME IInv, NEW r \in Requests, Transfer(r)
    PROVE  Kept(r)
<1>1. req[r].pc = "tx" /\ req[r].op = "withdraw" /\ Goes(r, "mined", {})
  BY DEF Transfer, At
<1>2. Turned(req[r], req'[r], "mined", req[r].code, {}) => SoFar(req'[r])
  BY <1>1 DEF Turned, Later, SoFar
<1>3. QED
  BY <1>1, <1>2, GoesOn DEF Active, Transactions

LEMMA HandlersKeep ==
    ASSUME IInv, NEW r \in Requests, Serve(r), ~Mine(r)
    PROVE  Kept(r)
<1>1. CASE Authenticate(r) \/ Reject(r)
  BY <1>1, GatesKeep
<1>2. CASE ListIncoming(r) \/ ListOutgoing(r) \/ ListTopology(r)
  BY <1>2, ListsKeep
<1>3. CASE ShowChannel(r) \/ ResolveForTx(r) \/ TicketStatistics(r) \/ RedeemTickets(r)
  BY <1>3, ResolversKeep
<1>4. CASE ConnectedEdges(r) \/ ConnectedNames(r) \/ PeerKey(r) \/ PeerChannels(r)
  BY <1>4, PeersKeep
<1>5. CASE Confirm(r) \/ NodeStatus(r) \/ Check(r)
  BY <1>5, ConfirmKeeps, StatusKeeps, CheckKeeps
<1>6. CASE Transfer(r) \/ AdjustSession(r)
  BY <1>6, TransferKeeps, AdjustKeeps
<1>7. CASE \/ Price(r) \/ Probability(r) \/ Announced(r) \/ Graph(r) \/ Metrics(r) \/ Addresses(r) \/ Version(r)
           \/ Configuration(r) \/ Info(r) \/ Eligiblez(r)
           \/ OpenChannel(r) \/ Refuse(r) \/ Withdraw(r) \/ Balances(r)
           \/ PingKey(r) \/ Pinged(r) \/ FindConfigurator(r) \/ SessionConfig(r)
  BY <1>7, PlainKeep
<1>8. QED
  BY <1>1, <1>2, <1>3, <1>4, <1>5, <1>6, <1>7 DEF Serve, Handle

\* The requests of others only see what a step did to the node.
LEMMA OthersSee ==
    ASSUME IInv, NEW reqs, NEW O \in SUBSET Requests, \A s \in O : reqs[s] = req[s],
           req' = Seeing(reqs, chain', view'), scene' = scene
    PROVE  /\ req' = [s \in Requests |-> req'[s]]
           /\ \A s \in O : /\ Sound(req'[s], Facts(req'[s].op, chain', view'))
                           /\ req'[s] = Unserved \/ req'[s].op \in scene'.ops
                           /\ req'[s].pc = req[s].pc
<1>1. req' = [s \in Requests |-> req'[s]]
  BY DEF Seeing
<1>2. ASSUME NEW s \in O
      PROVE  /\ Sound(req'[s], Facts(req'[s].op, chain', view'))
             /\ req'[s] = Unserved \/ req'[s].op \in scene'.ops
             /\ req'[s].pc = req[s].pc
  <2> DEFINE q == req[s]
             n == req'[s]
             now == Facts(q.op, chain', view')
  <2>1. s \in Requests /\ reqs[s] = q /\ Sound(q, Now(q)) /\ (q = Unserved \/ q.op \in scene.ops)
    BY <1>2, Parts DEF Served
  <2>2. q = Unserved \/ Shaped(q)
    BY <2>1 DEF Sound
  <2>3. /\ Active(q) => Seen(q, n, now)
        /\ ~Active(q) => n = q
    <3> HIDE DEF q
    <3>1. Seeing(reqs, chain', view')[s] = n
      OBVIOUS
    <3>2. QED
      BY <2>1, <2>2, <3>1, SeeingSees
  <2>4. n.op = q.op /\ n.pc = q.pc
    BY <2>3 DEF Seen, Later
  <2>5. Sound(n, now)
    <3> HIDE DEF q, n, now
    <3>1. QED
      BY <2>1, <2>3, SeeingSound
  <2>6. Active(q) => q.op \in scene.ops
    BY <2>1 DEF Active, Unserved
  <2>7. QED
    BY <2>1, <2>3, <2>4, <2>5, <2>6
<1>3. QED
  BY <1>1, <1>2

LEMMA ArrivesSound ==
    ASSUME IInv, NEW r \in Requests, Arrive(r)
    PROVE  /\ req' = [req EXCEPT ![r] = req'[r]]
           /\ Sound(req'[r], Facts(req'[r].op, chain, view))
           /\ req'[r].op \in scene.ops
<1>1. PICK op \in scene.ops, headers \in scene.headers :
       \E name \in Names(op), arg \in IF op \in {"list", "withdraw", "adjust"} THEN scene.args ELSE {Nothing} :
          req' = [req EXCEPT ![r] =
                [op |-> op, headers |-> headers, peer |-> name[1], dir |-> name[2], arg |-> arg, code |-> 0, got |-> {},
                 pc |-> IF Protected(op) THEN "auth" ELSE "run",
                 ever |-> Facts(op, chain, view), steady |-> Facts(op, chain, view)]]
  BY DEF Arrive
<1>2. PICK name \in Names(op), arg \in IF op \in {"list", "withdraw", "adjust"} THEN scene.args ELSE {Nothing} :
          req' = [req EXCEPT ![r] =
                [op |-> op, headers |-> headers, peer |-> name[1], dir |-> name[2], arg |-> arg, code |-> 0, got |-> {},
                 pc |-> IF Protected(op) THEN "auth" ELSE "run",
                 ever |-> Facts(op, chain, view), steady |-> Facts(op, chain, view)]]
  BY <1>1
<1> DEFINE pc == IF Protected(op) THEN "auth" ELSE "run"
           now == Facts(op, chain, view)
           n == [op |-> op, headers |-> headers, peer |-> name[1], dir |-> name[2], arg |-> arg, code |-> 0, got |-> {},
                 pc |-> pc, ever |-> now, steady |-> now]
<1>3. req' = [req EXCEPT ![r] = n] /\ req'[r] = n
  BY <1>2, Parts DEF Served
<1>4. /\ n.op = op /\ n.pc = pc /\ n.arg = arg /\ n.headers = headers /\ n.got = {} /\ n.ever = now /\ n.steady = now
      /\ n.peer = name[1] /\ n.dir = name[2]
      /\ Shaped(n)
  BY DEF Shaped
<1>5. Named(n) \in Names(op)
  <2>1. name = <<name[1], name[2]>>
    BY DEF Names
  <2>2. QED
    BY <1>4, <2>1 DEF Named
<1>6. /\ op = "list" => arg \in BOOLEAN
      /\ op = "adjust" => IsConfig(arg)
  BY <1>1, <1>2, ScenesAreWellFormed, Parts DEF NodeTyped
<1>7. pc \in {"auth", "run"} /\ (pc = "auth" <=> Protected(op))
  OBVIOUS
<1> HIDE DEF n, pc, now
<1>8. Placed(n)
  BY <1>4, <1>5, <1>6, <1>7 DEF Placed, Protected
<1>9. Framed(n, now) /\ SoFar(n) /\ Earned(n)
  <2>1. ReadSoFar(n)
    BY <1>4 DEF ReadSoFar
  <2>2. QED
    BY <1>4, <1>7, <2>1 DEF Framed, SoFar, Earned
<1>10. Sound(n, now)
  BY <1>4, <1>8, <1>9 DEF Sound
<1>11. QED
  BY <1>1, <1>3, <1>4, <1>10 DEF now

\* Once it is mined, what the transaction did has been seen by its request.
LEMMA MineSound ==
    ASSUME IInv, NEW r \in Requests, Mine(r)
    PROVE  Sound(req'[r], Facts(req'[r].op, chain', view')) /\ req'[r].op = req[r].op
<1> DEFINE q == req[r]
           m == [q EXCEPT !.pc = "mined"]
           n == req'[r]
           t == Named(q)
           now == Facts(q.op, chain', view')
<1>1. /\ q.pc = "tx" /\ q.op \in {"open", "close", "fund"} /\ Active(q) /\ Transacts(r)
      /\ chain' \in After(r) /\ view' = view
      /\ req' = Seeing([req EXCEPT ![r].pc = "mined"], chain', view')
  BY DEF Mine, Transacts, Active
<1>2. /\ Shaped(q) /\ Placed(q) /\ Sound(q, Now(q))
      /\ q.steady \subseteq Now(q) /\ Now(q) \subseteq q.ever
      /\ req = [s \in Requests |-> req[s]]
  BY <1>1, Running DEF IInv
<1>3. Turned(q, m, "mined", q.code, q.got)
  <2> HIDE DEF q
  <2>1. QED
    BY <1>2 DEF Turned, Later, Shaped
<1>4. Seen(m, n, now)
  <2> DEFINE reqs == [req EXCEPT ![r].pc = "mined"]
  <2>1. reqs[r] = m
    BY <1>2
  <2>2. Shaped(m) /\ Active(m) /\ m.op = q.op
    BY <1>3 DEF Turned, Later, Active
  <2>3. n = Seeing(reqs, chain', view')[r]
    BY <1>1
  <2> HIDE DEF reqs, m, n, q
  <2>4. Seen(reqs[r], Seeing(reqs, chain', view')[r], Facts(reqs[r].op, chain', view'))
    BY <2>1, <2>2, SeeingSees
  <2>5. QED
    BY <2>1, <2>2, <2>3, <2>4
<1> HIDE DEF m
<1>5. /\ n.op = q.op /\ n.pc = "mined" /\ n.ever = q.ever \cup now /\ n.steady = q.steady \cap now
      /\ Named(n) = t /\ n.headers = q.headers /\ n.arg = q.arg /\ n.code = q.code /\ Shaped(n)
  BY <1>3, <1>4 DEF Turned, Seen, Later, Named
<1>6. Placed(n)
  BY <1>1, <1>2, <1>5 DEF Placed, Transactions
<1>7. PICK to \in Effect(r) : t \in Channels /\ chain' = [chain EXCEPT ![t] = to]
  BY <1>1, AfterIsOnward DEF Target, Named
<1>8. chain'[t] = to
  BY <1>7, Parts DEF NodeTyped
<1>9. now = ChannelFacts(chain')
  BY <1>1, FactsByOp DEF Probes
<1>10. /\ Live(chain[t]) => t \in q.ever
       /\ chain[t].status = "Open" => <<"open", t>> \in q.ever
       /\ t \in now <=> Live(to)
       /\ <<"open", t>> \in now <=> to.status = "Open"
  <2>1. t \in now <=> Live(to)
    BY <1>7, <1>8, <1>9, ChannelFact
  <2>2. <<"open", t>> \in now <=> to.status = "Open"
    <3> HIDE DEF t, now
    <3>1. <<"open", t>> \in ChannelFacts(chain') <=> chain'[t].status = "Open"
      BY <1>7, ChannelFact
    <3>2. QED
      BY <1>8, <1>9, <3>1
  <2>3. req[r].op \notin Probes \cup {"status", "connected"} /\ Active(req[r])
    BY <1>1 DEF Probes
  <2>4. (Live(chain[t]) => t \in q.ever) /\ (chain[t].status = "Open" => <<"open", t>> \in q.ever)
    BY <1>7, <2>3, Lookup
  <2>5. QED
    BY <2>1, <2>2, <2>4
<1>11. /\ q.op = "open" => Live(to)
       /\ q.op = "fund" => chain[t].status = "Open"
       /\ q.op = "close" => Live(chain[t]) /\ to.status # "Open"
  <2>0. Target(r) = t
    BY DEF Target, Named
  <2>1. CASE q.op = "open"
    <3>1. to = [status |-> "Open", stake |-> 1]
      BY <1>7, <2>0, <2>1 DEF Effect, Opened
    <3>2. QED
      BY <2>1, <3>1 DEF Live
  <2>2. CASE q.op = "fund"
    BY <1>7, <2>0, <2>2 DEF Effect, Funded
  <2>3. CASE q.op = "close"
    <3>1. to \in ClosedBySource(chain[t]) \/ to \in ClosedByDestination(chain[t])
      BY <1>7, <2>0, <2>3 DEF Effect
    <3>2. CASE to \in ClosedByDestination(chain[t])
      BY <2>3, <3>2 DEF ClosedByDestination
    <3>3. CASE to \in ClosedBySource(chain[t])
      <4>1. chain[t] \in ChannelStates
        BY <1>7, Parts DEF NodeTyped
      <4>2. to.status # "Open" /\ Live(chain[t])
        BY <3>3, <4>1 DEF ClosedBySource, Live, ChannelStates
      <4>3. QED
        BY <2>3, <4>2
    <3>4. QED
      BY <3>1, <3>2, <3>3
  <2>4. QED
    BY <1>1, <2>1, <2>2, <2>3
<1> HIDE DEF now
<1>12. SoFar(n)
  BY <1>1, <1>5, <1>10, <1>11 DEF SoFar
<1>13. Framed(n, now) /\ Earned(n)
  BY <1>5 DEF Framed, Earned
<1>14. QED
  BY <1>5, <1>6, <1>12, <1>13 DEF Sound, now

LEMMA ServedKept ==
    ASSUME IInv, [Next]_vars
    PROVE  Served'
<1>1. Served
  BY Parts
<1>2. ASSUME NEW r \in Requests, req' = [req EXCEPT ![r] = req'[r]],
             Sound(req'[r], Facts(req'[r].op, chain, view)), req'[r].op \in scene.ops,
             chain' = chain, view' = view, scene' = scene
      PROVE  Served'
  <2>1. req' = [s \in Requests |-> req'[s]] /\ \A s \in Requests : s # r => req'[s] = req[s]
    BY <1>1, <1>2 DEF Served
  <2>2. ASSUME NEW s \in Requests
        PROVE  Sound(req'[s], Facts(req'[s].op, chain', view')) /\ (req'[s] = Unserved \/ req'[s].op \in scene'.ops)
    BY <1>1, <1>2, <2>1 DEF Served, Now
  <2>3. QED
    BY <2>1, <2>2 DEF Served, Now
<1>3. ASSUME NEW r \in Requests, Serve(r), ~Mine(r)
      PROVE  Served'
  <2>1. Kept(r)
    BY <1>3, HandlersKeep
  <2>2. chain' = chain /\ view' = view /\ scene' = scene
    BY <1>3, WhatChanges
  <2>3. req[r].op \in scene.ops
    BY <1>1, <2>1 DEF Served, Kept, Active, Unserved
  <2>4. QED
    BY <1>2, <2>1, <2>2, <2>3 DEF Kept, Now
<1>4. ASSUME NEW r \in Requests, Mine(r)
      PROVE  Served'
  <2> DEFINE reqs == [req EXCEPT ![r].pc = "mined"]
  <2>1. req' = Seeing(reqs, chain', view') /\ scene' = scene /\ view' = view
    BY <1>4 DEF Mine
  <2>2. \A s \in Requests \ {r} : reqs[s] = req[s]
    BY <1>1 DEF Served
  <2>3. req[r].op \in scene.ops
    BY <1>1, <1>4 DEF Served, Mine, Transacts, Unserved
  <2> HIDE DEF reqs
  <2>4. /\ req' = [s \in Requests |-> req'[s]]
        /\ \A s \in Requests \ {r} : /\ Sound(req'[s], Facts(req'[s].op, chain', view'))
                                     /\ req'[s] = Unserved \/ req'[s].op \in scene'.ops
    BY <2>1, <2>2, OthersSee
  <2>5. Sound(req'[r], Facts(req'[r].op, chain', view')) /\ req'[r].op \in scene'.ops
    BY <1>4, <2>1, <2>3, MineSound
  <2>6. QED
    BY <2>4, <2>5 DEF Served, Now
<1>5. ASSUME NEW r \in Requests, Arrive(r)
      PROVE  Served'
  BY <1>2, <1>5, ArrivesSound DEF Arrive, node
<1>6. ASSUME NEW r \in Requests, Disconnect(r)
      PROVE  Served'
  <2> DEFINE reqs == [req EXCEPT ![r] = Unserved]
  <2>1. req' = Seeing(reqs, chain', view') /\ scene' = scene
    BY <1>6 DEF Disconnect
  <2>2. (\A s \in Requests \ {r} : reqs[s] = req[s]) /\ reqs[r] = Unserved
    BY <1>1 DEF Served
  <2> HIDE DEF reqs
  <2>3. /\ req' = [s \in Requests |-> req'[s]]
        /\ \A s \in Requests \ {r} : /\ Sound(req'[s], Facts(req'[s].op, chain', view'))
                                     /\ req'[s] = Unserved \/ req'[s].op \in scene'.ops
    BY <2>1, <2>2, OthersSee
  <2>4. req'[r] = Unserved
    BY <2>1, <2>2 DEF Seeing, Active, Unserved
  <2>5. QED
    BY <2>3, <2>4 DEF Served, Now, Sound
<1>7. CASE ChannelMoves \/ NodeMoves
  <2>1. req' = Seeing(req, chain', view') /\ scene' = scene
    BY <1>7 DEF ChannelMoves, NodeMoves
  <2>2. /\ req' = [s \in Requests |-> req'[s]]
        /\ \A s \in Requests : /\ Sound(req'[s], Facts(req'[s].op, chain', view'))
                               /\ req'[s] = Unserved \/ req'[s].op \in scene'.ops
    BY <2>1, OthersSee
  <2>3. QED
    BY <2>2 DEF Served, Now
<1>8. CASE RedemptionEnds \/ SessionMoves \/ UNCHANGED vars
  <2>1. chain' = chain /\ view' = view /\ scene' = scene /\ req' = req
    BY <1>8 DEF RedemptionEnds, SessionMoves, vars
  <2>2. QED
    BY <1>1, <2>1 DEF Served, Now
<1>9. QED
  BY <1>3, <1>4, <1>5, <1>6, <1>7, <1>8 DEF Next

-----------------------------------------------------------------------------
(***************************************************************************)
(* Theorems.                                                               *)
(***************************************************************************)
LEMMA InvInit == Init => IInv
<1> SUFFICES ASSUME Init
             PROVE  IInv
  OBVIOUS
<1>1. NodeTyped
  <2>1. \A c \in Channels : chain[c] = NoChannel
    BY DEF Init
  <2>2. NoChannel \in ChannelStates /\ ~Live(NoChannel) /\ ~(NoChannel.stake > 0)
    BY DEF NoChannel, ChannelStates, Statuses, MaxStake, Live
  <2>3. chain \in [Channels -> ChannelStates] /\ \A c \in Channels : Live(chain[c]) <=> chain[c].stake > 0
    BY <2>1, <2>2 DEF Init
  <2>4. [c \in Components |-> "Initializing"] \in [Components -> ComponentStatuses]
    BY DEF ComponentStatuses
  <2>5. QED
    BY <2>3, <2>4 DEF Init, NodeTyped
<1>2. Served
  BY DEF Init, Served, Sound
<1>3. QED
  BY <1>1, <1>2, Parts

LEMMA InvNext == IInv /\ [Next]_vars => IInv'
<1> SUFFICES ASSUME IInv, [Next]_vars
             PROVE  IInv'
  OBVIOUS
<1>1. NodeTyped' /\ Served'
  BY NodeKept, ServedKept
<1>2. (IInv <=> NodeTyped /\ Served)'
  BY Parts, PTL
<1>3. QED
  BY <1>1, <1>2

\* The inductive invariant: each request is sound for the facts of its op.
THEOREM Invariant == Spec => []IInv
BY InvInit, InvNext, PTL DEF Spec

\* Whatever the router does in which order, nothing but a check of the node's
\* health runs, or is answered other than 401 or 406, without the token.
THEOREM TokenGuards == Spec => []AuthorizedOnly
<1>1. IInv => AuthorizedOnly
  BY DEF IInv, Sound, Placed, AuthorizedOnly, Unserved
<1>2. QED
  BY <1>1, Invariant, PTL

\* What is told of channels and peers was so while the request ran, however many
\* others transact in the meantime.
THEOREM ChannelsAsTold == Spec => []ChannelAnswersTrue
<1>1. IInv => ChannelAnswersTrue
  <2> SUFFICES ASSUME IInv
               PROVE  ChannelAnswersTrue
    OBVIOUS
  <2>1. \A r \in Requests : req[r].pc = "done" => ChannelEarned(req[r])
    BY DEF IInv, Sound, Earned, Unserved
  <2>2. \A r \in Requests : Target(r) = Named(req[r])
    BY DEF Target, Named
  <2>3. QED
    BY <2>1, <2>2 DEF ChannelAnswersTrue, ChannelEarned, Answered
<1>2. QED
  BY <1>1, Invariant, PTL

\* The probes and the status tell of things that were so while they were read,
\* and pass over nothing that was amiss all along.
THEOREM HealthAsTold == Spec => []HealthAnswersTrue
<1>1. IInv => HealthAnswersTrue
  <2> SUFFICES ASSUME IInv
               PROVE  HealthAnswersTrue
    OBVIOUS
  <2>1. \A r \in Requests : req[r].pc = "done" => ProbeEarned(req[r]) /\ StatusEarned(req[r])
    BY DEF IInv, Sound, Earned, Unserved
  <2>2. ProbeAnswersTrue
    BY <2>1 DEF ProbeAnswersTrue, ProbeEarned
  <2>3. StatusAnswersTrue
    BY <2>1 DEF StatusAnswersTrue, StatusEarned, Answered
  <2>4. QED
    BY <2>2, <2>3 DEF HealthAnswersTrue
<1>2. QED
  BY <1>1, Invariant, PTL

\* The settings of a Session survive being read and posted back, up to what one
\* decimal of a unit can tell, for any payload and SURB size.
THEOREM SettingsSurviveReading == Spec => []SettingsReadBack
<1>1. IInv => SettingsReadBack
  BY SettingsReturn DEF IInv, SettingsReadBack
<1>2. QED
  BY <1>1, Invariant, PTL

=============================================================================
