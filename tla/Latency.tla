------------------------------ MODULE Latency -------------------------------
(* The delays a cluster is asked to put on its links (localcluster/src/        *)
(* latency.rs): a delay expression becomes a distribution, a distribution is   *)
(* named for a link, for the node the link ends at, or for all links.          *)
(* Durations are numbers of one unit.                                          *)
EXTENDS Integers, Sequences, FiniteSets

CONSTANT LongestDelay       \* bound: what a normal distribution is cut off at

ASSUME LongestDelayNat == LongestDelay \in Nat

\* A delay expression as written: "100ms", "100ms+-30ms", "uniform:50ms,150ms"
\* or "normal:100ms,30ms".
Expression == [form : {"fixed", "jitter", "uniform", "normal"}, a : Nat, b : Nat]

Bad == [kind |-> "bad", a |-> 0, b |-> 0]       \* a parse error
Unshaped == [kind |-> "none", a |-> 0, b |-> 0] \* no entry

\* Duration::saturating_sub.
Minus(a, b) == IF b > a THEN 0 ELSE a - b

\* parse_delay.
Parse(e) ==
  CASE e.form = "fixed"                 -> [kind |-> "fixed", a |-> e.a, b |-> e.a]
    [] e.form = "jitter"                -> [kind |-> "uniform", a |-> Minus(e.a, e.b), b |-> e.a + e.b]
    [] e.form = "uniform" /\ e.b > e.a  -> [kind |-> "uniform", a |-> e.a, b |-> e.b]
    [] e.form = "uniform" /\ e.b <= e.a -> Bad
    [] e.form = "normal"                -> [kind |-> "normal", a |-> e.a, b |-> e.b]

\* The delays DelayDist::sample may return.
Sample(dist) ==
  CASE dist.kind = "none"                         -> {0}
    [] dist.kind = "fixed"                        -> {dist.a}
    [] dist.kind = "uniform" /\ dist.b <= dist.a  -> {dist.a}
    [] dist.kind = "uniform" /\ dist.b > dist.a   -> dist.a .. dist.b - 1
    [] dist.kind = "normal" /\ dist.b = 0         -> {dist.a}
    [] dist.kind = "normal" /\ dist.b > 0         -> 0 .. LongestDelay

\* A --latency argument: one expression for all links, or a file with a sequence
\* of expressions for links [from, to, delay], one for each of some nodes, and a
\* default, each of which may be absent (a set of at most one).
Fixed(e) == [default |-> {e}, nodes |-> <<>>, links |-> <<>>]
NoLatency == [default |-> {}, nodes |-> <<>>, links |-> <<>>]

ParsedOrNot(es) == IF es = {} THEN Unshaped ELSE Parse(CHOOSE e \in es : TRUE)

\* from_yaml: of two entries for one link the later one stays.
LinkEntry(links, s, d) ==
  LET named == {n \in DOMAIN links : links[n].from = s /\ links[n].to = d}
  IN {links[n].delay : n \in {n \in named : \A m \in named : m <= n}}

NodeEntry(nodes, d) == IF d \in DOMAIN nodes THEN {nodes[d]} ELSE {}

Entries(raw) == raw.default \cup {raw.nodes[d] : d \in DOMAIN raw.nodes}
                            \cup {raw.links[n].delay : n \in DOMAIN raw.links}

\* Latency::resolve: an expression that does not parse, or a file with no delay,
\* ends the start.
Usable(raw) == Entries(raw) # {} /\ \A e \in Entries(raw) : Parse(e) # Bad

\* LatencyConfig::resolve.
Resolve(raw, s, d) ==
  LET link == LinkEntry(raw.links, s, d)
      node == NodeEntry(raw.nodes, d)
  IN IF link # {} THEN ParsedOrNot(link)
     ELSE IF node # {} THEN ParsedOrNot(node)
     ELSE ParsedOrNot(raw.default)

\* What the summary says of a node, describe_inbound: nothing, one delay, or one
\* for each source. Sources without a delay are passed over.
Shaped(raw, d, n) == {s \in 0 .. n - 1 : s # d /\ Resolve(raw, s, d) # Unshaped}
PerSource(raw, d, n) == [s \in Shaped(raw, d, n) |-> Resolve(raw, s, d)]

Says(kind, dist, sources) == [kind |-> kind, dist |-> dist, sources |-> sources]

First(sources) == sources[CHOOSE s \in DOMAIN sources : \A t \in DOMAIN sources : s <= t]

\* A plausible bug: the first source stands for all.
DescribeFirst(sources) ==
  IF DOMAIN sources = {} THEN Says("none", Unshaped, sources) ELSE Says("one", First(sources), sources)

Describe(sources) ==
  IF DOMAIN sources = {} THEN Says("none", Unshaped, sources)
  ELSE IF \A s \in DOMAIN sources : sources[s] = First(sources)
       THEN Says("one", First(sources), sources)
       ELSE Says("each", Unshaped, sources)

DescribeInbound(raw, d, n) == Describe(PerSource(raw, d, n))
=============================================================================
