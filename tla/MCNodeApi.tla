------------------------------ MODULE MCNodeApi -----------------------------
(***************************************************************************)
(* Scenes for TLC: two overlapping requests where they can disturb each    *)
(* other, one where only the node moves.                                   *)
(***************************************************************************)
EXTENDS NodeApi

MCScene(slots, ops, moves, args) ==
    [slots |-> slots, ops |-> ops, moves |-> moves, args |-> args, headers |-> {{"bearer"}}, statuses |-> {}]

Two == Requests
One == {CHOOSE r \in Requests : TRUE}

Configs == {[buffer |-> b, upstream |-> u] : b \in {Nothing, Mtu, 2 * Mtu, 6 * Mtu + 1, 1000 * Mtu},
                                             u \in {Nothing, 3 * SurbBits - 1}}

AnyHeaders == {{}, {"bearer"}, {"wrong", "x-auth-token"}, {"wrong"}}
MCScenes ==
    {MCScene(Two, {"open", "close"}, {}, {TRUE}),
     MCScene(One, {"list", "full", "close", "fund", "peer", "show"}, {"chain"}, BOOLEAN),
     MCScene(One, {"open", "withdraw"}, {"running"}, {"xdai"}),
     [MCScene(One, {"redeem", "stats"}, {"chain"}, {TRUE}) EXCEPT !.headers = AnyHeaders],
     [MCScene(Two, {"withdraw", "balances"}, {}, {"xdai", "wxhopr", "junk"}) EXCEPT !.headers = {{}, {"bearer"}}],
     MCScene(One, {"connected", "ping", "peer"}, {"peers"}, {TRUE}),
     [MCScene(One, {"adjust", "sconfig"}, {"session"}, Configs) EXCEPT !.headers = AnyHeaders],
     [MCScene(One, {"status"}, {"status"}, {TRUE}) EXCEPT !.statuses = {"Ready", "Unavailable"}],
     [MCScene(One, {"status"}, {"status"}, {TRUE}) EXCEPT !.statuses = {"Degraded", "Unavailable"}],
     [MCScene(One, {"startedz", "readyz", "healthyz"}, {"running", "health", "status"}, {TRUE})
        EXCEPT !.statuses = {"Ready", "Unavailable"}],
     [MCScene(One, {"metrics", "eligiblez", "price", "probability", "announced", "graph", "addresses", "version",
                    "configuration", "info"}, {}, {TRUE})
        EXCEPT !.headers = AnyHeaders]}
=============================================================================
