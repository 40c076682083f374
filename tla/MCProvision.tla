---------------------------- MODULE MCProvision ----------------------------
(* Settings for TLC: one to three nodes, one extra identity, on an external     *)
(* chain or managed ones, with and without relays, PIX and the Curvy grant, a   *)
(* port base too high for the cluster, and latency arguments that do and do not *)
(* parse.                                                                       *)
EXTENDS Provision

Plain == [external |-> TRUE, frozen |-> FALSE, pix |-> NoPix, latency |-> NoLatency,
          grant |-> FALSE, asks |-> TRUE, size |-> 1, extras |-> 0, base |-> 0, relayBase |-> 3,
          floats |-> {0, 1}, management |-> "none"]

Exp(form, a, b) == [form |-> form, a |-> a, b |-> b]
Jitter == Exp("jitter", 1, 2)

\* One link of node 0 differs from the rest, and is named twice; node 1 has an
\* entry of its own.
File == [default |-> {Jitter},
         nodes |-> 1 :> Exp("normal", 1, 1),
         links |-> <<[from |-> 1, to |-> 0, delay |-> Exp("fixed", 1, 0)],
                     [from |-> 1, to |-> 0, delay |-> Exp("uniform", 1, 3)]>>]

\* Batches: a fixed one above the cap, a fixed one at the cap, and one that the
\* Exit has to raise for its least quota.
TooMany == [on |-> TRUE, file |-> [batch |-> 3, dynamic |-> FALSE]]
Matched == [on |-> TRUE, file |-> [batch |-> 2, dynamic |-> FALSE]]
Raised == [on |-> TRUE, file |-> [quotaMin |-> 90000, batch |-> 4]]

MCSettings == {
  Plain,
  [Plain EXCEPT !.pix = [on |-> TRUE, file |-> <<>>], !.latency = Fixed(Jitter), !.grant = TRUE,
                !.asks = FALSE, !.extras = 1],
  [Plain EXCEPT !.external = FALSE, !.extras = 1, !.base = 5, !.size = 2],
  [Plain EXCEPT !.external = FALSE, !.size = 3, !.latency = File, !.pix = TooMany],
  [Plain EXCEPT !.latency = Fixed(Exp("uniform", 2, 2))],
  [Plain EXCEPT !.frozen = TRUE, !.size = 2, !.base = 1, !.management = "both",
                !.pix = Matched, !.floats = {1}],
  [Plain EXCEPT !.external = FALSE, !.frozen = TRUE, !.size = 2, !.base = 1,
                !.management = "strategy", !.pix = Raised]
}
=============================================================================
