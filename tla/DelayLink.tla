----------------------------- MODULE DelayLink -----------------------------
(***************************************************************************)
(* What one directed flow of a latency relay promises to the two ends of   *)
(* the link it imitates: a lossy link that never duplicates or invents a   *)
(* datagram, never delivers one early, and lets a datagram overtake an     *)
(* earlier one only inside a bounded window (no window, no overtaking).    *)
(* The promise is the one the header of localcluster/src/relay.rs makes    *)
(* ("Ordering - modelled physically"); RelayFlow is shown to keep it.      *)
(***************************************************************************)
EXTENDS Naturals, Sequences

CONSTANTS
    MinDelay,      \* the least delay the link adds
    Window         \* overtaking is possible only between datagrams offered
                   \* less than Window apart; 0 makes the link FIFO

VARIABLES
    clock,         \* the time
    offered,       \* how many datagrams the sending end has offered
    transit,       \* datagrams on the link: records [id, at]
    delivered      \* what the receiving end got: records [id, at, when]

vars == <<clock, offered, transit, delivered>>

Init ==
    /\ clock = 0
    /\ offered = 0
    /\ transit = {}
    /\ delivered = << >>

\* The next datagram enters the link, or is lost at its entrance.
Offer ==
    /\ offered' = offered + 1
    /\ \/ transit' = transit \union {[id |-> offered + 1, at |-> clock]}
       \/ transit' = transit
    /\ UNCHANGED <<clock, delivered>>

\* A datagram comes out: not early, and past no datagram that entered Window
\* or more before it.
Deliver(d) ==
    /\ d.at + MinDelay =< clock
    /\ \A e \in transit : e.id < d.id => d.at < e.at + Window
    /\ transit' = transit \ {d}
    /\ delivered' = Append(delivered, [id |-> d.id, at |-> d.at, when |-> clock])
    /\ UNCHANGED <<clock, offered>>

\* The link may lose any of what it carries.
Lose ==
    /\ transit' \in SUBSET transit
    /\ UNCHANGED <<clock, offered, delivered>>

Tick ==
    /\ clock' = clock + 1
    /\ UNCHANGED <<offered, transit, delivered>>

Next == Offer \/ (\E d \in transit : Deliver(d)) \/ Lose \/ Tick

Spec == Init /\ [][Next]_vars
=============================================================================
