------------------------------- MODULE Relay -------------------------------
(***************************************************************************)
(* The relay in front of one node (localcluster/src/relay.rs): the loop    *)
(* that owns the listen socket and the table of peer sessions, and the     *)
(* three tasks of each session - forward worker, return reader and return  *)
(* worker - that share its upstream socket.                                *)
(*                                                                         *)
(* Each leg is reduced to how many datagrams it carries; that it delays    *)
(* them, loses some and reorders few is RelayFlow's subject.  A session is *)
(* named by its number of creation, which also stands for its upstream     *)
(* socket, the source address the node sees.                               *)
(***************************************************************************)
EXTENDS Naturals, Sequences, FiniteSets, SequencesExt

CONSTANTS
    Peers,          \* source addresses of datagrams from other nodes
    MaxSessions,    \* MAX_SESSIONS
    LegCap,         \* capacity of one leg
    Cuttable,       \* the peers whose link the blocked-links file may name
    NodeUpFirst,    \* TRUE: the node is bound before the first datagram
    MaxGen          \* bound: sessions ever created

ASSUME RelayConstants ==
    /\ IsFiniteSet(Peers)
    /\ MaxSessions \in Nat \ {0}
    /\ LegCap \in Nat \ {0}
    /\ Cuttable \subseteq Peers
    /\ NodeUpFirst \in BOOLEAN
    /\ MaxGen \in Nat
    /\ 0 \notin Peers

Gen  == 1 .. MaxGen
Kind == {"forward", "reader", "return"}
None == 0

VARIABLES
    running,    \* the relay loop runs
    sess,       \* sessions: the session of a peer, or None
    recency,    \* the peers of the table by last_seen, oldest first
    hand,       \* the datagram the loop has let past the block check: its peer, or None
    made,       \* sessions created so far
    peerOf,     \* the peer a session was created for
    tasks,      \* live tasks <<session, kind>>
    aborted,    \* sessions whose JoinSet was dropped
    fwd,        \* datagrams on the forward leg of a session
    ret,        \* datagrams on its return leg
    held,       \* sessions whose reader has let a reply past the block check
    inbox,      \* replies waiting in the receive buffer of its upstream socket
    sockErr,    \* sessions whose upstream socket has an error pending
    known,      \* sessions the node has heard from
    nodeUp,     \* the node is bound to its real port
    blocked     \* peers whose link with the node is cut (both directions)

vars == <<running, sess, recency, hand, made, peerOf, tasks, aborted, fwd, ret, held,
          inbox, sockErr, known, nodeUp, blocked>>

legs == <<fwd, ret, held, inbox, sockErr, known>>
table == <<running, sess, recency, hand, made, peerOf>>

Init ==
    /\ running = TRUE
    /\ sess = [p \in Peers |-> None]
    /\ recency = << >>
    /\ hand = None
    /\ made = 0
    /\ peerOf = [g \in Gen |-> None]
    /\ tasks = {}
    /\ aborted = {}
    /\ fwd = [g \in Gen |-> 0]
    /\ ret = [g \in Gen |-> 0]
    /\ held = {}
    /\ inbox = [g \in Gen |-> 0]
    /\ sockErr = {}
    /\ known = {}
    /\ nodeUp = NodeUpFirst
    /\ blocked = {}

-----------------------------------------------------------------------------
(* run_relay: one datagram from peer p.                                    *)

EvictsEarly == Len(recency) + 1 >= MaxSessions

EvictsLate == Len(recency) > MaxSessions

\* sessions.len() >= MAX_SESSIONS
Full == Len(recency) >= MaxSessions

\* The peers whose sessions an insertion evicts: the least recently seen one
\* when the table is full.
Victims == IF Full /\ recency # << >> THEN {Head(recency)} ELSE {}

\* The order of the table without its victims, and without peer p.
Kept == IF Victims = {} THEN recency ELSE Tail(recency)
Without(p) == RemoveAt(recency, CHOOSE i \in DOMAIN recency : recency[i] = p)

DropDetached(P) == UNCHANGED aborted

\* Dropping a Session aborts its JoinSet.
Drop(P) == aborted' = aborted \union {sess[p] : p \in P}

\* recv_from yields a datagram of a peer in the table.
Receive(p) ==
    /\ running /\ hand = None
    /\ sess[p] # None
    /\ p \notin blocked
    /\ hand' = p
    /\ recency' = Append(Without(p), p)
    /\ UNCHANGED <<running, sess, made, peerOf, tasks, aborted, nodeUp, blocked, legs>>

\* A new peer: make room, then new_upstream with its three tasks.  A blocked
\* peer gets its session too, but the datagram goes no further.
ReceiveNew(p) ==
    /\ running /\ hand = None
    /\ sess[p] = None
    /\ made < MaxGen
    /\ LET g == made + 1
       IN  /\ made' = g
           /\ peerOf' = [peerOf EXCEPT ![g] = p]
           /\ tasks' = tasks \union ({g} \X Kind)
           /\ sess' = [q \in Peers |-> IF q = p THEN g
                                       ELSE IF q \in Victims THEN None ELSE sess[q]]
    /\ recency' = Append(Kept, p)
    /\ Drop(Victims)
    /\ hand' = IF p \in blocked THEN None ELSE p
    /\ UNCHANGED <<running, nodeUp, blocked, legs>>

\* new_upstream fails (no socket): the datagram is dropped, the evicted session
\* is gone all the same.
ReceiveNewFails(p) ==
    /\ running /\ hand = None
    /\ sess[p] = None
    /\ sess' = [q \in Peers |-> IF q \in Victims THEN None ELSE sess[q]]
    /\ recency' = Kept
    /\ Drop(Victims)
    /\ UNCHANGED <<running, hand, made, peerOf, tasks, nodeUp, blocked, legs>>

\* forward_tx.try_send: queued, dropped when full, or - the worker gone - the
\* session is removed.
Enqueue ==
    /\ running /\ hand # None
    /\ LET g == sess[hand]
       IN  IF <<g, "forward">> \in tasks
           THEN /\ fwd' = [fwd EXCEPT ![g] = IF @ < LegCap THEN @ + 1 ELSE @]
                /\ UNCHANGED <<sess, recency, aborted>>
           ELSE /\ sess' = [sess EXCEPT ![hand] = None]
                /\ recency' = Without(hand)
                /\ Drop({hand})
                /\ UNCHANGED fwd
    /\ hand' = None
    /\ UNCHANGED <<running, made, peerOf, tasks, ret, held, inbox, sockErr, known, nodeUp, blocked>>

\* RelayHandle::abort, or recv_from fails: the loop ends and the table with it.
Stop ==
    /\ running
    /\ running' = FALSE
    /\ hand' = None
    /\ sess' = [p \in Peers |-> None]
    /\ recency' = << >>
    /\ Drop({p \in Peers : sess[p] # None})
    /\ UNCHANGED <<made, peerOf, tasks, nodeUp, blocked, legs>>

\* The upstream socket is open while a task holds it.
SocketOpen(g) == <<g, "forward">> \in tasks \/ <<g, "reader">> \in tasks

\* The runtime cancels the tasks of a dropped JoinSet one by one, each at its
\* next await point; until then they may go on.  What a task held goes with it,
\* the socket with the last of the two that share it.
Cancel(g, k) ==
    /\ g \in aborted
    /\ <<g, k>> \in tasks
    /\ tasks' = tasks \ {<<g, k>>}
    /\ fwd' = IF k = "forward" THEN [fwd EXCEPT ![g] = 0] ELSE fwd
    /\ ret' = IF k = "return" THEN [ret EXCEPT ![g] = 0] ELSE ret
    /\ held' = IF k = "reader" THEN held \ {g} ELSE held
    /\ IF SocketOpen(g)'
       THEN UNCHANGED <<inbox, sockErr, known>>
       ELSE /\ inbox' = [inbox EXCEPT ![g] = 0]
            /\ sockErr' = sockErr \ {g}
            /\ known' = known \ {g}
    /\ UNCHANGED <<table, aborted, nodeUp, blocked>>

-----------------------------------------------------------------------------
(* The tasks of a session.                                                 *)

ForwardQuitsOnError(g) ==
    /\ <<g, "forward">> \in tasks
    /\ fwd[g] > 0
    /\ fwd' = [fwd EXCEPT ![g] = @ - 1]
    /\ IF g \in sockErr
       THEN /\ sockErr' = sockErr \ {g}
            /\ tasks' = tasks \ {<<g, "forward">>}
            /\ UNCHANGED known
       ELSE IF nodeUp
       THEN known' = known \union {g} /\ UNCHANGED <<sockErr, tasks>>
       ELSE sockErr' = sockErr \union {g} /\ UNCHANGED <<known, tasks>>
    /\ UNCHANGED <<table, aborted, ret, held, inbox, nodeUp, blocked>>

\* The forward worker sends: a pending error of the socket is reported instead
\* (warn, datagram lost); with nobody at the node's port the kernel marks the
\* socket with the refusal.
ForwardSend(g) ==
    /\ <<g, "forward">> \in tasks
    /\ fwd[g] > 0
    /\ fwd' = [fwd EXCEPT ![g] = @ - 1]
    /\ IF g \in sockErr
       THEN sockErr' = sockErr \ {g} /\ UNCHANGED known
       ELSE IF nodeUp
       THEN known' = known \union {g} /\ UNCHANGED sockErr
       ELSE sockErr' = sockErr \union {g} /\ UNCHANGED known
    /\ UNCHANGED <<table, tasks, aborted, ret, held, inbox, nodeUp, blocked>>

ReaderRecvUnblocked(g) ==
    /\ <<g, "reader">> \in tasks
    /\ g \notin held /\ g \notin sockErr
    /\ inbox[g] > 0
    /\ inbox' = [inbox EXCEPT ![g] = @ - 1]
    /\ held' = held \union {g}
    /\ UNCHANGED <<table, tasks, aborted, fwd, ret, sockErr, known, nodeUp, blocked>>

\* The return reader receives a reply; over a cut link it drops it.
ReaderRecv(g) ==
    /\ <<g, "reader">> \in tasks
    /\ g \notin held /\ g \notin sockErr
    /\ inbox[g] > 0
    /\ inbox' = [inbox EXCEPT ![g] = @ - 1]
    /\ held' = IF peerOf[g] \in blocked THEN held ELSE held \union {g}
    /\ UNCHANGED <<table, tasks, aborted, fwd, ret, sockErr, known, nodeUp, blocked>>

ReaderQuitsWhenFull(g) ==
    /\ <<g, "reader">> \in tasks
    /\ g \in held
    /\ held' = held \ {g}
    /\ IF ret[g] < LegCap
       THEN ret' = [ret EXCEPT ![g] = @ + 1] /\ UNCHANGED tasks
       ELSE tasks' = tasks \ {<<g, "reader">>} /\ UNCHANGED ret
    /\ UNCHANGED <<table, aborted, fwd, inbox, sockErr, known, nodeUp, blocked>>

\* return_tx.try_send: queued, or dropped when full; with the return worker gone
\* the reader returns.
ReaderEnqueue(g) ==
    /\ <<g, "reader">> \in tasks
    /\ g \in held
    /\ held' = held \ {g}
    /\ IF <<g, "return">> \in tasks
       THEN /\ ret' = [ret EXCEPT ![g] = IF @ < LegCap THEN @ + 1 ELSE @]
            /\ UNCHANGED tasks
       ELSE /\ tasks' = tasks \ {<<g, "reader">>}
            /\ UNCHANGED ret
    /\ UNCHANGED <<table, aborted, fwd, inbox, sockErr, known, nodeUp, blocked>>

\* recv fails: the reader returns, and return_tx goes with it.
ReaderErr(g) ==
    /\ <<g, "reader">> \in tasks
    /\ g \notin held
    /\ g \in sockErr
    /\ sockErr' = sockErr \ {g}
    /\ tasks' = tasks \ {<<g, "reader">>}
    /\ UNCHANGED <<table, aborted, fwd, ret, held, inbox, known, nodeUp, blocked>>

\* The return worker sends to the peer from the listen socket.
ReturnSend(g) ==
    /\ <<g, "return">> \in tasks
    /\ ret[g] > 0
    /\ ret' = [ret EXCEPT ![g] = @ - 1]
    /\ UNCHANGED <<table, tasks, aborted, fwd, held, inbox, sockErr, known, nodeUp, blocked>>

\* No sender is left: rx.recv() yields None and the worker drops its heap.
ReturnEnds(g) ==
    /\ <<g, "return">> \in tasks
    /\ <<g, "reader">> \notin tasks
    /\ tasks' = tasks \ {<<g, "return">>}
    /\ ret' = [ret EXCEPT ![g] = 0]
    /\ UNCHANGED <<table, aborted, fwd, held, inbox, sockErr, known, nodeUp, blocked>>

-----------------------------------------------------------------------------
(* The node and the test that cuts links.                                  *)

NodeStarts ==
    /\ ~nodeUp
    /\ nodeUp' = TRUE
    /\ UNCHANGED <<table, tasks, aborted, legs, blocked>>

\* The node answers a source it has heard from.
NodeReplies(g) ==
    /\ nodeUp /\ g \in known
    /\ SocketOpen(g) /\ inbox[g] < LegCap
    /\ inbox' = [inbox EXCEPT ![g] = @ + 1]
    /\ UNCHANGED <<table, tasks, aborted, fwd, ret, held, sockErr, known, nodeUp, blocked>>

\* watch_blocked_links re-reads its file: a pair there cuts both directions.
WatchBlockedLinks ==
    /\ blocked' \in SUBSET Cuttable
    /\ blocked' # blocked
    /\ UNCHANGED <<table, tasks, aborted, legs, nodeUp>>

Loop == Enqueue \/ \E p \in Peers : Receive(p) \/ ReceiveNew(p) \/ ReceiveNewFails(p)

Session(g) ==
    \/ ForwardSend(g)
    \/ ReaderRecv(g) \/ ReaderEnqueue(g) \/ ReaderErr(g)
    \/ ReturnSend(g) \/ ReturnEnds(g)

Next ==
    \/ Loop
    \/ Stop
    \/ \E g \in Gen : \/ Session(g) \/ NodeReplies(g)
                      \/ \E k \in Kind : Cancel(g, k)
    \/ NodeStarts
    \/ WatchBlockedLinks

Spec == Init /\ [][Next]_vars

\* Every ready task is polled in the end and an aborted one is cancelled; what
\* the peers, the node and the test do is up to them.
Fairness ==
    \A g \in Gen :
        /\ WF_vars(ForwardSend(g))
        /\ WF_vars(ReaderRecv(g)) /\ WF_vars(ReaderEnqueue(g)) /\ WF_vars(ReaderErr(g))
        /\ WF_vars(ReturnSend(g)) /\ WF_vars(ReturnEnds(g))
        /\ \A k \in Kind : WF_vars(Cancel(g, k))

FairSpec == Spec /\ Fairness

-----------------------------------------------------------------------------
\* The values the variables take; a live task and a dropped session were created.
TypeOK ==
    /\ running \in BOOLEAN
    /\ sess \in [Peers -> 0 .. made]
    /\ recency \in Seq(Peers)
    /\ hand \in Peers \union {None}
    /\ made \in 0 .. MaxGen
    /\ peerOf \in [Gen -> Peers \union {None}]
    /\ tasks \subseteq (1 .. made) \X Kind
    /\ aborted \subseteq 1 .. made
    /\ fwd \in [Gen -> 0 .. LegCap]
    /\ ret \in [Gen -> 0 .. LegCap]
    /\ held \subseteq Gen
    /\ inbox \in [Gen -> 0 .. LegCap]
    /\ sockErr \subseteq Gen
    /\ known \subseteq Gen
    /\ nodeUp \in BOOLEAN
    /\ blocked \subseteq Peers

\* The table never outgrows MAX_SESSIONS, nor a channel its capacity, through
\* evictions, failed creations and removals alike, and last_seen orders exactly
\* the sessions it holds.
TableBounded ==
    /\ TypeOK
    /\ Len(recency) =< MaxSessions
    /\ ToSet(recency) = {p \in Peers : sess[p] # None}
    /\ \A i, j \in DOMAIN recency : recency[i] = recency[j] => i = j

\* "so no worker is left detached": a task that is not about to be cancelled
\* belongs to the session its peer has now.
NoDetachedWorker ==
    \A g \in Gen, k \in Kind :
        <<g, k>> \in tasks => g \in aborted \/ sess[peerOf[g]] = g

\* While the table has a session its forward worker lives, so try_send never
\* finds the channel closed and the loop's `expect` has its session.
ForwardWorkerOutlivesSession ==
    /\ \A p \in Peers : sess[p] # None => <<sess[p], "forward">> \in tasks
    /\ hand # None => sess[hand] # None

\* "the node then sees each peer as a stable distinct source": up to MAX_SESSIONS
\* peers, a session once created stays until the relay stops.
StableSource ==
    [][Cardinality(Peers) =< MaxSessions /\ running' =>
         \A p \in Peers : sess[p] # None => sess'[p] = sess[p]]_vars

\* Datagrams peer p has in the relay.
Carried(p) ==
    LET mine == {g \in Gen : peerOf[g] = p}
    IN  Cardinality(UNION {{<<g, "f", n>> : n \in 1 .. fwd[g]} : g \in mine})
        + Cardinality(UNION {{<<g, "r", n>> : n \in 1 .. ret[g]} : g \in mine})
        + Cardinality(held \intersect mine)
        + (IF hand = p THEN 1 ELSE 0)

\* A cut link lets nothing new through in either direction: while it stays cut
\* the relay only drains what it already carries for that peer.
CutLinkDrains ==
    [][\A p \in blocked \intersect blocked' : Carried(p)' =< Carried(p)]_vars

\* "relays the node's replies back": replies never wait in a session's socket for
\* good - one is picked up now and then, unless the session ends.
RepliesPickedUp ==
    \A g \in Gen :
        \/ <>[](inbox[g] = 0 \/ g \in aborted)
        \/ []<><<inbox'[g] < inbox[g]>>_inbox
=============================================================================
