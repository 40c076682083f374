----------------------------- MODULE RelayFlow -----------------------------
(***************************************************************************)
(* One directed flow of a latency relay (localcluster/src/relay.rs): the   *)
(* bounded channel the relay loop (forward leg) or the return reader       *)
(* (return leg) puts datagrams into, and the sender_worker task that moves *)
(* them into a heap ordered by release time and sends them when due.       *)
(*                                                                         *)
(* Two tasks and the clock interleave: the producer's try_send, the        *)
(* worker's steps between its await points (the socket's send, the         *)
(* select), and time.  A datagram is an identifier; its bytes play no part.*)
(***************************************************************************)
EXTENDS Naturals, Sequences, FiniteSets

CONSTANTS
    QueueCap,        \* RELAY_QUEUE_CAP
    MinDelay,        \* the delay distribution samples MinDelay..MaxDelay;
    MaxDelay,        \* DelayDist::Fixed has MinDelay = MaxDelay
    StallDelay,      \* extra hold inside a stall window; 0: the link never stalls
    MaxInstant,      \* the last representable Instant
    MaxDatagrams,    \* bound: datagrams offered to the flow
    MaxTime          \* bound: the clock stops here

ASSUME RelayFlowConstants ==
    /\ QueueCap \in Nat \ {0}
    /\ MinDelay \in Nat /\ MaxDelay \in Nat /\ MinDelay =< MaxDelay
    /\ StallDelay \in Nat
    /\ MaxInstant \in Nat
    /\ MaxDatagrams \in Nat
    /\ MaxTime \in Nat

VARIABLES
    clock,     \* Instant::now()
    offered,   \* datagrams offered so far; the n-th has id n
    queue,     \* the mpsc channel, a sequence of Pending
    txOpen,    \* some Sender of the channel is alive
    heap,      \* the BinaryHeap, a set of entries
    seq,       \* the worker's tie-breaker
    now,       \* the worker's reading of the clock for the current pass
    pc,        \* where the worker is
    outbox,    \* the entry whose send is awaited: none or one
    sent       \* history: what was handed to the network, and when

vars == <<clock, offered, queue, txOpen, heap, seq, now, pc, outbox, sent>>

Pending == [id : Nat, at : Nat, arrival : Nat]
Entry   == [id : Nat, at : Nat, release : Nat, seq : Nat]
Sent    == [id : Nat, at : Nat, when : Nat]

Sampled == MinDelay .. MaxDelay

Init ==
    /\ clock = 0
    /\ offered = 0
    /\ queue = << >>
    /\ txOpen = TRUE
    /\ heap = {}
    /\ seq = 0
    /\ now = 0
    /\ pc = "top"
    /\ outbox = {}
    /\ sent = << >>

-----------------------------------------------------------------------------
(* The producer: run_relay for the forward leg, the return reader for the  *)
(* return leg.                                                             *)

\* try_send((Instant::now() + stall_delay(..), datagram)): queued, or dropped
\* when the channel is full.  The first guard bounds the instance; the second
\* keeps every release within the modelled time.
TrySend(held) ==
    /\ offered < MaxDatagrams
    /\ clock + StallDelay + MaxDelay =< MaxTime
    /\ txOpen
    /\ offered' = offered + 1
    /\ queue' = IF Len(queue) < QueueCap
                THEN Append(queue, [id |-> offered + 1, at |-> clock,
                                    arrival |-> clock + held])
                ELSE queue
    /\ UNCHANGED <<clock, txOpen, heap, seq, now, pc, outbox, sent>>

\* The last sender goes away while the worker lives on: the return reader
\* returned after a receive error.
CloseTx ==
    /\ txOpen
    /\ txOpen' = FALSE
    /\ UNCHANGED <<clock, offered, queue, heap, seq, now, pc, outbox, sent>>

-----------------------------------------------------------------------------
(* sender_worker                                                           *)

BeforeIgnoringSeq(a, b) == a.release =< b.release

\* Reverse((release, seq, _)): release time first, then order of insertion.
Before(a, b) ==
    \/ a.release < b.release
    \/ a.release = b.release /\ a.seq =< b.seq

IsNext(e) == e \in heap /\ \A f \in heap : Before(e, f)

\* let now = Instant::now(), at the top of the loop.
StartPass ==
    /\ pc = "top"
    /\ now' = clock
    /\ pc' = "drain"
    /\ UNCHANGED <<clock, offered, queue, txOpen, heap, seq, outbox, sent>>

PopAnyDue ==
    /\ pc = "drain"
    /\ \E e \in heap :
         /\ e.release =< now
         /\ heap' = heap \ {e}
         /\ outbox' = {e}
    /\ pc' = "sending"
    /\ UNCHANGED <<clock, offered, queue, txOpen, seq, now, sent>>

PopUnchecked ==
    /\ pc = "drain"
    /\ \E e \in heap :
         /\ IsNext(e)
         /\ heap' = heap \ {e}
         /\ outbox' = {e}
    /\ pc' = "sending"
    /\ UNCHANGED <<clock, offered, queue, txOpen, seq, now, sent>>

\* while heap.peek() is due: pop it and start sending it.
Pop ==
    /\ pc = "drain"
    /\ \E e \in heap :
         /\ IsNext(e)
         /\ e.release =< now
         /\ heap' = heap \ {e}
         /\ outbox' = {e}
    /\ pc' = "sending"
    /\ UNCHANGED <<clock, offered, queue, txOpen, seq, now, sent>>

SendErrKeep ==
    /\ pc = "sending"
    /\ pc' = "drain"
    /\ UNCHANGED <<clock, offered, queue, txOpen, heap, seq, now, outbox, sent>>

\* The awaited send completes; on an error the datagram is gone (a warning).
SendOk ==
    /\ pc = "sending"
    /\ \E e \in outbox :
         sent' = Append(sent, [id |-> e.id, at |-> e.at, when |-> clock])
    /\ outbox' = {}
    /\ pc' = "drain"
    /\ UNCHANGED <<clock, offered, queue, txOpen, heap, seq, now>>

SendErr ==
    /\ pc = "sending"
    /\ outbox' = {}
    /\ pc' = "drain"
    /\ UNCHANGED <<clock, offered, queue, txOpen, heap, seq, now, sent>>

\* Nothing (more) is due: wait in the select.
EndPass ==
    /\ pc = "drain"
    /\ \A e \in heap : e.release > now
    /\ pc' = "select"
    /\ UNCHANGED <<clock, offered, queue, txOpen, heap, seq, now, outbox, sent>>

\* rx.recv() wins the select: push the datagram with its release time, unless
\* the heap is full or the release time is not representable.
Push(p, sampled) ==
    IF p.arrival + sampled =< MaxInstant
    THEN /\ heap' = heap \union {[id |-> p.id, at |-> p.at,
                                  release |-> p.arrival + sampled, seq |-> seq]}
         /\ seq' = seq + 1
    ELSE UNCHANGED <<heap, seq>>

RecvUncapped ==
    /\ pc = "select"
    /\ queue # << >>
    /\ queue' = Tail(queue)
    /\ \E sampled \in Sampled : Push(Head(queue), sampled)
    /\ pc' = "top"
    /\ UNCHANGED <<clock, offered, txOpen, now, outbox, sent>>

Recv ==
    /\ pc = "select"
    /\ queue # << >>
    /\ queue' = Tail(queue)
    /\ IF Cardinality(heap) >= QueueCap
       THEN UNCHANGED <<heap, seq>>
       ELSE \E sampled \in Sampled : Push(Head(queue), sampled)
    /\ pc' = "top"
    /\ UNCHANGED <<clock, offered, txOpen, now, outbox, sent>>

\* rx.recv() returns None: the worker returns and its heap is dropped.
RecvClosed ==
    /\ pc = "select"
    /\ queue = << >>
    /\ ~txOpen
    /\ pc' = "done"
    /\ heap' = {}
    /\ UNCHANGED <<clock, offered, queue, txOpen, seq, now, outbox, sent>>

TimerNever == FALSE /\ UNCHANGED vars

\* sleep_until(next_release) wins the select.
Timer ==
    /\ pc = "select"
    /\ \E e \in heap : e.release =< clock
    /\ pc' = "top"
    /\ UNCHANGED <<clock, offered, queue, txOpen, heap, seq, now, outbox, sent>>

\* The session is dropped: its JoinSet cancels the worker at an await point and
\* the Sender it owns goes with it.
Cancel ==
    /\ pc \in {"sending", "select"}
    /\ pc' = "done"
    /\ txOpen' = FALSE
    /\ queue' = << >>
    /\ heap' = {}
    /\ outbox' = {}
    /\ UNCHANGED <<clock, offered, seq, now, sent>>

Tick ==
    /\ clock < MaxTime
    /\ clock' = clock + 1
    /\ UNCHANGED <<offered, queue, txOpen, heap, seq, now, pc, outbox, sent>>

Worker == StartPass \/ Pop \/ SendOk \/ SendErr \/ EndPass \/ Recv \/ RecvClosed \/ Timer

Next ==
    \/ \E held \in {0, StallDelay} : TrySend(held)
    \/ CloseTx
    \/ Worker
    \/ Cancel
    \/ Tick

Spec == Init /\ [][Next]_vars

\* The runtime keeps polling a worker that is ready, and time passes.
FairSpec == Spec /\ WF_vars(Worker) /\ WF_vars(Tick)

-----------------------------------------------------------------------------
\* The values the variables take, and that an entry is popped exactly while its
\* send is awaited.
TypeOK ==
    /\ clock \in Nat
    /\ offered \in Nat
    /\ queue \in Seq(Pending)
    /\ txOpen \in BOOLEAN
    /\ heap \in SUBSET Entry
    /\ seq \in Nat
    /\ now \in Nat
    /\ pc \in {"top", "drain", "sending", "select", "done"}
    /\ outbox \in SUBSET Entry
    /\ \A e, f \in outbox : e = f
    /\ outbox # {} <=> pc = "sending"
    /\ sent \in Seq(Sent)

\* How far apart two datagrams may have been offered and still be reordered.
Window == (MaxDelay - MinDelay) + StallDelay

\* RELAY_QUEUE_CAP bounds the channel and the heap each, whatever the rates of
\* the producer, the worker and the clock (relay.rs, sender_worker).
BuffersBounded ==
    /\ Len(queue) =< QueueCap
    /\ IsFiniteSet(heap)
    /\ Cardinality(heap) =< QueueCap

\* No datagram leaves before the least delay of its link has passed since it
\* arrived at the relay (release time is arrival + sampled delay).
NeverEarly ==
    \A i \in DOMAIN sent : sent[i].at + MinDelay =< sent[i].when

\* A datagram overtakes one offered before it only if they were offered less
\* than the jitter plus the stall hold apart.
ReorderOnlyInWindow ==
    \A i, j \in DOMAIN sent :
        i < j /\ sent[j].id < sent[i].id => sent[i].at < sent[j].at + Window

\* "a fixed delay shifts every packet equally, so order is preserved": with one
\* possible delay and no stall the flow delivers in the order of arrival, and
\* never twice.
FixedDelayKeepsOrder ==
    MinDelay = MaxDelay /\ StallDelay = 0 =>
        \A i, j \in DOMAIN sent : i < j => sent[i].id < sent[j].id

\* The identifiers of the datagrams the flow still holds.
InTransit ==
    {queue[i].id : i \in DOMAIN queue} \union {e.id : e \in heap \union outbox}

\* A datagram the flow holds leaves it in the end: sent, dropped, or gone with
\* the worker.  A quiet flow needs the timer for that.
EventuallyLeaves ==
    \A n \in 1 .. MaxDatagrams : n \in InTransit ~> n \notin InTransit

-----------------------------------------------------------------------------
(* The flow implements the abstract link.                                  *)

Transit ==
    {[id |-> queue[i].id, at |-> queue[i].at] : i \in DOMAIN queue}
        \union {[id |-> e.id, at |-> e.at] : e \in heap \union outbox}

Link == INSTANCE DelayLink WITH transit <- Transit, delivered <- sent

\* Every step of the flow is a step of the abstract link: accepted, lost,
\* delivered on time and inside the reordering window, or nothing at all.
LinkSpec == Link!Spec
=============================================================================
