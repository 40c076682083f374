-------------------------- MODULE RelayFlowProofs --------------------------
(***************************************************************************)
(* Proofs about RelayFlow for every capacity, delay range, stall hold and  *)
(* bound: the buffers stay within RELAY_QUEUE_CAP, no datagram leaves      *)
(* early, and reordering stays inside the window (so a fixed delay keeps   *)
(* the order of arrival).                                                  *)
(***************************************************************************)
EXTENDS RelayFlow, FiniteSetTheorems, TLAPS

Held == heap \union outbox

\* The channel holds datagrams in the order they were offered, with arrival
\* times that lag behind by at most the stall hold.
QueueInv ==
    /\ \A i \in DOMAIN queue :
         /\ queue[i].id =< offered
         /\ queue[i].at =< clock
         /\ queue[i].at =< queue[i].arrival
         /\ queue[i].arrival =< queue[i].at + StallDelay
    /\ \A i, j \in DOMAIN queue :
         i < j => queue[i].id < queue[j].id /\ queue[i].at =< queue[j].at

\* What the worker holds was offered before everything in the channel, carries
\* seq numbers in the order of the offers, and is released inside its window.
HeldInv ==
    /\ \A e \in Held :
         /\ e.id =< offered
         /\ e.at =< clock
         /\ e.seq < seq
         /\ e.at + MinDelay =< e.release
         /\ e.release =< e.at + StallDelay + MaxDelay
         /\ \A i \in DOMAIN queue : e.id < queue[i].id /\ e.at =< queue[i].at
    /\ \A e, f \in Held : e.id < f.id => e.seq < f.seq /\ e.at =< f.at
    /\ \A e, f \in Held : e.id = f.id => e = f

\* The popped entry was due, and is released strictly before every older one
\* still in the heap.
OutboxInv ==
    /\ now =< clock
    /\ \A e \in outbox :
         /\ e \notin heap
         /\ e.release =< now
         /\ \A f \in heap : f.id < e.id => e.release < f.release

\* What was sent, against itself, the channel and what the worker holds.
SentInv ==
    /\ \A i \in DOMAIN sent :
         /\ sent[i].id =< offered
         /\ sent[i].at =< clock
         /\ \A k \in DOMAIN queue : sent[i].id < queue[k].id /\ sent[i].at =< queue[k].at
         /\ \A e \in Held :
              /\ e.id # sent[i].id
              /\ sent[i].id < e.id => sent[i].at =< e.at
              /\ e.id < sent[i].id => e.at =< sent[i].at /\ sent[i].at < e.at + Window
    /\ \A i, j \in DOMAIN sent :
         i < j => /\ sent[i].id # sent[j].id
                  /\ sent[j].id < sent[i].id => sent[j].at =< sent[i].at

IInv ==
    /\ TypeOK
    /\ QueueInv
    /\ HeldInv
    /\ OutboxInv
    /\ SentInv
    /\ NeverEarly
    /\ ReorderOnlyInWindow

-----------------------------------------------------------------------------

\* A push puts the head of the channel, with a release time inside its window,
\* after everything the worker holds.
LEMMA PushShape ==
    ASSUME TypeOK, Recv
    PROVE  /\ queue # << >> /\ Head(queue) \in Pending /\ queue' = Tail(queue)
           /\ \/ heap' = heap /\ seq' = seq
              \/ \E e \in Entry :
                   /\ heap' = heap \union {e} /\ seq' = seq + 1
                   /\ e.id = Head(queue).id /\ e.at = Head(queue).at /\ e.seq = seq
                   /\ Head(queue).arrival + MinDelay =< e.release
                   /\ e.release =< Head(queue).arrival + MaxDelay
  <1> USE RelayFlowConstants
  <1>1. queue # << >> /\ Head(queue) \in Pending /\ queue' = Tail(queue)
    BY DEF Recv, TypeOK
  <1>2. CASE Cardinality(heap) >= QueueCap
    BY <1>1, <1>2 DEF Recv
  <1>3. CASE ~(Cardinality(heap) >= QueueCap)
    <2>1. PICK sampled \in Sampled : Push(Head(queue), sampled)
      BY <1>3 DEF Recv
    <2> DEFINE new == [id |-> Head(queue).id, at |-> Head(queue).at,
                       release |-> Head(queue).arrival + sampled, seq |-> seq]
    <2>2. new \in Entry
      BY <1>1 DEF TypeOK, Pending, Entry, Sampled
    <2>3. Head(queue).arrival \in Nat /\ sampled \in Nat
          /\ MinDelay =< sampled /\ sampled =< MaxDelay
      BY <1>1 DEF Pending, Sampled
    <2>4. CASE Head(queue).arrival + sampled =< MaxInstant
      <3>1. heap' = heap \union {new} /\ seq' = seq + 1
        BY <2>1, <2>4 DEF Push
      <3>2. /\ new.id = Head(queue).id /\ new.at = Head(queue).at /\ new.seq = seq
            /\ Head(queue).arrival + MinDelay =< new.release
            /\ new.release =< Head(queue).arrival + MaxDelay
        BY <2>3
      <3> HIDE DEF new
      <3> QED
        BY <1>1, <2>2, <3>1, <3>2
    <2>5. CASE ~(Head(queue).arrival + sampled =< MaxInstant)
      BY <1>1, <2>1, <2>5 DEF Push
    <2> QED
      BY <2>4, <2>5
  <1> QED
    BY <1>2, <1>3

\* Every step keeps the types (all constants).
LEMMA TypeStep == TypeOK /\ [Next]_vars => TypeOK'
  <1> SUFFICES ASSUME TypeOK, [Next]_vars PROVE TypeOK'
    OBVIOUS
  <1> USE RelayFlowConstants
  <1>1. ASSUME NEW held \in {0, StallDelay}, TrySend(held) PROVE TypeOK'
    <2>1. [id |-> offered + 1, at |-> clock, arrival |-> clock + held] \in Pending
      BY DEF TypeOK, Pending
    <2>2. queue' \in Seq(Pending)
      BY <1>1, <2>1 DEF TrySend, TypeOK
    <2> QED
      BY <1>1, <2>2 DEF TrySend, TypeOK
  <1>2. CASE CloseTx
    BY <1>2 DEF CloseTx, TypeOK
  <1>3. CASE StartPass
    BY <1>3 DEF StartPass, TypeOK
  <1>4. CASE Pop
    BY <1>4 DEF Pop, TypeOK
  <1>5. CASE SendOk
    <2>1. PICK e \in outbox : sent' = Append(sent, [id |-> e.id, at |-> e.at, when |-> clock])
      BY <1>5 DEF SendOk
    <2>2. [id |-> e.id, at |-> e.at, when |-> clock] \in Sent
      BY <2>1 DEF TypeOK, Entry, Sent
    <2>3. sent' \in Seq(Sent)
      BY <2>1, <2>2 DEF TypeOK
    <2> QED
      BY <1>5, <2>3 DEF SendOk, TypeOK
  <1>6. CASE SendErr
    BY <1>6 DEF SendErr, TypeOK
  <1>7. CASE EndPass
    BY <1>7 DEF EndPass, TypeOK
  <1>8. CASE Recv
    <2>1. Head(queue) \in Pending /\ Tail(queue) \in Seq(Pending)
      BY <1>8 DEF Recv, TypeOK
    <2>2. heap' \in SUBSET Entry /\ seq' \in Nat
      BY <1>8, PushShape DEF TypeOK
    <2> QED
      BY <1>8, <2>1, <2>2 DEF Recv, TypeOK
  <1>9. CASE RecvClosed
    BY <1>9 DEF RecvClosed, TypeOK
  <1>10. CASE Timer
    BY <1>10 DEF Timer, TypeOK
  <1>11. CASE Cancel
    <2>1. queue' \in Seq(Pending) /\ heap' \in SUBSET Entry /\ outbox' = {} /\ pc' = "done"
      BY <1>11 DEF Cancel
    <2> QED
      BY <1>11, <2>1 DEF Cancel, TypeOK
  <1>12. CASE Tick
    BY <1>12 DEF Tick, TypeOK
  <1>13. CASE UNCHANGED vars
    BY <1>13 DEF vars, TypeOK
  <1> QED
    BY <1>1, <1>2, <1>3, <1>4, <1>5, <1>6, <1>7, <1>8, <1>9, <1>10, <1>11, <1>12, <1>13
       DEF Next, Worker

\* The type invariant holds of every behaviour of the flow, for all constants.
THEOREM TypeCorrect == Spec => []TypeOK
  <1>1. Init => TypeOK
    BY DEF Init, TypeOK
  <1> QED
    BY <1>1, TypeStep, PTL DEF Spec

-----------------------------------------------------------------------------

\* Neither the channel nor the heap ever exceeds RELAY_QUEUE_CAP: the guards of
\* try_send and of the push suffice, whatever the order of the steps.
THEOREM BuffersAlwaysBounded == Spec => []BuffersBounded
  <1>1. Init => BuffersBounded
    BY FS_EmptySet, RelayFlowConstants DEF Init, BuffersBounded
  <1>2. TypeOK /\ BuffersBounded /\ [Next]_vars => BuffersBounded'
    <2> SUFFICES ASSUME TypeOK, BuffersBounded, [Next]_vars PROVE BuffersBounded'
      OBVIOUS
    <2> USE RelayFlowConstants
    <2>1. Len(queue') =< QueueCap
      <3>1. ASSUME NEW held \in {0, StallDelay}, TrySend(held) PROVE Len(queue') =< QueueCap
        BY <3>1 DEF TrySend, TypeOK, BuffersBounded
      <3>2. CASE Recv
        BY <3>2 DEF Recv, TypeOK, BuffersBounded
      <3>3. CASE Cancel
        BY <3>3 DEF Cancel
      <3>4. CASE UNCHANGED queue
        BY <3>4 DEF BuffersBounded
      <3> QED
        BY <3>1, <3>2, <3>3, <3>4
           DEF Next, Worker, CloseTx, StartPass, Pop, SendOk, SendErr, EndPass, RecvClosed,
               Timer, Tick, vars
    <2>2. IsFiniteSet(heap') /\ Cardinality(heap') =< QueueCap
      <3>1. ASSUME NEW e \in heap, heap' = heap \ {e}
            PROVE IsFiniteSet(heap') /\ Cardinality(heap') =< QueueCap
        <4>1. Cardinality(heap) \in Nat
          BY FS_CardinalityType DEF BuffersBounded
        <4>2. IsFiniteSet(heap') /\ Cardinality(heap') = Cardinality(heap) - 1
          BY <3>1, FS_RemoveElement DEF BuffersBounded
        <4> QED
          BY <4>1, <4>2 DEF BuffersBounded
      <3>2. ASSUME NEW e, heap' = heap \union {e}, Cardinality(heap) < QueueCap
            PROVE IsFiniteSet(heap') /\ Cardinality(heap') =< QueueCap
        BY <3>2, FS_AddElement, FS_CardinalityType DEF BuffersBounded
      <3>3. ASSUME heap' = {} PROVE IsFiniteSet(heap') /\ Cardinality(heap') =< QueueCap
        BY <3>3, FS_EmptySet
      <3>4. CASE Pop
        BY <3>4, <3>1 DEF Pop
      <3>5. CASE Recv
        <4>1. CASE Cardinality(heap) >= QueueCap
          BY <3>5, <4>1 DEF Recv, BuffersBounded
        <4>2. CASE ~(Cardinality(heap) >= QueueCap)
          <5>1. Cardinality(heap) < QueueCap
            BY <4>2, FS_CardinalityType DEF BuffersBounded
          <5>2. PICK sampled \in Sampled : Push(Head(queue), sampled)
            BY <3>5, <4>2 DEF Recv
          <5> QED
            BY <5>1, <5>2, <3>2 DEF Push, BuffersBounded
        <4> QED
          BY <4>1, <4>2
      <3>6. CASE RecvClosed \/ Cancel
        BY <3>6, <3>3 DEF RecvClosed, Cancel
      <3>7. CASE UNCHANGED heap
        BY <3>7 DEF BuffersBounded
      <3> QED
        BY <3>4, <3>5, <3>6, <3>7
           DEF Next, Worker, TrySend, CloseTx, StartPass, SendOk, SendErr, EndPass, Timer,
               Tick, vars
    <2> QED
      BY <2>1, <2>2 DEF BuffersBounded
  <1> QED
    BY <1>1, <1>2, TypeCorrect, PTL DEF Spec


-----------------------------------------------------------------------------

\* The numbers behind the types, in the form the order proofs use them.
LEMMA Numbers ==
    ASSUME TypeOK
    PROVE  /\ clock \in Nat /\ offered \in Nat /\ seq \in Nat /\ now \in Nat
           /\ \A i \in DOMAIN queue :
                queue[i].id \in Nat /\ queue[i].at \in Nat /\ queue[i].arrival \in Nat
           /\ \A e \in Held : e.id \in Nat /\ e.at \in Nat /\ e.release \in Nat /\ e.seq \in Nat
           /\ \A i \in DOMAIN sent :
                sent[i].id \in Nat /\ sent[i].at \in Nat /\ sent[i].when \in Nat
  <1>1. \A i \in DOMAIN queue : queue[i] \in Pending
    BY DEF TypeOK
  <1>2. \A i \in DOMAIN sent : sent[i] \in Sent
    BY DEF TypeOK
  <1>3. \A e \in Held : e \in Entry
    BY DEF TypeOK, Held
  <1> QED
    BY <1>1, <1>2, <1>3 DEF TypeOK, Pending, Entry, Sent

\* Steps that move nothing: the clock, or the worker between two await points.
LEMMA QuietStep ==
    ASSUME IInv, TypeOK', UNCHANGED <<offered, queue, heap, seq, outbox, sent>>,
           clock =< clock', now' =< clock', outbox = {} \/ now' = now
    PROVE  IInv'
  <1>1. TypeOK
    BY DEF IInv
  <1> USE <1>1, Numbers, RelayFlowConstants
  <1>2. clock' \in Nat /\ now' \in Nat /\ Held' = Held
    BY DEF TypeOK, Held
  <1>3. QueueInv'
    BY <1>2 DEF IInv, QueueInv
  <1>4. HeldInv'
    BY <1>2 DEF IInv, HeldInv
  <1>5. OutboxInv'
    BY <1>2 DEF IInv, OutboxInv
  <1>6. SentInv'
    BY <1>2 DEF IInv, SentInv, Window
  <1>7. NeverEarly' /\ ReorderOnlyInWindow'
    BY DEF IInv, NeverEarly, ReorderOnlyInWindow, Window
  <1> QED
    BY <1>3, <1>4, <1>5, <1>6, <1>7 DEF IInv

\* Steps that only lose datagrams: a failed send, the worker's return, a cancel.
LEMMA LossStep ==
    ASSUME IInv, TypeOK', UNCHANGED <<clock, offered, seq, now, sent>>,
           queue' = queue \/ queue' = << >>,
           heap' = heap \/ heap' = {}, outbox' = {}
    PROVE  IInv'
  <1>1. TypeOK
    BY DEF IInv
  <1>2. Held' \subseteq Held
    BY DEF Held
  <1>3. QueueInv'
    BY DEF IInv, QueueInv
  <1>4. HeldInv'
    BY <1>2 DEF IInv, HeldInv
  <1>5. OutboxInv'
    BY DEF IInv, OutboxInv
  <1>6. SentInv'
    BY <1>2 DEF IInv, SentInv, Window
  <1>7. NeverEarly' /\ ReorderOnlyInWindow'
    BY DEF IInv, NeverEarly, ReorderOnlyInWindow, Window
  <1> QED
    BY <1>3, <1>4, <1>5, <1>6, <1>7 DEF IInv

\* try_send: the new datagram is the youngest of all.
LEMMA TrySendStep ==
    ASSUME IInv, TypeOK', NEW held \in {0, StallDelay}, TrySend(held)
    PROVE  IInv'
  <1>1. TypeOK
    BY DEF IInv
  <1> USE RelayFlowConstants
  <1> DEFINE p == [id |-> offered + 1, at |-> clock, arrival |-> clock + held]
  <1>2. /\ offered' = offered + 1 /\ Held' = Held
        /\ UNCHANGED <<clock, heap, seq, now, outbox, sent>>
    BY DEF TrySend, Held
  <1>3. CASE Len(queue) < QueueCap
    <2>1. queue' = Append(queue, p)
      BY <1>3 DEF TrySend
    <2>2. /\ DOMAIN queue' = DOMAIN queue \union {Len(queue) + 1}
          /\ \A i \in DOMAIN queue : queue'[i] = queue[i] /\ i < Len(queue) + 1
          /\ queue'[Len(queue) + 1] = p
      BY <1>1, <2>1 DEF TypeOK
    <2>3. p.id = offered + 1 /\ p.at = clock /\ clock =< p.arrival
          /\ p.arrival =< clock + StallDelay
      BY <1>1 DEF TypeOK
    <2>4. DOMAIN queue \subseteq Nat /\ Len(queue) \in Nat
      BY <1>1 DEF TypeOK
    <2> HIDE DEF p
    <2>5. QueueInv'
      <3>1. ASSUME NEW i \in DOMAIN queue'
            PROVE  /\ queue'[i].id =< offered' /\ queue'[i].at =< clock'
                   /\ queue'[i].at =< queue'[i].arrival
                   /\ queue'[i].arrival =< queue'[i].at + StallDelay
        <4>1. CASE i \in DOMAIN queue
          <5>1. /\ queue[i].id =< offered /\ queue[i].at =< clock
                /\ queue[i].at =< queue[i].arrival
                /\ queue[i].arrival =< queue[i].at + StallDelay
            BY <4>1 DEF IInv, QueueInv
          <5>2. queue'[i] = queue[i] /\ queue[i].id \in Nat /\ offered \in Nat
            BY <4>1, <1>1, <2>2, Numbers
          <5> QED
            BY <5>1, <5>2, <1>2
        <4>2. CASE i = Len(queue) + 1
          BY <4>2, <1>1, <1>2, <2>2, <2>3, Numbers
        <4> QED
          BY <4>1, <4>2, <2>2
      <3>2. ASSUME NEW i \in DOMAIN queue', NEW j \in DOMAIN queue', i < j
            PROVE  queue'[i].id < queue'[j].id /\ queue'[i].at =< queue'[j].at
        <4>1. i \in DOMAIN queue
          BY <3>2, <2>2, <2>4
        <4>2. CASE j \in DOMAIN queue
          BY <3>2, <4>1, <4>2, <2>2 DEF IInv, QueueInv
        <4>3. CASE j = Len(queue) + 1
          <5>1. queue[i].id =< offered /\ queue[i].at =< clock
            BY <4>1 DEF IInv, QueueInv
          <5> QED
            BY <4>1, <4>3, <5>1, <1>1, <2>2, <2>3, Numbers
        <4> QED
          BY <4>2, <4>3, <2>2
      <3> QED
        BY <3>1, <3>2 DEF QueueInv
    <2>6. HeldInv'
      <3>1. \A e \in Held : \A i \in DOMAIN queue' : e.id < queue'[i].id /\ e.at =< queue'[i].at
        <4> SUFFICES ASSUME NEW e \in Held, NEW i \in DOMAIN queue'
                     PROVE  e.id < queue'[i].id /\ e.at =< queue'[i].at
          OBVIOUS
        <4>1. CASE i \in DOMAIN queue
          BY <4>1, <2>2 DEF IInv, HeldInv
        <4>2. CASE i = Len(queue) + 1
          <5>1. e.id =< offered /\ e.at =< clock
            BY DEF IInv, HeldInv
          <5> QED
            BY <4>2, <5>1, <1>1, <2>2, <2>3, Numbers
        <4> QED
          BY <4>1, <4>2, <2>2
      <3>2. \A e \in Held : e.id =< offered'
        BY <1>1, <1>2, Numbers DEF IInv, HeldInv
      <3> QED
        BY <1>2, <3>1, <3>2 DEF IInv, HeldInv
    <2>7. SentInv'
      <3>1. \A i \in DOMAIN sent : \A k \in DOMAIN queue' :
               sent[i].id < queue'[k].id /\ sent[i].at =< queue'[k].at
        <4> SUFFICES ASSUME NEW i \in DOMAIN sent, NEW k \in DOMAIN queue'
                     PROVE  sent[i].id < queue'[k].id /\ sent[i].at =< queue'[k].at
          OBVIOUS
        <4>1. CASE k \in DOMAIN queue
          BY <4>1, <2>2 DEF IInv, SentInv
        <4>2. CASE k = Len(queue) + 1
          <5>1. sent[i].id =< offered /\ sent[i].at =< clock
            BY DEF IInv, SentInv
          <5> QED
            BY <4>2, <5>1, <1>1, <2>2, <2>3, Numbers
        <4> QED
          BY <4>1, <4>2, <2>2
      <3>2. \A i \in DOMAIN sent : sent[i].id =< offered'
        BY <1>1, <1>2, Numbers DEF IInv, SentInv
      <3> QED
        BY <1>2, <3>1, <3>2 DEF IInv, SentInv, Window
    <2>8. OutboxInv' /\ NeverEarly' /\ ReorderOnlyInWindow'
      BY <1>2 DEF IInv, OutboxInv, NeverEarly, ReorderOnlyInWindow, Window
    <2> QED
      BY <2>5, <2>6, <2>7, <2>8 DEF IInv
  <1>4. CASE ~(Len(queue) < QueueCap)
    <2>1. queue' = queue
      BY <1>4 DEF TrySend
    <2>2. QueueInv' /\ HeldInv'
      BY <1>1, <1>2, <2>1, Numbers DEF IInv, QueueInv, HeldInv
    <2>3. SentInv'
      BY <1>1, <1>2, <2>1, Numbers DEF IInv, SentInv, Window
    <2>4. OutboxInv' /\ NeverEarly' /\ ReorderOnlyInWindow'
      BY <1>2 DEF IInv, OutboxInv, NeverEarly, ReorderOnlyInWindow, Window
    <2> QED
      BY <2>2, <2>3, <2>4 DEF IInv
  <1> QED
    BY <1>3, <1>4

\* The pop takes the least (release, seq), and seq follows the order of offers:
\* an older entry left behind has a strictly later release.
LEMMA PopStep ==
    ASSUME IInv, TypeOK', Pop
    PROVE  IInv'
  <1>1. TypeOK
    BY DEF IInv
  <1>2. PICK e \in heap : IsNext(e) /\ e.release =< now /\ heap' = heap \ {e} /\ outbox' = {e}
    BY DEF Pop
  <1>3. outbox = {}
    BY <1>1 DEF Pop, TypeOK
  <1>4. Held' = Held /\ UNCHANGED <<clock, offered, queue, seq, now, sent>>
    BY <1>2, <1>3 DEF Pop, Held
  <1>5. OutboxInv'
    <2>1. ASSUME NEW f \in heap', f.id < e.id PROVE e.release < f.release
      <3>1. f \in heap /\ e \in Held /\ f \in Held
        BY <1>2, <2>1 DEF Held
      <3>2. f.seq < e.seq
        BY <2>1, <3>1 DEF IInv, HeldInv
      <3>3. Before(e, f)
        BY <1>2, <3>1 DEF IsNext
      <3> QED
        BY <1>1, <3>1, <3>2, <3>3, Numbers DEF Before
    <2> QED
      BY <1>2, <1>4, <2>1 DEF IInv, OutboxInv
  <1>6. QueueInv' /\ HeldInv' /\ SentInv' /\ NeverEarly' /\ ReorderOnlyInWindow'
    BY <1>4 DEF IInv, QueueInv, HeldInv, SentInv, NeverEarly, ReorderOnlyInWindow, Window
  <1> QED
    BY <1>5, <1>6 DEF IInv

\* The sent entry joins the history: everything older that is still to come was
\* offered less than Window before it.
LEMMA SendOkStep ==
    ASSUME IInv, TypeOK', SendOk
    PROVE  IInv'
  <1>1. TypeOK
    BY DEF IInv
  <1> USE RelayFlowConstants
  <1>2. PICK e \in outbox : sent' = Append(sent, [id |-> e.id, at |-> e.at, when |-> clock])
    BY DEF SendOk
  <1>3. UNCHANGED <<clock, offered, queue, heap, seq, now>> /\ outbox' = {}
    BY DEF SendOk
  <1>4. Held' = heap /\ heap \subseteq Held /\ e \in Held /\ e \notin heap
    BY <1>3 DEF Held, IInv, OutboxInv
  <1> DEFINE n == Len(sent) + 1
  <1>5. /\ DOMAIN sent' = DOMAIN sent \union {n} /\ n \in Nat /\ DOMAIN sent \subseteq Nat
        /\ \A i \in DOMAIN sent : sent'[i] = sent[i] /\ i < n
        /\ sent'[n] = [id |-> e.id, at |-> e.at, when |-> clock]
    BY <1>1, <1>2 DEF TypeOK
  <1>6. sent'[n].id = e.id /\ sent'[n].at = e.at /\ sent'[n].when = clock
    BY <1>5
  <1> HIDE DEF n
  <1>7. /\ e.id =< offered /\ e.at =< clock /\ e.at + MinDelay =< e.release
        /\ e.release =< now /\ now =< clock
    BY <1>4 DEF IInv, HeldInv, OutboxInv
  <1>8. \A i \in DOMAIN sent :
           /\ e.id # sent[i].id
           /\ e.id < sent[i].id => e.at =< sent[i].at /\ sent[i].at < e.at + Window
    BY <1>4 DEF IInv, SentInv
  <1>9. \A f \in heap :
           /\ f.id # e.id
           /\ e.id < f.id => e.at =< f.at
           /\ f.id < e.id => f.at =< e.at /\ e.at < f.at + Window
    <2> SUFFICES ASSUME NEW f \in heap
                 PROVE  /\ f.id # e.id
                        /\ e.id < f.id => e.at =< f.at
                        /\ f.id < e.id => f.at =< e.at /\ e.at < f.at + Window
      OBVIOUS
    <2>1. f \in Held
      BY <1>4
    <2>2. f.id # e.id
      BY <2>1, <1>4 DEF IInv, HeldInv
    <2>3. (e.id < f.id => e.at =< f.at) /\ (f.id < e.id => f.at =< e.at)
      BY <2>1, <1>4 DEF IInv, HeldInv
    <2>4. ASSUME f.id < e.id PROVE e.at < f.at + Window
      <3>1. e.release < f.release
        BY <2>4 DEF IInv, OutboxInv
      <3>2. f.release =< f.at + StallDelay + MaxDelay
        BY <2>1 DEF IInv, HeldInv
      <3> QED
        BY <1>1, <1>4, <1>7, <2>1, <3>1, <3>2, Numbers DEF Window
    <2> QED
      BY <2>2, <2>3, <2>4
  <1>10. QueueInv'
    BY <1>3 DEF IInv, QueueInv
  <1>11. HeldInv'
    BY <1>3, <1>4 DEF IInv, HeldInv
  <1>12. OutboxInv'
    BY <1>3 DEF IInv, OutboxInv
  <1>13. SentInv'
    <2>1. ASSUME NEW i \in DOMAIN sent'
          PROVE  /\ sent'[i].id =< offered' /\ sent'[i].at =< clock'
                 /\ \A k \in DOMAIN queue' :
                      sent'[i].id < queue'[k].id /\ sent'[i].at =< queue'[k].at
                 /\ \A f \in Held' :
                      /\ f.id # sent'[i].id
                      /\ sent'[i].id < f.id => sent'[i].at =< f.at
                      /\ f.id < sent'[i].id => f.at =< sent'[i].at /\ sent'[i].at < f.at + Window
      <3>1. CASE i \in DOMAIN sent
        BY <3>1, <1>3, <1>4, <1>5 DEF IInv, SentInv
      <3>2. CASE i = n
        <4>1. \A k \in DOMAIN queue : e.id < queue[k].id /\ e.at =< queue[k].at
          BY <1>4 DEF IInv, HeldInv
        <4> QED
          BY <3>2, <4>1, <1>3, <1>4, <1>6, <1>7, <1>9
      <3> QED
        BY <3>1, <3>2, <1>5
    <2>2. ASSUME NEW i \in DOMAIN sent', NEW j \in DOMAIN sent', i < j
          PROVE  /\ sent'[i].id # sent'[j].id
                 /\ sent'[j].id < sent'[i].id => sent'[j].at =< sent'[i].at
      <3>1. i \in DOMAIN sent
        BY <2>2, <1>5
      <3>2. CASE j \in DOMAIN sent
        BY <2>2, <3>1, <3>2, <1>5 DEF IInv, SentInv
      <3>3. CASE j = n
        BY <3>1, <3>3, <1>5, <1>6, <1>8
      <3> QED
        BY <3>2, <3>3, <1>5
    <2>3. Window' = Window
      BY DEF Window
    <2> QED
      BY <2>1, <2>2, <2>3 DEF SentInv
  <1>14. NeverEarly'
    <2>1. ASSUME NEW i \in DOMAIN sent' PROVE sent'[i].at + MinDelay =< sent'[i].when
      <3>1. CASE i \in DOMAIN sent
        BY <3>1, <1>5 DEF IInv, NeverEarly
      <3>2. CASE i = n
        BY <3>2, <1>1, <1>4, <1>6, <1>7, Numbers
      <3> QED
        BY <3>1, <3>2, <1>5
    <2> QED
      BY <2>1 DEF NeverEarly
  <1>15. ReorderOnlyInWindow'
    <2>1. ASSUME NEW i \in DOMAIN sent', NEW j \in DOMAIN sent', i < j, sent'[j].id < sent'[i].id
          PROVE  sent'[i].at < sent'[j].at + Window
      <3>1. i \in DOMAIN sent
        BY <2>1, <1>5
      <3>2. CASE j \in DOMAIN sent
        BY <2>1, <3>1, <3>2, <1>5 DEF IInv, ReorderOnlyInWindow
      <3>3. CASE j = n
        BY <2>1, <3>1, <3>3, <1>5, <1>6, <1>8
      <3> QED
        BY <3>2, <3>3, <1>5
    <2>2. Window' = Window
      BY DEF Window
    <2> QED
      BY <2>1, <2>2 DEF ReorderOnlyInWindow
  <1> QED
    BY <1>10, <1>11, <1>12, <1>13, <1>14, <1>15 DEF IInv

\* A received datagram enters the heap behind everything the worker holds and
\* ahead of the rest of the channel.
LEMMA RecvStep ==
    ASSUME IInv, TypeOK', Recv
    PROVE  IInv'
  <1>1. TypeOK
    BY DEF IInv
  <1> USE RelayFlowConstants
  <1> DEFINE h == Head(queue)
  <1>2. /\ queue # << >> /\ h \in Pending /\ queue' = Tail(queue)
        /\ \/ heap' = heap /\ seq' = seq
           \/ \E e \in Entry :
                /\ heap' = heap \union {e} /\ seq' = seq + 1
                /\ e.id = h.id /\ e.at = h.at /\ e.seq = seq
                /\ h.arrival + MinDelay =< e.release
                /\ e.release =< h.arrival + MaxDelay
    BY <1>1, PushShape
  <1>3. /\ 1 \in DOMAIN queue /\ h = queue[1]
        /\ \A i \in DOMAIN queue' : i + 1 \in DOMAIN queue /\ queue'[i] = queue[i + 1] /\ 1 < i + 1
        /\ DOMAIN queue' \subseteq Nat
    BY <1>1, <1>2 DEF TypeOK
  <1> HIDE DEF h
  <1>4. UNCHANGED <<clock, offered, now, outbox, sent>> /\ outbox = {}
    BY <1>1 DEF Recv, TypeOK
  <1>5. /\ h.id =< offered /\ h.at =< clock /\ h.at =< h.arrival /\ h.arrival =< h.at + StallDelay
        /\ \A i \in DOMAIN queue' : h.id < queue'[i].id /\ h.at =< queue'[i].at
    BY <1>3 DEF IInv, QueueInv
  <1>6. QueueInv'
    <2>1. ASSUME NEW i \in DOMAIN queue'
          PROVE  /\ queue'[i].id =< offered' /\ queue'[i].at =< clock'
                 /\ queue'[i].at =< queue'[i].arrival
                 /\ queue'[i].arrival =< queue'[i].at + StallDelay
      BY <1>3, <1>4 DEF IInv, QueueInv
    <2>2. ASSUME NEW i \in DOMAIN queue', NEW j \in DOMAIN queue', i < j
          PROVE  queue'[i].id < queue'[j].id /\ queue'[i].at =< queue'[j].at
      <3>1. i + 1 \in DOMAIN queue /\ j + 1 \in DOMAIN queue /\ i + 1 < j + 1
        BY <1>3, <2>2
      <3> QED
        BY <1>3, <3>1 DEF IInv, QueueInv
    <2> QED
      BY <2>1, <2>2 DEF QueueInv
  <1>7. OutboxInv' /\ NeverEarly' /\ ReorderOnlyInWindow'
    BY <1>4 DEF IInv, OutboxInv, NeverEarly, ReorderOnlyInWindow, Window
  <1>8. \A e \in Held : \A i \in DOMAIN queue' : e.id < queue'[i].id /\ e.at =< queue'[i].at
    BY <1>3 DEF IInv, HeldInv
  <1>9. \A e \in Held : e.id < h.id /\ e.at =< h.at
    BY <1>3 DEF IInv, HeldInv
  <1>10. \A i \in DOMAIN sent : \A k \in DOMAIN queue' :
            sent[i].id < queue'[k].id /\ sent[i].at =< queue'[k].at
    BY <1>3 DEF IInv, SentInv
  <1>11. \A i \in DOMAIN sent : sent[i].id < h.id /\ sent[i].at =< h.at
    BY <1>3 DEF IInv, SentInv
  <1>12. h.id \in Nat /\ h.at \in Nat /\ h.arrival \in Nat
    BY <1>2 DEF Pending
  <1>13. CASE heap' = heap /\ seq' = seq
    <2>1. Held' = Held
      BY <1>4, <1>13 DEF Held
    <2>2. HeldInv'
      BY <1>4, <1>8, <1>13, <2>1 DEF IInv, HeldInv
    <2>3. SentInv'
      BY <1>4, <1>10, <2>1 DEF IInv, SentInv, Window
    <2> QED
      BY <1>6, <1>7, <2>2, <2>3 DEF IInv
  <1>14. ASSUME NEW e \in Entry, heap' = heap \union {e}, seq' = seq + 1,
                e.id = h.id, e.at = h.at, e.seq = seq,
                h.arrival + MinDelay =< e.release, e.release =< h.arrival + MaxDelay
         PROVE  IInv'
    <2>1. Held' = Held \union {e}
      BY <1>4, <1>14 DEF Held
    <2>2. e.id \in Nat /\ e.at \in Nat /\ e.release \in Nat /\ e.seq \in Nat
      BY DEF Entry
    <2>3. HeldInv'
      <3>1. ASSUME NEW f \in Held'
            PROVE  /\ f.id =< offered' /\ f.at =< clock' /\ f.seq < seq'
                   /\ f.at + MinDelay =< f.release
                   /\ f.release =< f.at + StallDelay + MaxDelay
                   /\ \A i \in DOMAIN queue' : f.id < queue'[i].id /\ f.at =< queue'[i].at
        <4>1. CASE f \in Held
          <5>1. f.seq < seq /\ f.seq \in Nat /\ seq \in Nat
            BY <4>1, <1>1, Numbers DEF IInv, HeldInv
          <5> QED
            BY <4>1, <5>1, <1>4, <1>8, <1>14 DEF IInv, HeldInv
        <4>2. CASE f = e
          <5>1. /\ e.at + MinDelay =< e.release
                /\ e.release =< e.at + StallDelay + MaxDelay
            BY <1>5, <1>12, <1>14, <2>2
          <5>2. seq \in Nat
            BY <1>1, Numbers
          <5> QED
            BY <4>2, <5>1, <5>2, <1>4, <1>5, <1>14
        <4> QED
          BY <4>1, <4>2, <2>1
      <3>2. ASSUME NEW f \in Held', NEW g \in Held', f.id < g.id
            PROVE  f.seq < g.seq /\ f.at =< g.at
        <4>1. CASE f \in Held /\ g \in Held
          BY <3>2, <4>1 DEF IInv, HeldInv
        <4>2. CASE f \in Held /\ g = e
          BY <4>2, <1>9, <1>14 DEF IInv, HeldInv
        <4>3. CASE f = e /\ g \in Held
          BY <3>2, <4>3, <1>1, <1>9, <1>12, <1>14, Numbers
        <4>4. CASE f = e /\ g = e
          BY <3>2, <4>4, <2>2
        <4> QED
          BY <4>1, <4>2, <4>3, <4>4, <2>1
      <3>3. ASSUME NEW f \in Held', NEW g \in Held', f.id = g.id PROVE f = g
        <4>1. CASE f \in Held /\ g \in Held
          BY <3>3, <4>1 DEF IInv, HeldInv
        <4>2. CASE f \in Held /\ g = e
          BY <3>3, <4>2, <1>1, <1>9, <1>12, <1>14, Numbers
        <4>3. CASE f = e /\ g \in Held
          BY <3>3, <4>3, <1>1, <1>9, <1>12, <1>14, Numbers
        <4> QED
          BY <4>1, <4>2, <4>3, <2>1
      <3> QED
        BY <3>1, <3>2, <3>3 DEF HeldInv
    <2>4. SentInv'
      <3>1. ASSUME NEW i \in DOMAIN sent, NEW f \in Held'
            PROVE  /\ f.id # sent[i].id
                   /\ sent[i].id < f.id => sent[i].at =< f.at
                   /\ f.id < sent[i].id => f.at =< sent[i].at /\ sent[i].at < f.at + Window
        <4>1. CASE f \in Held
          BY <4>1 DEF IInv, SentInv
        <4>2. CASE f = e
          <5>1. sent[i].id \in Nat /\ sent[i].id < h.id /\ sent[i].at =< h.at
            BY <1>1, <1>11, Numbers
          <5> QED
            BY <4>2, <5>1, <1>12, <1>14
        <4> QED
          BY <4>1, <4>2, <2>1
      <3>2. Window' = Window
        BY DEF Window
      <3> QED
        BY <1>4, <1>10, <3>1, <3>2 DEF IInv, SentInv
    <2> QED
      BY <1>6, <1>7, <2>3, <2>4 DEF IInv
  <1> QED
    BY <1>2, <1>13, <1>14

\* IInv is inductive.
LEMMA OrderStep == IInv /\ [Next]_vars => IInv'
  <1> SUFFICES ASSUME IInv, [Next]_vars PROVE IInv'
    OBVIOUS
  <1>1. TypeOK /\ TypeOK'
    BY TypeStep DEF IInv
  <1>2. now =< clock /\ clock \in Nat /\ now \in Nat
    BY <1>1, Numbers DEF IInv, OutboxInv
  <1>3. CASE CloseTx \/ EndPass \/ Timer \/ UNCHANGED vars
    BY <1>1, <1>2, <1>3, QuietStep DEF CloseTx, EndPass, Timer, vars
  <1>4. CASE StartPass
    BY <1>1, <1>2, <1>4, QuietStep DEF StartPass, TypeOK
  <1>5. CASE Tick
    BY <1>1, <1>2, <1>5, QuietStep DEF Tick
  <1>6. CASE SendErr \/ Cancel
    BY <1>1, <1>6, LossStep DEF SendErr, Cancel
  <1>7. CASE RecvClosed
    BY <1>1, <1>7, LossStep DEF RecvClosed, TypeOK
  <1> QED
    BY <1>1, <1>3, <1>4, <1>5, <1>6, <1>7, TrySendStep, PopStep, SendOkStep, RecvStep
       DEF Next, Worker

LEMMA OrderInvariant == Spec => []IInv
  <1>1. Init => IInv
    BY RelayFlowConstants
       DEF Init, IInv, TypeOK, QueueInv, HeldInv, OutboxInv, SentInv, NeverEarly,
           ReorderOnlyInWindow, Held
  <1> QED
    BY <1>1, OrderStep, PTL DEF Spec

\* No datagram leaves the relay before arrival plus the least delay of its link.
THEOREM NeverReleasedEarly == Spec => []NeverEarly
  <1>1. IInv => NeverEarly
    BY DEF IInv
  <1> QED
    BY <1>1, OrderInvariant, PTL

\* Overtaking is confined to the window of jitter and stall hold.
THEOREM BoundedReordering == Spec => []ReorderOnlyInWindow
  <1>1. IInv => ReorderOnlyInWindow
    BY DEF IInv
  <1> QED
    BY <1>1, OrderInvariant, PTL

\* With a fixed delay and no stall the window is empty: the flow is FIFO.
THEOREM FixedDelayIsFifo == Spec => []FixedDelayKeepsOrder
  <1>1. IInv => FixedDelayKeepsOrder
    <2> SUFFICES ASSUME IInv, MinDelay = MaxDelay, StallDelay = 0,
                        NEW i \in DOMAIN sent, NEW j \in DOMAIN sent, i < j
                 PROVE  sent[i].id < sent[j].id
      BY DEF FixedDelayKeepsOrder
    <2>1. Window = 0
      BY RelayFlowConstants DEF Window
    <2>2. /\ sent[i].id # sent[j].id
          /\ sent[j].id < sent[i].id => sent[j].at =< sent[i].at
          /\ sent[j].id < sent[i].id => sent[i].at < sent[j].at + Window
      BY DEF IInv, SentInv, ReorderOnlyInWindow
    <2> QED
      BY <2>1, <2>2, Numbers DEF IInv
  <1> QED
    BY <1>1, OrderInvariant, PTL
=============================================================================
