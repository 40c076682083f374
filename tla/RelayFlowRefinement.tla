------------------------ MODULE RelayFlowRefinement ------------------------
(***************************************************************************)
(* RelayFlow implements DelayLink, for every value of the constants: what  *)
(* the channel, the heap and the awaited send hold together is what the    *)
(* abstract link carries.                                                  *)
(***************************************************************************)
EXTENDS RelayFlowProofs

Mark(x) == [id |-> x.id, at |-> x.at]

\* Membership in the mapped link, split by where the datagram is.
LEMMA TransitMember ==
    \A m : m \in Transit <=> \/ \E i \in DOMAIN queue : m = Mark(queue[i])
                             \/ \E e \in Held : m = Mark(e)
  BY DEF Transit, Held, Mark

LEMMA TransitMemberPrime ==
    \A m : m \in Transit' <=> \/ \E i \in DOMAIN queue' : m = Mark(queue'[i])
                              \/ \E e \in Held' : m = Mark(e)
  BY DEF Transit, Held, Mark

\* Datagrams that only leave: the link loses them.
LEMMA LossIsLose ==
    ASSUME UNCHANGED <<clock, offered, sent>>,
           queue' = queue \/ queue' = << >>, Held' \subseteq Held
    PROVE  Link!Next
  <1>1. Transit' \subseteq Transit
    BY TransitMember, TransitMemberPrime
  <1>2. Link!Lose
    BY <1>1 DEF Link!Lose
  <1> QED
    BY <1>2 DEF Link!Next

\* Datagrams that stay where the link is concerned.
LEMMA QuietIsStutter ==
    ASSUME UNCHANGED <<clock, offered, sent, queue>>, Held' = Held
    PROVE  UNCHANGED Link!vars
  <1>1. Transit' = Transit
    BY TransitMember, TransitMemberPrime
  <1> QED
    BY <1>1 DEF Link!vars

LEMMA TickIsTick ==
    ASSUME IInv, Tick PROVE Link!Next
  <1>1. Transit' = Transit
    BY DEF Tick, Transit
  <1>2. Link!Tick
    BY <1>1 DEF Link!Tick, Tick
  <1> QED
    BY <1>2 DEF Link!Next

LEMMA TrySendIsOffer ==
    ASSUME IInv, NEW held \in {0, StallDelay}, TrySend(held) PROVE Link!Next
  <1>1. TypeOK
    BY DEF IInv
  <1> DEFINE p == [id |-> offered + 1, at |-> clock, arrival |-> clock + held]
             m == [id |-> offered + 1, at |-> clock]
  <1>2. /\ offered' = offered + 1 /\ Held' = Held /\ UNCHANGED <<clock, sent>>
    BY DEF TrySend, Held
  <1>3. CASE Len(queue) < QueueCap
    <2>1. queue' = Append(queue, p)
      BY <1>3 DEF TrySend
    <2>2. /\ DOMAIN queue' = DOMAIN queue \union {Len(queue) + 1}
          /\ \A i \in DOMAIN queue : queue'[i] = queue[i]
          /\ queue'[Len(queue) + 1] = p
      BY <1>1, <2>1 DEF TypeOK
    <2>3. Mark(p) = m
      BY DEF Mark
    <2> HIDE DEF p, m
    <2>4. Transit' = Transit \union {m}
      BY <1>2, <2>2, <2>3, TransitMember, TransitMemberPrime
    <2>5. Link!Offer
      BY <1>2, <2>4 DEF Link!Offer, m
    <2> QED
      BY <2>5 DEF Link!Next
  <1>4. CASE ~(Len(queue) < QueueCap)
    <2>1. queue' = queue
      BY <1>4 DEF TrySend
    <2>2. Transit' = Transit
      BY <1>2, <2>1, TransitMember, TransitMemberPrime
    <2>3. Link!Offer
      BY <1>2, <2>2 DEF Link!Offer
    <2> QED
      BY <2>3 DEF Link!Next
  <1> QED
    BY <1>3, <1>4

\* A received datagram moves from the channel to the heap, or is dropped.
LEMMA RecvIsQuietOrLose ==
    ASSUME IInv, Recv PROVE Link!Next \/ UNCHANGED Link!vars
  <1>1. TypeOK
    BY DEF IInv
  <1> DEFINE h == Head(queue)
  <1>2. /\ queue # << >> /\ queue' = Tail(queue)
        /\ \/ heap' = heap
           \/ \E e \in Entry : heap' = heap \union {e} /\ e.id = h.id /\ e.at = h.at
    BY <1>1, PushShape
  <1>3. /\ 1 \in DOMAIN queue /\ h = queue[1]
        /\ \A i \in DOMAIN queue' : i + 1 \in DOMAIN queue /\ queue'[i] = queue[i + 1]
        /\ \A i \in DOMAIN queue : i = 1 \/ (i - 1 \in DOMAIN queue' /\ queue'[i - 1] = queue[i])
    BY <1>1, <1>2 DEF TypeOK
  <1> HIDE DEF h
  <1>4. UNCHANGED <<clock, offered, outbox, sent>>
    BY DEF Recv
  <1>5. CASE heap' = heap
    <2>1. Held' = Held
      BY <1>4, <1>5 DEF Held
    <2>2. Transit' \subseteq Transit
      BY <1>3, <2>1, TransitMember, TransitMemberPrime
    <2>3. Link!Lose
      BY <1>4, <2>2 DEF Link!Lose
    <2> QED
      BY <2>3 DEF Link!Next
  <1>6. ASSUME NEW e \in Entry, heap' = heap \union {e}, e.id = h.id, e.at = h.at
        PROVE  UNCHANGED Link!vars
    <2>1. Held' = Held \union {e}
      BY <1>4, <1>6 DEF Held
    <2>2. Mark(e) = Mark(queue[1])
      BY <1>3, <1>6 DEF Mark
    <2>3. Transit' \subseteq Transit
      BY <1>3, <2>1, <2>2, TransitMember, TransitMemberPrime
    <2>4. Transit \subseteq Transit'
      BY <1>3, <2>1, <2>2, TransitMember, TransitMemberPrime
    <2> QED
      BY <1>4, <2>3, <2>4 DEF Link!vars
  <1> QED
    BY <1>2, <1>5, <1>6

\* A completed send is an on-time delivery inside the reordering window.
LEMMA SendOkIsDeliver ==
    ASSUME IInv, SendOk PROVE Link!Next
  <1>1. TypeOK
    BY DEF IInv
  <1> USE RelayFlowConstants
  <1>2. PICK e \in outbox : sent' = Append(sent, [id |-> e.id, at |-> e.at, when |-> clock])
    BY DEF SendOk
  <1>3. UNCHANGED <<clock, offered, queue, heap>> /\ outbox' = {}
    BY DEF SendOk
  <1>4. /\ Held' = heap /\ heap \subseteq Held /\ e \in Held /\ e \notin heap
        /\ Held = heap \union {e}
    BY <1>1, <1>3 DEF Held, IInv, OutboxInv, TypeOK
  <1> DEFINE d == Mark(e)
  <1>5. d.id = e.id /\ d.at = e.at /\ d \in Transit
    BY <1>4, TransitMember DEF Mark
  <1>6. \A f \in heap : f.id # e.id
    BY <1>4 DEF IInv, HeldInv
  <1>7. \A i \in DOMAIN queue : e.id < queue[i].id
    BY <1>4 DEF IInv, HeldInv
  <1>8. Transit' = Transit \ {d}
    <2>1. \A i \in DOMAIN queue : Mark(queue[i]) # d
      BY <1>1, <1>4, <1>7, Numbers DEF Mark
    <2>2. \A f \in heap : Mark(f) # d
      BY <1>6 DEF Mark
    <2> QED
      BY <1>3, <1>4, <2>1, <2>2, TransitMember, TransitMemberPrime
  <1>9. d.at + MinDelay =< clock
    BY <1>1, <1>4, <1>5, Numbers DEF IInv, HeldInv, OutboxInv
  <1>10. ASSUME NEW m \in Transit, m.id < d.id PROVE d.at < m.at + Window
    <2>1. CASE \E i \in DOMAIN queue : m = Mark(queue[i])
      BY <2>1, <1>1, <1>4, <1>5, <1>7, <1>10, Numbers DEF Mark
    <2>2. ASSUME NEW f \in Held, m = Mark(f) PROVE d.at < m.at + Window
      <3>1. f.id < e.id /\ m.at = f.at
        BY <2>2, <1>5, <1>10 DEF Mark
      <3>2. f \in heap
        BY <1>1, <1>4, <3>1, Numbers
      <3>3. e.release < f.release
        BY <3>1, <3>2 DEF IInv, OutboxInv
      <3>4. /\ e.at + MinDelay =< e.release
            /\ f.release =< f.at + StallDelay + MaxDelay
        BY <1>4 DEF IInv, HeldInv
      <3> QED
        BY <1>1, <1>4, <1>5, <3>1, <3>3, <3>4, Numbers DEF Window
    <2> QED
      BY <2>1, <2>2, TransitMember
  <1> HIDE DEF d
  <1>11. Link!Deliver(d)
    BY <1>2, <1>3, <1>5, <1>8, <1>9, <1>10 DEF Link!Deliver
  <1> QED
    BY <1>5, <1>11 DEF Link!Next

\* Every step of the flow is a step of the link or changes nothing of it.
LEMMA StepSimulation == IInv /\ [Next]_vars => [Link!Next]_(Link!vars)
  <1> SUFFICES ASSUME IInv, [Next]_vars PROVE Link!Next \/ UNCHANGED Link!vars
    OBVIOUS
  <1>1. TypeOK
    BY DEF IInv
  <1>2. CASE CloseTx \/ StartPass \/ EndPass \/ Timer \/ UNCHANGED vars
    BY <1>2, QuietIsStutter DEF CloseTx, StartPass, EndPass, Timer, vars, Held
  <1>3. CASE Pop
    <2>1. UNCHANGED <<clock, offered, sent, queue>>
      BY <1>3 DEF Pop
    <2>2. outbox = {}
      BY <1>1, <1>3 DEF Pop, TypeOK
    <2>3. Held' = Held
      BY <1>3, <2>2 DEF Pop, Held
    <2> QED
      BY <2>1, <2>3, QuietIsStutter
  <1>4. CASE SendErr \/ Cancel \/ RecvClosed
    BY <1>4, LossIsLose DEF SendErr, Cancel, RecvClosed, Held
  <1> QED
    BY <1>2, <1>3, <1>4, TrySendIsOffer, RecvIsQuietOrLose, SendOkIsDeliver, TickIsTick
       DEF Next, Worker

\* sender_worker with its channel implements the lossy link that is never early,
\* never duplicates and reorders only inside the window.
THEOREM FlowImplementsLink == Spec => LinkSpec
  <1>1. Init => Link!Init
    BY DEF Init, Link!Init, Transit
  <1> QED
    BY <1>1, StepSimulation, OrderInvariant, PTL DEF Spec, LinkSpec, Link!Spec
=============================================================================
