---------------------------- MODULE RelayProofs ----------------------------
(***************************************************************************)
(* What the table of a relay guarantees for any number of peers, sessions  *)
(* and datagrams: it is bounded and ordered, no task is left detached, the *)
(* forward worker of a session in it lives, as long as there is room for   *)
(* every peer the node sees each of them under one source, and over a cut  *)
(* link nothing comes in anew.                                             *)
(***************************************************************************)
EXTENDS Relay, TLAPS, SequenceTheorems, FiniteSetTheorems

\* The sequence s has the peers T, each of them once.
IsOrder(s, T) ==
    /\ s \in Seq(Peers)
    /\ \A i, j \in 1 .. Len(s) : s[i] = s[j] => i = j
    /\ \A p \in Peers : p \in T <=> \E i \in 1 .. Len(s) : s[i] = p

InTable == {p \in Peers : sess[p] # None}

\* The table and the order of its peers.
Ordered ==
    /\ IsOrder(recency, InTable)
    /\ Len(recency) =< MaxSessions

TypeTable ==
    /\ running \in BOOLEAN /\ nodeUp \in BOOLEAN /\ blocked \subseteq Peers
    /\ made \in 0 .. MaxGen
    /\ sess \in [Peers -> 0 .. made]
    /\ hand \in Peers \union {None}
    /\ peerOf \in [Gen -> Peers \union {None}]
    /\ tasks \subseteq (1 .. made) \X Kind
    /\ aborted \subseteq 1 .. made

TypeLegs ==
    /\ fwd \in [Gen -> 0 .. LegCap]
    /\ ret \in [Gen -> 0 .. LegCap]
    /\ inbox \in [Gen -> 0 .. LegCap]
    /\ held \subseteq Gen /\ sockErr \subseteq Gen /\ known \subseteq Gen

\* A session in the table is its peer's, was not dropped, and has its forward
\* worker; the datagram in the loop's hands belongs to one of them.
Owned ==
    /\ \A g \in 1 .. made : peerOf[g] \in Peers
    /\ \A p \in Peers : sess[p] # None =>
         peerOf[sess[p]] = p /\ sess[p] \notin aborted /\ <<sess[p], "forward">> \in tasks
    /\ NoDetachedWorker
    /\ hand # None => sess[hand] # None

IInv == TypeTable /\ TypeLegs /\ Ordered /\ Owned

-----------------------------------------------------------------------------
(* The order of the table.                                                   *)

LEMMA AppendOrder ==
    ASSUME NEW s, NEW T, IsOrder(s, T), NEW p \in Peers, p \notin T
    PROVE  /\ IsOrder(Append(s, p), T \union {p})
           /\ Len(Append(s, p)) = Len(s) + 1
<1>1. s \in Seq(Peers) /\ Len(s) \in Nat
  BY DEF IsOrder
<1>2. /\ Append(s, p) \in Seq(Peers) /\ Len(Append(s, p)) = Len(s) + 1
      /\ \A i \in 1 .. Len(s) : Append(s, p)[i] = s[i]
      /\ Append(s, p)[Len(s) + 1] = p
  BY <1>1, AppendProperties
<1>3. \A i \in 1 .. Len(s) : s[i] # p
  BY DEF IsOrder
<1>4. \A i, j \in 1 .. Len(Append(s, p)) : Append(s, p)[i] = Append(s, p)[j] => i = j
  <2> SUFFICES ASSUME NEW i \in 1 .. Len(s) + 1, NEW j \in 1 .. Len(s) + 1,
                      Append(s, p)[i] = Append(s, p)[j]
               PROVE  i = j
    BY <1>2
  <2>1. (i \in 1 .. Len(s) \/ i = Len(s) + 1) /\ (j \in 1 .. Len(s) \/ j = Len(s) + 1)
    BY <1>1
  <2>2. QED
    BY <1>2, <1>3, <2>1 DEF IsOrder
<1>5. \A q \in Peers : q \in T \union {p} <=> \E i \in 1 .. Len(Append(s, p)) : Append(s, p)[i] = q
  <2>1. \A i \in 1 .. Len(s) + 1 : i \in 1 .. Len(s) \/ i = Len(s) + 1
    BY <1>1
  <2>2. Len(s) + 1 \in 1 .. Len(s) + 1 /\ 1 .. Len(s) \subseteq 1 .. Len(s) + 1
    BY <1>1
  <2>3. QED
    BY <1>2, <2>1, <2>2 DEF IsOrder
<1>6. QED
  BY <1>2, <1>4, <1>5 DEF IsOrder

LEMMA TailOrder ==
    ASSUME NEW s, NEW T, IsOrder(s, T), s # << >>
    PROVE  /\ Head(s) \in Peers /\ Head(s) \in T
           /\ IsOrder(Tail(s), T \ {Head(s)})
           /\ Len(Tail(s)) = Len(s) - 1
<1>1. s \in Seq(Peers) /\ Len(s) \in Nat \ {0}
  BY EmptySeq DEF IsOrder
<1>2. /\ Head(s) = s[1] /\ Tail(s) \in Seq(Peers) /\ Len(Tail(s)) = Len(s) - 1
      /\ \A i \in 1 .. Len(s) - 1 : Tail(s)[i] = s[i + 1]
  BY <1>1, HeadTailProperties
<1>3. Head(s) \in Peers /\ Head(s) \in T
  BY <1>1, <1>2 DEF IsOrder
<1>4. \A i \in 1 .. Len(s) - 1 : i + 1 \in 1 .. Len(s)
  BY <1>1
<1>5. \A i, j \in 1 .. Len(Tail(s)) : Tail(s)[i] = Tail(s)[j] => i = j
  BY <1>1, <1>2, <1>4 DEF IsOrder
<1>6. \A q \in Peers : q \in T \ {Head(s)} <=> \E i \in 1 .. Len(Tail(s)) : Tail(s)[i] = q
  <2> TAKE q \in Peers
  <2>1. ASSUME q \in T, q # Head(s)
        PROVE  \E i \in 1 .. Len(s) - 1 : Tail(s)[i] = q
    <3>1. PICK i \in 1 .. Len(s) : s[i] = q
      BY <2>1 DEF IsOrder
    <3>2. i - 1 \in 1 .. Len(s) - 1 /\ (i - 1) + 1 = i
      BY <1>1, <1>2, <2>1, <3>1
    <3>3. QED
      BY <1>2, <3>1, <3>2
  <2>2. ASSUME NEW i \in 1 .. Len(s) - 1, Tail(s)[i] = q
        PROVE  q \in T /\ q # Head(s)
    <3>1. s[i + 1] = q /\ i + 1 \in 1 .. Len(s) /\ 1 \in 1 .. Len(s) /\ i + 1 # 1
      BY <1>1, <1>2, <1>4, <2>2
    <3>2. QED
      BY <1>2, <3>1 DEF IsOrder
  <2>3. QED
    BY <1>2, <2>1, <2>2
<1>7. QED
  BY <1>2, <1>3, <1>5, <1>6 DEF IsOrder

LEMMA WithoutOrder ==
    ASSUME NEW T, IsOrder(recency, T), NEW p \in Peers, p \in T
    PROVE  /\ IsOrder(Without(p), T \ {p})
           /\ Len(Without(p)) = Len(recency) - 1
<1> DEFINE n == Len(recency)
           k == CHOOSE i \in DOMAIN recency : recency[i] = p
<1>1. recency \in Seq(Peers) /\ n \in Nat /\ DOMAIN recency = 1 .. n
  BY DEF IsOrder
<1>2. k \in 1 .. n /\ recency[k] = p
  <2>1. \E i \in 1 .. n : recency[i] = p
    BY DEF IsOrder
  <2>2. QED
    BY <1>1, <2>1
<1> HIDE DEF k
<1> DEFINE before == SubSeq(recency, 1, k - 1)
           after == SubSeq(recency, k + 1, n)
<1>3. Without(p) = before \o after
  BY DEF Without, RemoveAt, k
<1>4. /\ before \in Seq(Peers) /\ Len(before) = k - 1
      /\ \A i \in 1 .. k - 1 : before[i] = recency[i]
  <2>1. k - 1 \in Int /\ \A i \in 1 .. k - 1 : recency[i] \in Peers
    BY <1>1, <1>2
  <2>2. QED
    BY <1>1, <1>2, <2>1, SubSeqProperties
<1>5. /\ after \in Seq(Peers) /\ Len(after) = n - k
      /\ \A i \in 1 .. n - k : after[i] = recency[i + k]
  <2>1. k + 1 \in Int /\ n \in Int /\ \A i \in k + 1 .. n : recency[i] \in Peers
    BY <1>1, <1>2
  <2>2. /\ after \in Seq(Peers)
        /\ Len(after) = IF k + 1 =< n THEN n - (k + 1) + 1 ELSE 0
        /\ \A i \in 1 .. n - (k + 1) + 1 : after[i] = recency[(k + 1) + i - 1]
    BY <2>1, SubSeqProperties
  <2>3. n - (k + 1) + 1 = n - k /\ \A i \in 1 .. n - k : (k + 1) + i - 1 = i + k
    BY <1>1, <1>2
  <2>4. (IF k + 1 =< n THEN n - (k + 1) + 1 ELSE 0) = n - k
    <3>1. \A a, b \in Int : a =< b => (IF a + 1 =< b THEN b - (a + 1) + 1 ELSE 0) = b - a
      OBVIOUS
    <3>2. k \in Int /\ n \in Int /\ k =< n
      BY <1>1, <1>2
    <3>3. QED
      BY <3>1, <3>2
  <2> HIDE DEF after
  <2>5. QED
    BY <2>2, <2>3, <2>4
<1> HIDE DEF before, after
<1>6. /\ Without(p) \in Seq(Peers)
      /\ Len(Without(p)) = n - 1
      /\ \A i \in 1 .. n - 1 : Without(p)[i] = recency[IF i < k THEN i ELSE i + 1]
  <2>1. /\ Without(p) \in Seq(Peers)
        /\ Len(Without(p)) = Len(before) + Len(after)
        /\ \A i \in 1 .. Len(before) + Len(after) :
              Without(p)[i] = IF i =< Len(before) THEN before[i] ELSE after[i - Len(before)]
    BY <1>3, <1>4, <1>5, ConcatProperties
  <2>2. Len(before) + Len(after) = n - 1
    BY <1>1, <1>2, <1>4, <1>5
  <2>3. ASSUME NEW i \in 1 .. n - 1
        PROVE  Without(p)[i] = recency[IF i < k THEN i ELSE i + 1]
    <3>1. CASE i < k
      BY <1>1, <1>2, <1>4, <2>1, <2>2, <3>1
    <3>2. CASE ~(i < k)
      <4>1. i - (k - 1) \in 1 .. n - k /\ (i - (k - 1)) + k = i + 1 /\ ~(i =< k - 1)
        BY <1>1, <1>2, <3>2
      <4>2. Without(p)[i] = after[i - (k - 1)]
        BY <1>4, <2>1, <2>2, <4>1
      <4>3. after[i - (k - 1)] = recency[i + 1]
        BY <1>5, <4>1
      <4>4. QED
        BY <3>2, <4>2, <4>3
    <3>3. QED
      BY <3>1, <3>2
  <2>4. QED
    BY <2>1, <2>2, <2>3
<1> DEFINE old(i) == IF i < k THEN i ELSE i + 1
<1>7. /\ \A i \in 1 .. n - 1 : old(i) \in 1 .. n /\ old(i) # k
      /\ \A i, j \in 1 .. n - 1 : old(i) = old(j) => i = j
      /\ \A j \in 1 .. n : j # k => \E i \in 1 .. n - 1 : old(i) = j
  <2>1. /\ \A i \in 1 .. n - 1 : old(i) \in 1 .. n /\ old(i) # k
        /\ \A i, j \in 1 .. n - 1 : old(i) = old(j) => i = j
    BY <1>1, <1>2
  <2>2. ASSUME NEW j \in 1 .. n, j # k
        PROVE  \E i \in 1 .. n - 1 : old(i) = j
    <3>1. CASE j < k
      BY <1>1, <1>2, <3>1
    <3>2. CASE k < j
      <4>1. j - 1 \in 1 .. n - 1 /\ old(j - 1) = j
        BY <1>1, <1>2, <3>2
      <4>2. QED
        BY <4>1
    <3>3. QED
      BY <1>1, <1>2, <2>2, <3>1, <3>2
  <2>3. QED
    BY <2>1, <2>2
<1>8. \A i \in 1 .. n - 1 : Without(p)[i] = recency[old(i)]
  BY <1>6
<1> HIDE DEF old
<1>9. \A i, j \in 1 .. Len(Without(p)) : Without(p)[i] = Without(p)[j] => i = j
  BY <1>6, <1>7, <1>8 DEF IsOrder
<1>10. \A q \in Peers : q \in T \ {p} <=> \E i \in 1 .. Len(Without(p)) : Without(p)[i] = q
  <2> TAKE q \in Peers
  <2>1. ASSUME q \in T, q # p
        PROVE  \E i \in 1 .. n - 1 : Without(p)[i] = q
    <3>1. PICK j \in 1 .. n : recency[j] = q
      BY <2>1 DEF IsOrder
    <3>2. QED
      BY <1>2, <1>7, <1>8, <2>1, <3>1
  <2>2. ASSUME NEW i \in 1 .. n - 1, Without(p)[i] = q
        PROVE  q \in T /\ q # p
    <3>1. old(i) \in 1 .. n /\ recency[old(i)] = q /\ old(i) # k
      BY <1>7, <1>8, <2>2
    <3>2. q \in T
      BY <3>1 DEF IsOrder
    <3>3. q # p
      BY <1>2, <3>1 DEF IsOrder
    <3>4. QED
      BY <3>2, <3>3
  <2>3. QED
    BY <1>6, <2>1, <2>2
<1>11. QED
  BY <1>6, <1>9, <1>10 DEF IsOrder

-----------------------------------------------------------------------------
(* The loop.                                                                 *)

LEMMA NoneIsNobody == None \notin Peers /\ None = 0
BY RelayConstants DEF None

\* Who is evicted, and the order without them.
LEMMA Eviction ==
    ASSUME IInv
    PROVE  /\ Victims \subseteq InTable
           /\ IsOrder(Kept, InTable \ Victims)
           /\ Len(Kept) < MaxSessions
           /\ Victims # {} => Len(recency) >= MaxSessions
<1>1. IsOrder(recency, InTable) /\ Len(recency) =< MaxSessions /\ Len(recency) \in Nat
  BY DEF IInv, Ordered, IsOrder
<1>2. MaxSessions \in Nat \ {0}
  BY RelayConstants
<1>3. CASE Full
  <2>1. recency # << >>
    BY <1>1, <1>2, <1>3, EmptySeq DEF Full
  <2>2. /\ Head(recency) \in InTable
        /\ IsOrder(Tail(recency), InTable \ {Head(recency)})
        /\ Len(Tail(recency)) = Len(recency) - 1
    BY <1>1, <2>1, TailOrder
  <2>3. Victims = {Head(recency)} /\ Kept = Tail(recency)
    BY <1>3, <2>1 DEF Victims, Kept
  <2>4. QED
    BY <1>1, <1>2, <1>3, <2>2, <2>3 DEF Full
<1>4. CASE ~Full
  <2>1. Victims = {} /\ Kept = recency
    BY <1>4 DEF Victims, Kept
  <2>2. QED
    BY <1>1, <1>2, <1>4, <2>1 DEF Full
<1>5. QED
  BY <1>3, <1>4

\* The sessions of the evicted are theirs, and nobody else's.
LEMMA Dropped ==
    ASSUME IInv, NEW P \in SUBSET InTable, Drop(P)
    PROVE  /\ aborted' = aborted \union {sess[p] : p \in P}
           /\ aborted' \subseteq 1 .. made
           /\ \A p \in Peers \ P : sess[p] # None => sess[p] \notin aborted'
<1>1. \A p \in P : p \in Peers /\ sess[p] # None /\ sess[p] \in 1 .. made
  BY DEF InTable, IInv, TypeTable, None
<1>2. aborted' = aborted \union {sess[p] : p \in P}
  BY DEF Drop
<1>3. aborted' \subseteq 1 .. made
  BY <1>1, <1>2 DEF IInv, TypeTable
<1>4. ASSUME NEW p \in Peers \ P, sess[p] # None
      PROVE  sess[p] \notin aborted'
  <2>1. sess[p] \notin aborted /\ peerOf[sess[p]] = p
    BY <1>4 DEF IInv, Owned
  <2>2. \A v \in P : peerOf[sess[v]] = v
    BY <1>1 DEF IInv, Owned
  <2>3. \A v \in P : sess[v] # sess[p]
    BY <2>1, <2>2
  <2>4. QED
    BY <1>2, <2>1, <2>3
<1>5. QED
  BY <1>2, <1>3, <1>4

LEMMA ReceiveKeeps ==
    ASSUME IInv, NEW p \in Peers, Receive(p)
    PROVE  IInv'
<1>1. /\ sess[p] # None /\ hand' = p
      /\ recency' = Append(Without(p), p)
      /\ UNCHANGED <<running, sess, made, peerOf, tasks, aborted, nodeUp, blocked,
                     fwd, ret, held, inbox, sockErr, known>>
  BY DEF Receive, legs
<1>2. TypeTable' /\ TypeLegs'
  BY <1>1 DEF IInv, TypeTable, TypeLegs
<1>3. Ordered'
  <2>1. p \in InTable
    BY <1>1 DEF InTable
  <2>2. /\ IsOrder(Without(p), InTable \ {p})
        /\ Len(Without(p)) = Len(recency) - 1
    BY <2>1, WithoutOrder DEF IInv, Ordered
  <2>3. /\ IsOrder(recency', (InTable \ {p}) \union {p})
        /\ Len(recency') = Len(Without(p)) + 1
    BY <1>1, <2>2, AppendOrder
  <2>4. (InTable \ {p}) \union {p} = InTable /\ InTable' = InTable
    BY <1>1, <2>1 DEF InTable
  <2>5. Len(recency) \in Nat
    BY DEF IInv, Ordered, IsOrder
  <2>6. Len(recency') =< MaxSessions
    BY <2>2, <2>3, <2>5 DEF IInv, Ordered
  <2>7. IsOrder(recency, InTable)'
    BY <2>3, <2>4 DEF IsOrder
  <2>8. QED
    BY <2>6, <2>7 DEF Ordered
<1>4. Owned'
  BY <1>1 DEF IInv, Owned, NoDetachedWorker
<1>5. QED
  BY <1>2, <1>3, <1>4 DEF IInv

LEMMA ReceiveNewKeeps ==
    ASSUME IInv, NEW p \in Peers, ReceiveNew(p)
    PROVE  IInv'
<1> DEFINE g == made + 1
<1>1. /\ sess[p] = None /\ made < MaxGen
      /\ made' = g
      /\ peerOf' = [peerOf EXCEPT ![g] = p]
      /\ tasks' = tasks \union ({g} \X Kind)
      /\ sess' = [q \in Peers |-> IF q = p THEN g ELSE IF q \in Victims THEN None ELSE sess[q]]
      /\ recency' = Append(Kept, p)
      /\ Drop(Victims)
      /\ hand' \in {None, p}
      /\ UNCHANGED <<running, nodeUp, blocked, fwd, ret, held, inbox, sockErr, known>>
  BY DEF ReceiveNew, legs
<1>2. made \in Nat /\ g \in Gen /\ g \in 1 .. g /\ 1 .. made \subseteq 1 .. g /\ 0 .. made \subseteq 0 .. g
      /\ g \notin 0 .. made /\ g # None /\ g \in 0 .. MaxGen /\ None \in 0 .. g /\ g \in 0 .. g
  BY <1>1, RelayConstants DEF IInv, TypeTable, Gen, None
<1>3. Victims \subseteq InTable /\ p \notin InTable /\ InTable \subseteq Peers
  BY <1>1, Eviction DEF InTable
<1>4. /\ aborted' = aborted \union {sess[v] : v \in Victims}
      /\ aborted' \subseteq 1 .. made
      /\ \A q \in Peers \ Victims : sess[q] # None => sess[q] \notin aborted'
  BY <1>1, <1>3, Dropped
<1>5. TypeTable'
  <2>1. sess' \in [Peers -> 0 .. g]
    BY <1>1, <1>2 DEF IInv, TypeTable
  <2>2. peerOf' \in [Gen -> Peers \union {None}]
    BY <1>1, <1>2 DEF IInv, TypeTable
  <2>3. tasks' \subseteq (1 .. g) \X Kind
    BY <1>1, <1>2 DEF IInv, TypeTable
  <2>4. hand' \in Peers \union {None} /\ aborted' \subseteq 1 .. g
    BY <1>1, <1>2, <1>4
  <2>5. QED
    BY <1>1, <1>2, <2>1, <2>2, <2>3, <2>4 DEF IInv, TypeTable
<1>6. TypeLegs'
  BY <1>1 DEF IInv, TypeLegs
<1>7. Ordered'
  <2>1. IsOrder(Kept, InTable \ Victims) /\ Len(Kept) < MaxSessions /\ Len(Kept) \in Nat
    BY Eviction DEF IsOrder
  <2>2. /\ IsOrder(recency', (InTable \ Victims) \union {p})
        /\ Len(recency') = Len(Kept) + 1
    BY <1>1, <1>3, <2>1, AppendOrder
  <2>3. InTable' = (InTable \ Victims) \union {p}
    BY <1>1, <1>2 DEF InTable
  <2>4. Len(recency') =< MaxSessions
    BY <2>1, <2>2, RelayConstants
  <2>5. IsOrder(recency, InTable)'
    BY <2>2, <2>3 DEF IsOrder
  <2>6. QED
    BY <2>4, <2>5 DEF Ordered
<1>8. Owned'
  <2>1. /\ \A h \in 1 .. made : peerOf'[h] = peerOf[h]
        /\ peerOf'[g] = p
        /\ \A h \in 1 .. made' : h \in 1 .. made \/ h = g
        /\ 1 .. made \subseteq Gen
    <3>1. \A h \in 1 .. g : h \in 1 .. made \/ h = g
      BY <1>2
    <3>2. 1 .. made \subseteq Gen
      BY <1>1, <1>2, RelayConstants DEF Gen
    <3>3. g \notin 1 .. made
      BY <1>2
    <3>4. peerOf \in [Gen -> Peers \union {None}]
      BY DEF IInv, TypeTable
    <3> HIDE DEF g
    <3>5. QED
      BY <1>1, <1>2, <3>1, <3>2, <3>3, <3>4
  <2>2. \A h \in 1 .. made' : peerOf'[h] \in Peers
    BY <2>1 DEF IInv, Owned
  <2>3. ASSUME NEW q \in Peers, sess'[q] # None
        PROVE  peerOf'[sess'[q]] = q /\ sess'[q] \notin aborted' /\ <<sess'[q], "forward">> \in tasks'
    <3>1. CASE q = p
      <4>1. sess'[q] = g
        BY <1>1, <3>1
      <4>2. g \notin aborted'
        BY <1>2, <1>4
      <4>3. QED
        BY <1>1, <2>1, <3>1, <4>1, <4>2 DEF Kind
    <3>2. CASE q # p
      <4>1. q \notin Victims /\ sess'[q] = sess[q] /\ sess[q] # None
        BY <1>1, <2>3, <3>2
      <4>2. sess[q] \in 1 .. made
        BY <4>1 DEF IInv, TypeTable, None
      <4>3. QED
        BY <1>1, <1>4, <2>1, <4>1, <4>2 DEF IInv, Owned
    <3>3. QED
      BY <3>1, <3>2
  <2>4. ASSUME NEW h \in Gen, NEW k \in Kind, <<h, k>> \in tasks'
        PROVE  h \in aborted' \/ sess'[peerOf'[h]] = h
    <3>1. CASE h = g
      BY <1>1, <2>1, <3>1
    <3>2. CASE h # g
      <4>1. <<h, k>> \in tasks /\ h \in 1 .. made
        BY <1>1, <2>4, <3>2 DEF IInv, TypeTable
      <4>2. peerOf'[h] = peerOf[h] /\ peerOf[h] \in Peers
        BY <2>1, <4>1 DEF IInv, Owned
      <4>3. h \in aborted \/ sess[peerOf[h]] = h
        BY <4>1 DEF IInv, Owned, NoDetachedWorker
      <4>4. CASE sess[peerOf[h]] = h /\ peerOf[h] \in Victims
        BY <1>4, <4>4
      <4>5. CASE sess[peerOf[h]] = h /\ peerOf[h] \notin Victims
        <5>1. h # None
          BY <4>1 DEF None
        <5>2. peerOf[h] # p
          BY <1>1, <4>5, <5>1
        <5>3. QED
          BY <1>1, <4>2, <4>5, <5>2
      <4>6. QED
        BY <1>4, <4>3, <4>4, <4>5
    <3>3. QED
      BY <3>1, <3>2
  <2>5. hand' # None => sess'[hand'] # None
    BY <1>1, <1>2
  <2>6. QED
    BY <2>2, <2>3, <2>4, <2>5 DEF Owned, NoDetachedWorker
<1>9. QED
  BY <1>5, <1>6, <1>7, <1>8 DEF IInv

\* A step that only removes sessions P from the table.
LEMMA RemovalKeeps ==
    ASSUME IInv, NEW P \in SUBSET InTable, Drop(P),
           sess' = [q \in Peers |-> IF q \in P THEN None ELSE sess[q]],
           IsOrder(recency', InTable \ P), Len(recency') =< MaxSessions,
           hand' = None, running' \in BOOLEAN, TypeLegs',
           UNCHANGED <<made, peerOf, tasks, nodeUp, blocked>>
    PROVE  IInv'
<1>1. /\ aborted' = aborted \union {sess[v] : v \in P}
      /\ aborted' \subseteq 1 .. made
      /\ \A q \in Peers \ P : sess[q] # None => sess[q] \notin aborted'
  BY Dropped
<1>2. TypeTable'
  BY <1>1, RelayConstants DEF IInv, TypeTable, None
<1>3. Ordered'
  <2>1. InTable' = InTable \ P
    BY DEF InTable
  <2>2. IsOrder(recency, InTable)'
    BY <2>1 DEF IsOrder
  <2>3. QED
    BY <2>2 DEF Ordered
<1>4. Owned'
  <2>1. \A q \in Peers : sess'[q] # None => q \notin P /\ sess'[q] = sess[q]
    OBVIOUS
  <2>2. \A q \in Peers : sess'[q] # None =>
          peerOf'[sess'[q]] = q /\ sess'[q] \notin aborted' /\ <<sess'[q], "forward">> \in tasks'
    BY <1>1, <2>1 DEF IInv, Owned
  <2>3. ASSUME NEW h \in Gen, NEW k \in Kind, <<h, k>> \in tasks'
        PROVE  h \in aborted' \/ sess'[peerOf'[h]] = h
    <3>1. h \in 1 .. made /\ (h \in aborted \/ sess[peerOf[h]] = h)
      BY <2>3 DEF IInv, TypeTable, Owned, NoDetachedWorker
    <3>2. peerOf[h] \in Peers
      BY <3>1 DEF IInv, Owned
    <3>3. QED
      BY <1>1, <3>1, <3>2
  <2>4. QED
    BY <2>2, <2>3 DEF IInv, Owned, NoDetachedWorker
<1>5. QED
  BY <1>2, <1>3, <1>4 DEF IInv

LEMMA ReceiveNewFailsKeeps ==
    ASSUME IInv, NEW p \in Peers, ReceiveNewFails(p)
    PROVE  IInv'
<1>1. /\ sess' = [q \in Peers |-> IF q \in Victims THEN None ELSE sess[q]]
      /\ recency' = Kept /\ Drop(Victims)
      /\ hand = None
      /\ UNCHANGED <<running, hand, made, peerOf, tasks, nodeUp, blocked,
                     fwd, ret, held, inbox, sockErr, known>>
  BY DEF ReceiveNewFails, legs
<1>2. TypeLegs' /\ running' \in BOOLEAN
  BY <1>1 DEF IInv, TypeLegs, TypeTable
<1>3. Victims \in SUBSET InTable /\ IsOrder(Kept, InTable \ Victims) /\ Len(Kept) < MaxSessions
      /\ Len(Kept) \in Nat
  BY Eviction DEF IsOrder
<1>4. Len(Kept) =< MaxSessions
  BY <1>3, RelayConstants
<1>5. QED
  BY <1>1, <1>2, <1>3, <1>4, RemovalKeeps

LEMMA StopKeeps ==
    ASSUME IInv, Stop
    PROVE  IInv'
<1>1. /\ running' = FALSE /\ hand' = None
      /\ sess' = [q \in Peers |-> None]
      /\ recency' = << >>
      /\ Drop(InTable)
      /\ UNCHANGED <<made, peerOf, tasks, nodeUp, blocked, fwd, ret, held, inbox, sockErr, known>>
  BY DEF Stop, legs, InTable
<1>2. TypeLegs'
  BY <1>1 DEF IInv, TypeLegs
<1>3. sess' = [q \in Peers |-> IF q \in InTable THEN None ELSE sess[q]]
  BY <1>1 DEF InTable
<1>4. IsOrder(<< >>, InTable \ InTable)
  BY EmptySeq DEF IsOrder
<1>5. Len(<< >>) =< MaxSessions
  BY RelayConstants
<1>6. QED
  BY <1>1, <1>2, <1>3, <1>4, <1>5, RemovalKeeps

\* The session of the datagram in hand has its forward worker: nothing is
\* removed here, though the code has the case.
LEMMA EnqueueEffect ==
    ASSUME IInv, Enqueue
    PROVE  /\ fwd' = [fwd EXCEPT ![sess[hand]] = IF @ < LegCap THEN @ + 1 ELSE @]
           /\ hand' = None
           /\ UNCHANGED <<running, sess, recency, made, peerOf, tasks, aborted, nodeUp, blocked,
                          ret, held, inbox, sockErr, known>>
<1>1. hand \in Peers /\ sess[hand] # None
  BY DEF Enqueue, IInv, TypeTable, Owned
<1>2. <<sess[hand], "forward">> \in tasks
  BY <1>1 DEF IInv, Owned
<1>3. QED
  BY <1>2 DEF Enqueue

LEMMA EnqueueKeeps ==
    ASSUME IInv, Enqueue
    PROVE  IInv'
<1>1. /\ fwd' = [fwd EXCEPT ![sess[hand]] = IF @ < LegCap THEN @ + 1 ELSE @]
      /\ hand' = None
      /\ UNCHANGED <<running, sess, recency, made, peerOf, tasks, aborted, nodeUp, blocked,
                     ret, held, inbox, sockErr, known>>
  BY EnqueueEffect
<1>2. fwd' \in [Gen -> 0 .. LegCap]
  <2>1. \A x \in 0 .. LegCap : (IF x < LegCap THEN x + 1 ELSE x) \in 0 .. LegCap
    BY RelayConstants
  <2>2. QED
    BY <1>1, <2>1 DEF IInv, TypeLegs
<1>3. TypeTable' /\ TypeLegs'
  BY <1>1, <1>2 DEF IInv, TypeTable, TypeLegs
<1>4. Ordered' /\ Owned'
  BY <1>1 DEF IInv, Ordered, IsOrder, InTable, Owned, NoDetachedWorker
<1>5. QED
  BY <1>3, <1>4 DEF IInv

-----------------------------------------------------------------------------
(* The tasks of a session, the node and the test.                            *)

\* A step beside the loop: the table stays, and a task that ends is no forward
\* worker unless its session was dropped.
LEMMA BesideKeeps ==
    ASSUME IInv, TypeLegs', tasks' \subseteq tasks, nodeUp' \in BOOLEAN, blocked' \subseteq Peers,
           UNCHANGED <<running, sess, recency, hand, made, peerOf, aborted>>,
           \A g : <<g, "forward">> \in tasks => <<g, "forward">> \in tasks' \/ g \in aborted
    PROVE  IInv'
<1>1. TypeTable'
  BY DEF IInv, TypeTable
<1>2. Ordered'
  BY DEF IInv, Ordered, IsOrder, InTable
<1>3. Owned'
  BY DEF IInv, Owned, NoDetachedWorker
<1>4. QED
  BY <1>1, <1>2, <1>3 DEF IInv

LEMMA Counts ==
    /\ 0 \in 0 .. LegCap
    /\ \A x \in 0 .. LegCap : x > 0 => x - 1 \in 0 .. LegCap
    /\ \A x \in 0 .. LegCap : x < LegCap => x + 1 \in 0 .. LegCap
BY RelayConstants

LEMMA SessionKeeps ==
    ASSUME IInv, NEW g \in Gen, Session(g)
    PROVE  IInv'
<1> USE DEF table
<1>0. TypeLegs /\ nodeUp \in BOOLEAN /\ blocked \subseteq Peers
  BY DEF IInv, TypeTable
<1>1. CASE ForwardSend(g)
  <2>1. fwd' \in [Gen -> 0 .. LegCap]
    BY <1>0, <1>1, Counts DEF ForwardSend, TypeLegs
  <2>2. sockErr' \subseteq Gen /\ known' \subseteq Gen
    BY <1>0, <1>1 DEF ForwardSend, TypeLegs
  <2>3. UNCHANGED <<running, sess, recency, hand, made, peerOf, tasks, aborted, ret, held, inbox,
                    nodeUp, blocked>>
    BY <1>1 DEF ForwardSend
  <2>4. TypeLegs'
    BY <1>0, <2>1, <2>2, <2>3 DEF TypeLegs
  <2>5. QED
    BY <1>0, <2>3, <2>4, BesideKeeps
<1>2. CASE ReaderRecv(g)
  <2>1. inbox' \in [Gen -> 0 .. LegCap] /\ held' \subseteq Gen
    BY <1>0, <1>2, Counts DEF ReaderRecv, TypeLegs
  <2>2. UNCHANGED <<running, sess, recency, hand, made, peerOf, tasks, aborted, fwd, ret, sockErr,
                    known, nodeUp, blocked>>
    BY <1>2 DEF ReaderRecv
  <2>3. TypeLegs'
    BY <1>0, <2>1, <2>2 DEF TypeLegs
  <2>4. QED
    BY <1>0, <2>2, <2>3, BesideKeeps
<1>3. CASE ReaderEnqueue(g)
  <2>1. ret' \in [Gen -> 0 .. LegCap] /\ held' \subseteq Gen
    <3>1. \A x \in 0 .. LegCap : (IF x < LegCap THEN x + 1 ELSE x) \in 0 .. LegCap
      BY Counts
    <3>2. QED
      BY <1>0, <1>3, <3>1 DEF ReaderEnqueue, TypeLegs
  <2>2. /\ tasks' = tasks \/ tasks' = tasks \ {<<g, "reader">>}
        /\ UNCHANGED <<running, sess, recency, hand, made, peerOf, aborted, fwd, inbox, sockErr,
                       known, nodeUp, blocked>>
    BY <1>3 DEF ReaderEnqueue
  <2>3. TypeLegs'
    BY <1>0, <2>1, <2>2 DEF TypeLegs
  <2>4. QED
    BY <1>0, <2>2, <2>3, BesideKeeps
<1>4. CASE ReaderErr(g)
  <2>1. /\ tasks' = tasks \ {<<g, "reader">>}
        /\ sockErr' = sockErr \ {g}
        /\ UNCHANGED <<running, sess, recency, hand, made, peerOf, aborted, fwd, ret, held, inbox,
                       known, nodeUp, blocked>>
    BY <1>4 DEF ReaderErr
  <2>2. TypeLegs'
    BY <1>0, <2>1 DEF TypeLegs
  <2>3. QED
    BY <1>0, <2>1, <2>2, BesideKeeps
<1>5. CASE ReturnSend(g)
  <2>1. ret' \in [Gen -> 0 .. LegCap]
    BY <1>0, <1>5, Counts DEF ReturnSend, TypeLegs
  <2>2. UNCHANGED <<running, sess, recency, hand, made, peerOf, tasks, aborted, fwd, held, inbox,
                    sockErr, known, nodeUp, blocked>>
    BY <1>5 DEF ReturnSend
  <2>3. TypeLegs'
    BY <1>0, <2>1, <2>2 DEF TypeLegs
  <2>4. QED
    BY <1>0, <2>2, <2>3, BesideKeeps
<1>6. CASE ReturnEnds(g)
  <2>1. ret' \in [Gen -> 0 .. LegCap]
    BY <1>0, <1>6, Counts DEF ReturnEnds, TypeLegs
  <2>2. /\ tasks' = tasks \ {<<g, "return">>}
        /\ UNCHANGED <<running, sess, recency, hand, made, peerOf, aborted, fwd, held, inbox,
                       sockErr, known, nodeUp, blocked>>
    BY <1>6 DEF ReturnEnds
  <2>3. TypeLegs'
    BY <1>0, <2>1, <2>2 DEF TypeLegs
  <2>4. QED
    BY <1>0, <2>2, <2>3, BesideKeeps
<1>7. QED
  BY <1>1, <1>2, <1>3, <1>4, <1>5, <1>6 DEF Session

LEMMA CancelKeeps ==
    ASSUME IInv, NEW g \in Gen, NEW k \in Kind, Cancel(g, k)
    PROVE  IInv'
<1>1. /\ g \in aborted
      /\ tasks' = tasks \ {<<g, k>>}
      /\ UNCHANGED <<running, sess, recency, hand, made, peerOf, aborted, nodeUp, blocked>>
  BY DEF Cancel, table
<1>2. TypeLegs'
  BY Counts DEF Cancel, IInv, TypeLegs
<1>3. nodeUp \in BOOLEAN /\ blocked \subseteq Peers
  BY DEF IInv, TypeTable
<1>4. \A h : <<h, "forward">> \in tasks => <<h, "forward">> \in tasks' \/ h \in aborted
  BY <1>1
<1>5. QED
  BY <1>1, <1>2, <1>3, <1>4, BesideKeeps

LEMMA OutsideKeeps ==
    ASSUME IInv, NodeStarts \/ WatchBlockedLinks \/ \E g \in Gen : NodeReplies(g)
    PROVE  IInv'
<1> USE DEF table, legs
<1>0. TypeLegs /\ nodeUp \in BOOLEAN /\ blocked \subseteq Peers
  BY DEF IInv, TypeTable
<1>1. CASE NodeStarts
  <2>1. TypeLegs'
    BY <1>0, <1>1 DEF NodeStarts, TypeLegs
  <2>2. QED
    BY <1>0, <1>1, <2>1, BesideKeeps DEF NodeStarts
<1>2. CASE WatchBlockedLinks
  <2>1. TypeLegs'
    BY <1>0, <1>2 DEF WatchBlockedLinks, TypeLegs
  <2>2. blocked' \subseteq Peers
    BY <1>2, RelayConstants DEF WatchBlockedLinks
  <2>3. QED
    BY <1>0, <1>2, <2>1, <2>2, BesideKeeps DEF WatchBlockedLinks
<1>3. ASSUME NEW g \in Gen, NodeReplies(g)
      PROVE  IInv'
  <2>1. inbox' \in [Gen -> 0 .. LegCap]
    BY <1>0, <1>3, Counts DEF NodeReplies, TypeLegs
  <2>2. TypeLegs'
    BY <1>0, <1>3, <2>1 DEF NodeReplies, TypeLegs
  <2>3. QED
    BY <1>0, <1>3, <2>2, BesideKeeps DEF NodeReplies
<1>4. QED
  BY <1>1, <1>2, <1>3

-----------------------------------------------------------------------------
LEMMA InvInit == Init => IInv
<1> SUFFICES ASSUME Init
             PROVE  IInv
  OBVIOUS
<1>1. TypeTable /\ TypeLegs
  BY RelayConstants, Counts DEF Init, TypeTable, TypeLegs, None
<1>2. Ordered
  <2>1. IsOrder(<< >>, {})
    BY EmptySeq DEF IsOrder
  <2>2. InTable = {}
    BY DEF Init, InTable
  <2>3. Len(<< >>) =< MaxSessions
    BY RelayConstants
  <2>4. QED
    BY <2>1, <2>2, <2>3 DEF Init, Ordered
<1>3. Owned
  BY DEF Init, Owned, NoDetachedWorker
<1>4. QED
  BY <1>1, <1>2, <1>3 DEF IInv

LEMMA InvStep ==
    ASSUME IInv, [Next]_vars
    PROVE  IInv'
<1>1. CASE UNCHANGED vars
  BY <1>1 DEF vars, IInv, TypeTable, TypeLegs, Ordered, IsOrder, InTable, Owned, NoDetachedWorker
<1>2. CASE Loop
  BY <1>2, EnqueueKeeps, ReceiveKeeps, ReceiveNewKeeps, ReceiveNewFailsKeeps DEF Loop
<1>3. CASE Stop
  BY <1>3, StopKeeps
<1>4. ASSUME NEW g \in Gen, Session(g) \/ \E k \in Kind : Cancel(g, k)
      PROVE  IInv'
  BY <1>4, SessionKeeps, CancelKeeps
<1>5. CASE NodeStarts \/ WatchBlockedLinks \/ \E g \in Gen : NodeReplies(g)
  BY <1>5, OutsideKeeps
<1>6. QED
  BY <1>1, <1>2, <1>3, <1>4, <1>5 DEF Next

\* The invariant holds in every behaviour of a relay.
THEOREM Invariant == Spec => []IInv
BY InvInit, InvStep, PTL DEF Spec

\* The sessions of a relay are at most MAX_SESSIONS, their order by last_seen is
\* complete and has each of them once, and no leg holds more than it may.
THEOREM TableStaysBounded == Spec => []TableBounded
<1>1. IInv => TableBounded
  <2> SUFFICES ASSUME IInv
               PROVE  TableBounded
    OBVIOUS
  <2>1. recency \in Seq(Peers) /\ DOMAIN recency = 1 .. Len(recency)
    BY DEF IInv, Ordered, IsOrder
  <2>2. TypeOK
    BY <2>1 DEF IInv, TypeTable, TypeLegs, TypeOK
  <2>3. ToSet(recency) = {p \in Peers : sess[p] # None}
    <3>1. \A i \in 1 .. Len(recency) : recency[i] \in Peers
      BY <2>1
    <3>2. QED
      BY <2>1, <3>1 DEF IInv, Ordered, IsOrder, InTable, ToSet
  <2>4. Len(recency) =< MaxSessions /\ \A i, j \in DOMAIN recency : recency[i] = recency[j] => i = j
    BY <2>1 DEF IInv, Ordered, IsOrder
  <2>5. QED
    BY <2>2, <2>3, <2>4 DEF TableBounded
<1>2. QED
  BY <1>1, Invariant, PTL

\* "so no worker is left detached": every task belongs to a session of the table
\* or is about to be cancelled, through evictions, failures and replacements.
THEOREM NoWorkerIsDetached == Spec => []NoDetachedWorker
<1>1. IInv => NoDetachedWorker
  BY DEF IInv, Owned
<1>2. QED
  BY <1>1, Invariant, PTL

\* try_send finds the forward worker of a session in the table alive, and the
\* loop's `expect` the session of the datagram it has in hand.
THEOREM ForwardWorkersLive == Spec => []ForwardWorkerOutlivesSession
<1>1. IInv => ForwardWorkerOutlivesSession
  BY DEF IInv, Owned, ForwardWorkerOutlivesSession
<1>2. QED
  BY <1>1, Invariant, PTL

\* As long as the table has room for every peer nobody is evicted.
LEMMA RoomForAll ==
    ASSUME IInv, Cardinality(Peers) =< MaxSessions, NEW p \in Peers, sess[p] = None
    PROVE  Victims = {}
<1>1. recency \in Seq(Peers) /\ Len(recency) \in Nat /\ InTable \subseteq Peers /\ p \notin InTable
  BY DEF IInv, Ordered, IsOrder, InTable
<1>2. recency \in Surjection(1 .. Len(recency), InTable) /\ recency \in Injection(1 .. Len(recency), InTable)
  <2>1. recency \in [1 .. Len(recency) -> Peers]
    BY <1>1
  <2>2. \A i \in 1 .. Len(recency) : recency[i] \in InTable
    BY <1>1, <2>1 DEF IInv, Ordered, IsOrder
  <2>3. recency \in [1 .. Len(recency) -> InTable]
    BY <2>1, <2>2
  <2>4. \A q \in InTable : \E i \in 1 .. Len(recency) : recency[i] = q
    BY <1>1 DEF IInv, Ordered, IsOrder
  <2>5. \A i, j \in 1 .. Len(recency) : recency[i] = recency[j] => i = j
    BY DEF IInv, Ordered, IsOrder
  <2>6. QED
    BY <2>3, <2>4, <2>5 DEF Surjection, Injection, IsInjective
<1>3. IsFiniteSet(1 .. Len(recency)) /\ Cardinality(1 .. Len(recency)) = Len(recency)
  BY <1>1, FS_Interval
<1>4. Cardinality(InTable) = Len(recency)
  BY <1>2, <1>3, FS_Surjection
<1>5. Cardinality(InTable) < Cardinality(Peers) /\ Cardinality(Peers) \in Nat
  <2>1. IsFiniteSet(Peers)
    BY RelayConstants
  <2>2. InTable # Peers
    BY <1>1
  <2>3. Cardinality(InTable) =< Cardinality(Peers) /\ (Cardinality(InTable) = Cardinality(Peers) => InTable = Peers)
    BY <1>1, <2>1, FS_Subset
  <2>4. Cardinality(Peers) \in Nat
    BY <2>1, FS_CardinalityType
  <2>5. QED
    BY <1>1, <1>4, <2>2, <2>3, <2>4
<1>6. ~Full
  BY <1>1, <1>4, <1>5, RelayConstants DEF Full
<1>7. QED
  BY <1>6 DEF Victims

\* "the node then sees each peer as a stable distinct source": with room for every
\* peer no step but the relay's end takes a session away from its peer.
THEOREM SourcesAreStable == Spec => StableSource
<1> DEFINE Same == \A p \in Peers : sess[p] # None => sess'[p] = sess[p]
<1>1. ASSUME IInv, [Next]_vars, Cardinality(Peers) =< MaxSessions, running'
      PROVE  Same
  <2>1. CASE UNCHANGED sess
    BY <2>1
  <2>2. ASSUME NEW p \in Peers, ReceiveNew(p) \/ ReceiveNewFails(p)
        PROVE  Same
    <3>1. sess[p] = None
      BY <2>2 DEF ReceiveNew, ReceiveNewFails
    <3>2. Victims = {}
      BY <1>1, <3>1, RoomForAll
    <3>3. QED
      BY <2>2, <3>1, <3>2 DEF ReceiveNew, ReceiveNewFails
  <2>3. CASE Enqueue
    BY <1>1, <2>3, EnqueueEffect
  <2>4. CASE Stop
    BY <1>1, <2>4 DEF Stop
  <2>5. ASSUME NEW p \in Peers, Receive(p)
        PROVE  UNCHANGED sess
    BY <2>5 DEF Receive
  <2>6. ASSUME NEW g \in Gen, Session(g) \/ NodeReplies(g) \/ \E k \in Kind : Cancel(g, k)
        PROVE  UNCHANGED sess
    BY <2>6 DEF Session, ForwardSend, ReaderRecv, ReaderEnqueue, ReaderErr, ReturnSend, ReturnEnds,
                Cancel, NodeReplies, table
  <2>7. CASE NodeStarts \/ WatchBlockedLinks \/ UNCHANGED vars
    BY <2>1, <2>7 DEF NodeStarts, WatchBlockedLinks, vars, table
  <2>8. QED
    BY <1>1, <2>1, <2>2, <2>3, <2>4, <2>5, <2>6, <2>7 DEF Next, Loop
<1>2. IInv /\ [Next]_vars =>
        [Cardinality(Peers) =< MaxSessions /\ running' =>
           \A p \in Peers : sess[p] # None => sess'[p] = sess[p]]_vars
  BY <1>1
<1>3. QED
  BY <1>2, Invariant, PTL DEF Spec, StableSource

-----------------------------------------------------------------------------
(* What a cut link still carries.                                            *)

\* The datagrams on the legs of some sessions, as Carried names them.
Cells(own, count, leg) == UNION {{<<g, leg, n>> : n \in 1 .. count[g]} : g \in own}

Mine(p) == {g \in Gen : peerOf[g] = p}

LEMMA CellsFinite ==
    ASSUME NEW own \in SUBSET Gen, NEW count \in [Gen -> 0 .. LegCap], NEW leg
    PROVE  IsFiniteSet(Cells(own, count, leg))
<1> DEFINE S == Gen \X (0 .. LegCap)
           T == {<<x[1], leg, x[2]>> : x \in S}
           f == [x \in S |-> <<x[1], leg, x[2]>>]
<1>1. IsFiniteSet(S)
  <2>1. IsFiniteSet(Gen)
    BY FS_Interval, RelayConstants DEF Gen
  <2>2. IsFiniteSet(0 .. LegCap)
    BY FS_Interval, RelayConstants
  <2>3. QED
    BY <2>1, <2>2, FS_Product
<1>2. f \in Surjection(S, T)
  BY DEF Surjection
<1>3. IsFiniteSet(T)
  BY <1>1, <1>2, FS_Surjection
<1>4. Cells(own, count, leg) \subseteq T
  <2> SUFFICES ASSUME NEW g \in own, NEW n \in 1 .. count[g]
               PROVE  <<g, leg, n>> \in T
    BY DEF Cells
  <2>1. count[g] \in 0 .. LegCap /\ LegCap \in Nat
    BY RelayConstants
  <2>2. n \in 0 .. LegCap
    BY <2>1
  <2>3. <<g, n>> \in S
    BY <2>2
  <2>4. <<g, leg, n>> = <<<<g, n>>[1], leg, <<g, n>>[2]>>
    OBVIOUS
  <2> HIDE DEF S
  <2>5. QED
    BY <2>3, <2>4
<1>5. QED
  BY <1>3, <1>4, FS_Subset

\* Fewer datagrams, of fewer sessions.
LEMMA FewerCells ==
    ASSUME NEW own \in SUBSET Gen, NEW new \in SUBSET Gen, NEW leg,
           NEW count \in [Gen -> 0 .. LegCap], NEW now \in [Gen -> 0 .. LegCap],
           \A g \in new : (g \in own /\ now[g] =< count[g]) \/ now[g] = 0
    PROVE  Cells(new, now, leg) \subseteq Cells(own, count, leg)
<1> SUFFICES ASSUME NEW g \in new, NEW n \in 1 .. now[g]
             PROVE  <<g, leg, n>> \in Cells(own, count, leg)
  BY DEF Cells
<1>1. count[g] \in 0 .. LegCap /\ now[g] \in 0 .. LegCap
  OBVIOUS
<1>2. g \in own /\ n \in 1 .. count[g]
  BY <1>1
<1>3. QED
  BY <1>2 DEF Cells

\* One more on a leg.
LEMMA OneMoreCell ==
    ASSUME NEW own \in SUBSET Gen, NEW h \in Gen, NEW leg,
           NEW count \in [Gen -> 0 .. LegCap], NEW now \in [Gen -> 0 .. LegCap],
           now = [count EXCEPT ![h] = IF @ < LegCap THEN @ + 1 ELSE @]
    PROVE  Cells(own, now, leg) \subseteq Cells(own, count, leg) \union {<<h, leg, count[h] + 1>>}
<1> SUFFICES ASSUME NEW g \in own, NEW n \in 1 .. now[g], <<g, leg, n>> # <<h, leg, count[h] + 1>>
             PROVE  <<g, leg, n>> \in Cells(own, count, leg)
  BY DEF Cells
<1>1. count[g] \in 0 .. LegCap /\ LegCap \in Nat
  BY RelayConstants
<1>2. n \in 1 .. count[g]
  BY <1>1
<1>3. QED
  BY <1>2 DEF Cells

\* Carried, from its parts.
LEMMA Parts ==
    ASSUME IInv, NEW p \in Peers
    PROVE  /\ Carried(p) = Cardinality(Cells(Mine(p), fwd, "f")) + Cardinality(Cells(Mine(p), ret, "r"))
                           + Cardinality(held \intersect Mine(p)) + (IF hand = p THEN 1 ELSE 0)
           /\ IsFiniteSet(Cells(Mine(p), fwd, "f")) /\ Cardinality(Cells(Mine(p), fwd, "f")) \in Nat
           /\ IsFiniteSet(Cells(Mine(p), ret, "r")) /\ Cardinality(Cells(Mine(p), ret, "r")) \in Nat
           /\ IsFiniteSet(held \intersect Mine(p)) /\ Cardinality(held \intersect Mine(p)) \in Nat
<1>1. fwd \in [Gen -> 0 .. LegCap] /\ ret \in [Gen -> 0 .. LegCap] /\ Mine(p) \in SUBSET Gen
  BY DEF IInv, TypeLegs, Mine
<1>2. IsFiniteSet(Cells(Mine(p), fwd, "f")) /\ IsFiniteSet(Cells(Mine(p), ret, "r"))
  BY <1>1, CellsFinite
<1>3. IsFiniteSet(held \intersect Mine(p))
  <2>1. IsFiniteSet(Gen)
    BY FS_Interval, RelayConstants DEF Gen
  <2>2. QED
    BY <1>1, <2>1, FS_Subset
<1>4. Carried(p) = Cardinality(Cells(Mine(p), fwd, "f")) + Cardinality(Cells(Mine(p), ret, "r"))
                   + Cardinality(held \intersect Mine(p)) + (IF hand = p THEN 1 ELSE 0)
  BY DEF Carried, Cells, Mine
<1>5. QED
  BY <1>2, <1>3, <1>4, FS_CardinalityType

\* The sessions not yet created carry nothing.
Unused == \A g \in Gen : g > made => fwd[g] = 0 /\ ret[g] = 0 /\ g \notin held

\* A step that brings nothing into the relay for peer p.
Drains(p) ==
    /\ \A g \in Gen : peerOf'[g] = p =>
          \/ peerOf[g] = p /\ fwd'[g] =< fwd[g] /\ ret'[g] =< ret[g] /\ (g \in held' => g \in held)
          \/ fwd'[g] = 0 /\ ret'[g] = 0 /\ g \notin held'
    /\ hand' = p => hand = p

LEMMA DrainsCarriesLess ==
    ASSUME IInv, IInv', NEW p \in Peers, Drains(p)
    PROVE  Carried(p)' =< Carried(p)
<1>1. /\ fwd \in [Gen -> 0 .. LegCap] /\ ret \in [Gen -> 0 .. LegCap] /\ Mine(p) \in SUBSET Gen
      /\ fwd' \in [Gen -> 0 .. LegCap] /\ ret' \in [Gen -> 0 .. LegCap] /\ Mine(p)' \in SUBSET Gen
  BY DEF IInv, TypeLegs, Mine
<1>2. /\ \A g \in Mine(p)' : (g \in Mine(p) /\ fwd'[g] =< fwd[g]) \/ fwd'[g] = 0
      /\ \A g \in Mine(p)' : (g \in Mine(p) /\ ret'[g] =< ret[g]) \/ ret'[g] = 0
      /\ held' \intersect Mine(p)' \subseteq held \intersect Mine(p)
  BY DEF Drains, Mine
<1> HIDE DEF Mine
<1>3. Cells(Mine(p)', fwd', "f") \subseteq Cells(Mine(p), fwd, "f")
  BY <1>1, <1>2, FewerCells
<1>4. Cells(Mine(p)', ret', "r") \subseteq Cells(Mine(p), ret, "r")
  BY <1>1, <1>2, FewerCells
<1> DEFINE F == Cells(Mine(p), fwd, "f")
           R == Cells(Mine(p), ret, "r")
           H == held \intersect Mine(p)
           G == Cells(Mine(p)', fwd', "f")
           Q == Cells(Mine(p)', ret', "r")
           J == held' \intersect Mine(p)'
<1>5. /\ Carried(p) = Cardinality(F) + Cardinality(R) + Cardinality(H) + (IF hand = p THEN 1 ELSE 0)
      /\ IsFiniteSet(F) /\ Cardinality(F) \in Nat /\ IsFiniteSet(R) /\ Cardinality(R) \in Nat
      /\ IsFiniteSet(H) /\ Cardinality(H) \in Nat
  BY Parts
<1>6. /\ Carried(p)' = Cardinality(G) + Cardinality(Q) + Cardinality(J) + (IF hand' = p THEN 1 ELSE 0)
      /\ Cardinality(G) \in Nat /\ Cardinality(Q) \in Nat /\ Cardinality(J) \in Nat
  <2>1. (/\ Carried(p) = Cardinality(Cells(Mine(p), fwd, "f")) + Cardinality(Cells(Mine(p), ret, "r"))
                         + Cardinality(held \intersect Mine(p)) + (IF hand = p THEN 1 ELSE 0)
         /\ Cardinality(Cells(Mine(p), fwd, "f")) \in Nat
         /\ Cardinality(Cells(Mine(p), ret, "r")) \in Nat
         /\ Cardinality(held \intersect Mine(p)) \in Nat)'
    BY Parts, PTL
  <2>2. QED
    BY <2>1 DEF Cells
<1>7. G \subseteq F /\ Q \subseteq R /\ J \subseteq H
  BY <1>2, <1>3, <1>4
<1>8. hand' = p => hand = p
  BY DEF Drains
<1> HIDE DEF F, R, H, G, Q, J
<1>9. Cardinality(G) =< Cardinality(F) /\ Cardinality(Q) =< Cardinality(R) /\ Cardinality(J) =< Cardinality(H)
  BY <1>5, <1>7, FS_Subset
<1>10. QED
  BY <1>5, <1>6, <1>8, <1>9


\* The datagram in the loop's hands goes to the forward leg of its peer, or nowhere.
LEMMA EnqueueCarries ==
    ASSUME IInv, IInv', NEW p \in Peers, Enqueue, hand = p
    PROVE  Carried(p)' =< Carried(p)
<1>1. /\ fwd' = [fwd EXCEPT ![sess[p]] = IF @ < LegCap THEN @ + 1 ELSE @]
      /\ hand' = None
      /\ UNCHANGED <<peerOf, ret, held>>
  BY EnqueueEffect
<1>2. sess[p] \in Gen
  <2>1. sess[p] # None /\ sess[p] \in 0 .. made /\ made \in 0 .. MaxGen
    BY DEF IInv, TypeTable, Owned, Enqueue
  <2>2. QED
    BY <2>1, RelayConstants DEF Gen, None
<1>3. /\ fwd \in [Gen -> 0 .. LegCap] /\ fwd' \in [Gen -> 0 .. LegCap] /\ Mine(p) \in SUBSET Gen
      /\ Mine(p)' = Mine(p) /\ hand' # p
  BY <1>1, NoneIsNobody DEF IInv, TypeLegs, Mine
<1> HIDE DEF Mine
<1> DEFINE F == Cells(Mine(p), fwd, "f")
           G == Cells(Mine(p), fwd', "f")
           r == Cardinality(Cells(Mine(p), ret, "r"))
           h == Cardinality(held \intersect Mine(p))
           x == <<sess[p], "f", fwd[sess[p]] + 1>>
<1>4. G \subseteq F \union {x}
  BY <1>1, <1>2, <1>3, OneMoreCell
<1>5. /\ Carried(p) = Cardinality(F) + r + h + 1
      /\ IsFiniteSet(F) /\ Cardinality(F) \in Nat /\ r \in Nat /\ h \in Nat
  <2>1. Carried(p) = Cardinality(F) + r + h + (IF hand = p THEN 1 ELSE 0)
    BY Parts
  <2>2. QED
    BY <2>1, Parts
<1>6. /\ Carried(p)' = Cardinality(G) + r + h
      /\ IsFiniteSet(G) /\ Cardinality(G) \in Nat
  <2>1. (/\ Carried(p) = Cardinality(Cells(Mine(p), fwd, "f")) + Cardinality(Cells(Mine(p), ret, "r"))
                         + Cardinality(held \intersect Mine(p)) + (IF hand = p THEN 1 ELSE 0)
         /\ IsFiniteSet(Cells(Mine(p), fwd, "f"))
         /\ Cardinality(Cells(Mine(p), fwd, "f")) \in Nat)'
    BY Parts, PTL
  <2>2. Carried(p)' = Cardinality(G) + r + h + (IF hand' = p THEN 1 ELSE 0)
    BY <1>1, <1>3, <2>1 DEF Cells
  <2>3. IsFiniteSet(G) /\ Cardinality(G) \in Nat
    BY <1>3, <2>1 DEF Cells
  <2> HIDE DEF G, r, h
  <2>4. (IF hand' = p THEN 1 ELSE 0) = 0
    BY <1>3
  <2>5. Cardinality(G) + r + h + 0 = Cardinality(G) + r + h
    BY <1>5, <2>3
  <2>6. QED
    BY <2>2, <2>3, <2>4, <2>5
<1> HIDE DEF F, G, r, h, x
<1>7. Cardinality(G) =< Cardinality(F) + 1
  <2>1. /\ IsFiniteSet(F \union {x})
        /\ Cardinality(F \union {x}) = IF x \in F THEN Cardinality(F) ELSE Cardinality(F) + 1
    BY <1>5, FS_AddElement
  <2>2. Cardinality(G) =< Cardinality(F \union {x})
    BY <1>4, <2>1, FS_Subset
  <2>3. QED
    BY <1>5, <1>6, <2>1, <2>2
<1>8. QED
  BY <1>5, <1>6, <1>7

\* A reply the reader holds goes to the return leg, or nowhere.
LEMMA ReaderEnqueueCarries ==
    ASSUME IInv, IInv', NEW p \in Peers, NEW g \in Gen, ReaderEnqueue(g), peerOf[g] = p,
           <<g, "return">> \in tasks
    PROVE  Carried(p)' =< Carried(p)
<1>1. /\ ret' = [ret EXCEPT ![g] = IF @ < LegCap THEN @ + 1 ELSE @]
      /\ g \in held /\ held' = held \ {g}
      /\ UNCHANGED <<peerOf, hand, fwd>>
  BY DEF ReaderEnqueue, table
<1>2. /\ ret \in [Gen -> 0 .. LegCap] /\ ret' \in [Gen -> 0 .. LegCap] /\ Mine(p) \in SUBSET Gen
      /\ Mine(p)' = Mine(p) /\ g \in Mine(p)
  BY <1>1 DEF IInv, TypeLegs, Mine
<1> HIDE DEF Mine
<1> DEFINE R == Cells(Mine(p), ret, "r")
           Q == Cells(Mine(p), ret', "r")
           f == Cardinality(Cells(Mine(p), fwd, "f"))
           H == held \intersect Mine(p)
           b == IF hand = p THEN 1 ELSE 0
           x == <<g, "r", ret[g] + 1>>
<1>3. Q \subseteq R \union {x}
  BY <1>1, <1>2, OneMoreCell
<1>4. held' \intersect Mine(p) = H \ {g} /\ g \in H /\ b \in Nat
  BY <1>1, <1>2
<1>5. /\ Carried(p) = f + Cardinality(R) + Cardinality(H) + b
      /\ IsFiniteSet(R) /\ Cardinality(R) \in Nat /\ f \in Nat
      /\ IsFiniteSet(H) /\ Cardinality(H) \in Nat
  BY Parts
<1>6. /\ Carried(p)' = f + Cardinality(Q) + Cardinality(H \ {g}) + b
      /\ IsFiniteSet(Q) /\ Cardinality(Q) \in Nat
  <2>1. (/\ Carried(p) = Cardinality(Cells(Mine(p), fwd, "f")) + Cardinality(Cells(Mine(p), ret, "r"))
                         + Cardinality(held \intersect Mine(p)) + (IF hand = p THEN 1 ELSE 0)
         /\ IsFiniteSet(Cells(Mine(p), ret, "r"))
         /\ Cardinality(Cells(Mine(p), ret, "r")) \in Nat)'
    BY Parts, PTL
  <2>2. Cells(Mine(p), fwd, "f")' = Cells(Mine(p), fwd, "f") /\ Cells(Mine(p), ret, "r")' = Q
    BY <1>1, <1>2 DEF Cells
  <2>3. (held \intersect Mine(p))' = H \ {g}
    BY <1>2, <1>4
  <2>4. (IF hand = p THEN 1 ELSE 0)' = b
    BY <1>1
  <2> HIDE DEF H, b, Q
  <2>5. QED
    BY <2>1, <2>2, <2>3, <2>4
<1> HIDE DEF R, Q, f, H, b, x
<1>7. Cardinality(Q) =< Cardinality(R) + 1
  <2>1. /\ IsFiniteSet(R \union {x})
        /\ Cardinality(R \union {x}) = IF x \in R THEN Cardinality(R) ELSE Cardinality(R) + 1
    BY <1>5, FS_AddElement
  <2>2. Cardinality(Q) =< Cardinality(R \union {x})
    BY <1>3, <2>1, FS_Subset
  <2>3. QED
    BY <1>5, <1>6, <2>1, <2>2
<1>8. Cardinality(H \ {g}) = Cardinality(H) - 1
  BY <1>4, <1>5, FS_RemoveElement
<1>9. QED
  BY <1>4, <1>5, <1>6, <1>7, <1>8

-----------------------------------------------------------------------------
\* A session not yet created has no task, and is nobody's.
LEMMA UnusedStep ==
    ASSUME IInv, Unused, [Next]_vars
    PROVE  Unused'
<1> USE DEF table, legs
<1>1. SUFFICES ASSUME NEW g \in Gen, g > made'
               PROVE  fwd'[g] = 0 /\ ret'[g] = 0 /\ g \notin held'
  BY DEF Unused
<1>2. made \in Nat /\ g \in Nat /\ (made' = made \/ made' = made + 1)
  <2>1. made \in Nat /\ g \in Nat
    BY RelayConstants DEF IInv, TypeTable, Gen
  <2>2. made' = made \/ made' = made + 1
    BY DEF Next, Loop, Session, Enqueue, Receive, ReceiveNew, ReceiveNewFails, Stop, Cancel, ForwardSend,
           ReaderRecv, ReaderEnqueue, ReaderErr, ReturnSend, ReturnEnds, NodeStarts, NodeReplies,
           WatchBlockedLinks, vars
  <2>3. QED
    BY <2>1, <2>2
<1>3. g > made /\ g \notin 1 .. made
  BY <1>1, <1>2
<1>4. fwd[g] = 0 /\ ret[g] = 0 /\ g \notin held
  BY <1>3 DEF Unused
<1>5. \A k \in Kind : <<g, k>> \notin tasks
  BY <1>3 DEF IInv, TypeTable
<1>6. fwd \in [Gen -> 0 .. LegCap] /\ ret \in [Gen -> 0 .. LegCap]
  BY DEF IInv, TypeLegs
<1>7. CASE Enqueue
  <2>1. /\ fwd' = [fwd EXCEPT ![sess[hand]] = IF @ < LegCap THEN @ + 1 ELSE @]
        /\ UNCHANGED <<ret, held>>
    BY <1>7, EnqueueEffect
  <2>2. sess[hand] # g
    BY <1>3, <1>7 DEF Enqueue, IInv, Owned, TypeTable, None
  <2>3. QED
    BY <1>4, <1>6, <2>1, <2>2
<1>8. CASE Stop \/ \E p \in Peers : Receive(p) \/ ReceiveNew(p) \/ ReceiveNewFails(p)
  BY <1>4, <1>8 DEF Stop, Receive, ReceiveNew, ReceiveNewFails
<1>9. ASSUME NEW h \in Gen, Session(h)
      PROVE  fwd'[g] = 0 /\ ret'[g] = 0 /\ g \notin held'
  <2>1. h # g
    BY <1>4, <1>5, <1>9 DEF Session, ForwardSend, ReaderRecv, ReaderEnqueue, ReaderErr, ReturnSend, ReturnEnds, Kind
  <2>2. CASE ForwardSend(h)
    BY <1>4, <1>6, <2>1, <2>2 DEF ForwardSend
  <2>3. CASE ReaderRecv(h)
    BY <1>4, <2>1, <2>3 DEF ReaderRecv
  <2>4. CASE ReaderEnqueue(h)
    BY <1>4, <1>6, <2>1, <2>4 DEF ReaderEnqueue
  <2>5. CASE ReaderErr(h)
    BY <1>4, <2>5 DEF ReaderErr
  <2>6. CASE ReturnSend(h) \/ ReturnEnds(h)
    BY <1>4, <1>6, <2>1, <2>6 DEF ReturnSend, ReturnEnds
  <2>7. QED
    BY <1>9, <2>2, <2>3, <2>4, <2>5, <2>6 DEF Session
<1>10. ASSUME NEW h \in Gen, NEW k \in Kind, Cancel(h, k)
       PROVE  fwd'[g] = 0 /\ ret'[g] = 0 /\ g \notin held'
  BY <1>4, <1>6, <1>10 DEF Cancel
<1>11. CASE NodeStarts \/ WatchBlockedLinks \/ UNCHANGED vars \/ \E h \in Gen : NodeReplies(h)
  BY <1>4, <1>11 DEF NodeStarts, WatchBlockedLinks, NodeReplies, vars
<1>12. QED
  BY <1>7, <1>8, <1>9, <1>10, <1>11 DEF Next, Loop

LEMMA CutStep ==
    ASSUME IInv, Unused, [Next]_vars, NEW p \in blocked \intersect blocked'
    PROVE  Carried(p)' =< Carried(p)
<1> USE DEF table, legs
<1>0. IInv' /\ p \in Peers
  BY InvStep DEF IInv, TypeTable
<1>1. /\ fwd \in [Gen -> 0 .. LegCap] /\ ret \in [Gen -> 0 .. LegCap]
      /\ \A g \in Gen : fwd[g] \in Nat /\ ret[g] \in Nat
  BY RelayConstants DEF IInv, TypeLegs
<1>2. Drains(p) => Carried(p)' =< Carried(p)
  BY <1>0, DrainsCarriesLess
<1>3. CASE Enqueue
  <2>1. CASE hand = p
    BY <1>0, <1>3, <2>1, EnqueueCarries
  <2>2. CASE hand # p
    <3>1. /\ fwd' = [fwd EXCEPT ![sess[hand]] = IF @ < LegCap THEN @ + 1 ELSE @]
          /\ hand' = None
          /\ UNCHANGED <<peerOf, ret, held>>
      BY <1>3, EnqueueEffect
    <3>2. peerOf[sess[hand]] # p
      BY <1>3, <2>2 DEF Enqueue, IInv, Owned, TypeTable
    <3>3. \A g \in Gen : peerOf[g] = p => fwd'[g] = fwd[g]
      BY <1>1, <3>1, <3>2
    <3>4. Drains(p)
      BY <1>0, <1>1, <3>1, <3>3, NoneIsNobody DEF Drains
    <3>5. QED
      BY <1>2, <3>4
  <2>3. QED
    BY <2>1, <2>2
<1>4. ASSUME NEW q \in Peers, Receive(q) \/ ReceiveNewFails(q)
      PROVE  Drains(p)
  BY <1>1, <1>4 DEF Receive, ReceiveNewFails, Drains
<1>5. ASSUME NEW q \in Peers, ReceiveNew(q)
      PROVE  Drains(p)
  <2>1. /\ peerOf' = [peerOf EXCEPT ![made + 1] = q]
        /\ hand' = IF q \in blocked THEN None ELSE q
        /\ UNCHANGED <<fwd, ret, held>>
    BY <1>5 DEF ReceiveNew
  <2>2. made + 1 > made
    BY RelayConstants DEF IInv, TypeTable
  <2>3. made + 1 \in Gen => fwd[made + 1] = 0 /\ ret[made + 1] = 0 /\ made + 1 \notin held
    BY <2>2 DEF Unused
  <2>4. \A g \in Gen : g # made + 1 => peerOf'[g] = peerOf[g]
    BY <2>1 DEF IInv, TypeTable
  <2>5. hand' # p
    BY <1>0, <2>1, NoneIsNobody
  <2>6. QED
    BY <1>1, <2>1, <2>3, <2>4, <2>5 DEF Drains
<1>6. CASE Stop
  <2>1. hand' = None /\ UNCHANGED <<peerOf, fwd, ret, held>>
    BY <1>6 DEF Stop
  <2>2. Drains(p)
    BY <1>0, <1>1, <2>1, NoneIsNobody DEF Drains
  <2>3. QED
    BY <1>2, <2>2
<1>7. ASSUME NEW g \in Gen, ForwardSend(g) \/ ReturnSend(g)
      PROVE  Drains(p)
  BY <1>1, <1>7 DEF ForwardSend, ReturnSend, Drains
<1>8. ASSUME NEW g \in Gen, ReaderRecv(g)
      PROVE  Drains(p)
  BY <1>1, <1>8 DEF ReaderRecv, Drains
<1>9. ASSUME NEW g \in Gen, ReaderEnqueue(g)
      PROVE  Carried(p)' =< Carried(p)
  <2>1. CASE peerOf[g] = p /\ <<g, "return">> \in tasks
    BY <1>0, <1>9, <2>1, ReaderEnqueueCarries
  <2>2. CASE ~(peerOf[g] = p /\ <<g, "return">> \in tasks)
    <3>1. /\ held' = held \ {g} /\ UNCHANGED <<peerOf, hand, fwd>>
          /\ \A h \in Gen : peerOf[h] = p => ret'[h] = ret[h]
      BY <1>1, <1>9, <2>2 DEF ReaderEnqueue
    <3>2. Drains(p)
      BY <1>1, <3>1 DEF Drains
    <3>3. QED
      BY <1>2, <3>2
  <2>3. QED
    BY <2>1, <2>2
<1>10. ASSUME NEW g \in Gen, ReaderErr(g) \/ ReturnEnds(g) \/ NodeReplies(g) \/ \E k \in Kind : Cancel(g, k)
       PROVE  Drains(p)
  <2>1. CASE ReaderErr(g) \/ ReturnEnds(g) \/ NodeReplies(g)
    BY <1>1, <2>1 DEF ReaderErr, ReturnEnds, NodeReplies, Drains
  <2>2. ASSUME NEW k \in Kind, Cancel(g, k)
        PROVE  Drains(p)
    BY <1>1, <2>2 DEF Cancel, Drains
  <2>3. QED
    BY <1>10, <2>1, <2>2
<1>11. CASE NodeStarts \/ WatchBlockedLinks \/ UNCHANGED vars
  <2>1. Drains(p)
    BY <1>1, <1>11 DEF NodeStarts, WatchBlockedLinks, vars, Drains
  <2>2. QED
    BY <1>2, <2>1
<1>12. QED
  BY <1>2, <1>3, <1>4, <1>5, <1>6, <1>7, <1>8, <1>9, <1>10, <1>11 DEF Next, Loop, Session

\* watch_blocked_links, the checks in run_relay and in the return reader: over a
\* link that is and stays cut, no datagram of either direction comes in anew.
THEOREM CutLinksDrain == Spec => CutLinkDrains
<1>1. Init => Unused
  BY DEF Init, Unused
<1>2. IInv /\ Unused /\ [Next]_vars => Unused'
  BY UnusedStep
<1>3. IInv /\ Unused /\ [Next]_vars => [\A p \in blocked \intersect blocked' : Carried(p)' =< Carried(p)]_vars
  BY CutStep
<1>4. QED
  BY <1>1, <1>2, <1>3, Invariant, PTL DEF Spec, CutLinkDrains

=============================================================================
