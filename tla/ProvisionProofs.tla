-------------------------- MODULE ProvisionProofs ---------------------------
(***************************************************************************)
(* Bring-ups of any number of runs on one directory, whatever settings they *)
(* have, wherever they end and whatever becomes of the transactions they    *)
(* leave behind: no key that was paid to is lost, nothing is paid twice, and *)
(* the nodes that are started are the ones that were provisioned.           *)
(***************************************************************************)
EXTENDS Provision, TLAPS, FiniteSetTheorems, SequenceTheorems

\* What is in the pool, and that nothing is in it twice.
TxsOf(s) == {s[n] : n \in DOMAIN s}
Distinct(s) == \A n, m \in DOMAIN s : s[n] = s[m] => n = m
Pending == TxsOf(pool)

ChainType ==
  [native : [Key -> Nat], token : [Key -> Nat], held : [Safe -> Nat],
   safes : SUBSET Safe, indexed : SUBSET Safe, scoped : SUBSET Safe,
   bound : [Key -> Safe \cup {NoSafe}], port : [Key -> 0 .. PortMax + 1]]

Typed ==
  /\ TypeOK
  /\ chain \in ChainType
  /\ config = [i \in Ids |-> config[i]]
  /\ pool \in Seq(Tx) /\ Distinct(pool)
  /\ asked = [pair |-> asked.pair, call |-> asked.call]

HasSafe == {"grant", "float", "bind", "announce", "config", "store"}

\* The identity a run has in hand is saved, unless the program knows it, and is
\* the owner of the Safe in hand.
InHand ==
  /\ pc # "idle" => run \in 1 .. Runs
  /\ pc \in Steps => id \in NodeIds \cup (MaxNodes .. LastId)
  /\ pc \in {"bind", "announce", "config"} => ~IsExtra(id)
  /\ pc = "store" => IsExtra(id)
  /\ pc \in Steps \ {"keys", "start"} =>
       /\ key \in Key /\ key[1] = id
       /\ IF IsExtra(id) THEN key[2] = 0 ELSE keystore[id] = key
  /\ pc \in HasSafe => safe \in Owned(key)
  /\ \A i \in Ids : keystore[i] # NoKey =>
       keystore[i][1] = i /\ (IsExtra(i) => keystore[i][2] = 0)

\* The step that waits for a transaction, and its kind.
Waits == {<<"safe", "native">>, <<"deploy", "token">>, <<"index", "deploy">>, <<"float", "grant">>,
          <<"bind", "float">>, <<"announce", "bind">>, <<"config", "announce">>}

\* What is known of a transaction by its kind.
Formed(tx) ==
  /\ tx.kind = "deploy" => tx = [kind |-> "deploy", from |-> tx.account, account |-> tx.account,
                                 safe |-> <<tx.account, tx.run>>, port |-> NoPort,
                                 amount |-> Stake, run |-> tx.run]
  /\ tx.kind \in {"grant", "float", "bind"} => tx.safe \in chain.safes /\ tx.safe[1] = tx.account

\* What is known of the one that is awaited besides.
Wanted(tx) ==
  /\ tx.kind = "token" => tx.amount <= Stake
  /\ tx.kind \in {"grant", "float"} => tx.safe = safe
  /\ tx.kind = "announce" => tx.port = AnnouncePort(id)

\* What is in the pool is awaited, or a run has given up on it.
Traced ==
  /\ awaited # NoTx =>
       /\ <<pc, awaited.kind>> \in Waits
       /\ awaited.run = run /\ awaited.account = key
       /\ Formed(awaited) /\ Wanted(awaited)
  /\ \A tx \in Pending :
       /\ Formed(tx)
       /\ tx # awaited =>
            /\ lost[tx.account] > 0
            /\ tx.run < run \/ (pc = "idle" /\ tx.run = run)

\* On a new chain nothing has been paid to the identities still to come.
Funded ==
  /\ KeysBeforeFunds
  /\ ~opts.external /\ pc \in Steps =>
       \A k \in Key : HasFunds(k) => k[1] < id \/ (k[1] = id /\ pc # "keys")

\* The Safes of an account, deployed or on their way.
Deployed(k) == {s \in chain.safes : s[1] = k} 
               \cup {<<k, tx.run>> : tx \in {t \in Pending : t.kind = "deploy" /\ t.account = k}}

OneSafe ==
  /\ \A k \in Key : lost[k] = 0 =>
       /\ \A s, t \in Deployed(k) : s = t
       /\ Deployed(k) # {} => Owned(k) # {} \/ (pc = "index" /\ key = k)
       /\ pc \in {"token", "deploy"} /\ key = k => Deployed(k) = {}
  /\ \A k \in Key : chain.bound[k] # NoSafe => chain.bound[k] \in chain.safes /\ chain.bound[k][1] = k

\* What was paid to an account is there, on its way, in a Safe that reruns will
\* find, or lost with a transaction a run gave up on, which may still move it.
Stale(k) == {t \in Pending : t.kind = "deploy" /\ t.account = k /\ t # awaited}
Coming(k) == IF awaited # NoTx /\ awaited.kind = "token" /\ awaited.account = k THEN awaited.amount ELSE 0
Secured(k) == IF key = k /\ pc \in {"token", "deploy", "index"} THEN pc = "index" /\ Calm ELSE Owned(k) # {}
Assets(k) == chain.token[k] + Coming(k) + (IF Secured(k) THEN Stake ELSE 0)
Balanced(k) == paid[k] + Stake * Cardinality(Stale(k)) <= Stake * lost[k] + Assets(k)
Covered == (\A k \in Key : Balanced(k)) /\ PaidOnce

\* The nodes this run is through with, and the one it has in hand.
Done(i) == i \in NodeIds /\ (i < id \/ pc \in {"start", "up"})

Provisioned(i) == LET k == keystore[i] IN
  /\ k # NoKey /\ config[i].keys = k
  /\ config[i].pix = PixOf(i) /\ (config[i].announce => ~Relayed)
  /\ config[i].safe \in Owned(k)
  /\ AnnouncePort(i) <= PortMax
  /\ chain.bound[k] # NoSafe
  /\ opts.grant => config[i].safe \in chain.scoped
  /\ lost[k] = 0 => chain.port[k] = AnnouncePort(i)
  /\ pc # "up" /\ opts.pix.on => chain.held[config[i].safe] >= FloatTarget(i)

Awaiting(step) == pc = step /\ ~Calm

UnderWay ==
  /\ pc \in HasSafe \ {"grant"} /\ opts.grant => safe \in chain.scoped \/ Awaiting("float")
  /\ pc \in {"bind", "announce", "config"} /\ opts.pix.on =>
       chain.held[safe] + (IF Awaiting("bind") THEN awaited.amount ELSE 0) >= FloatTarget(id)
  /\ pc \in {"announce", "config"} => chain.bound[key] # NoSafe \/ Awaiting("announce")
  /\ pc = "config" =>
       /\ AnnouncePort(id) <= PortMax
       /\ lost[key] = 0 => chain.port[key] = AnnouncePort(id) \/ Awaiting("config")

Started ==
  /\ pc # "idle" => (opts.latency = NoLatency \/ Usable(opts.latency)) /\ Readable(opts.pix.file)
  /\ pc \in Steps \cup {"up"} => \A i \in Ids : Done(i) => Provisioned(i)
  /\ UnderWay
  /\ pc = "up" => members = NodeIds

\* A pair no pass has to look at again has its channel.
MeshSound ==
  /\ phase \in {"open", "wait"} => Pairs(members) \ (todo \cup missing) \subseteq channels
  /\ phase = "open" => managed \in {"api", "both"}
  /\ phase = "reach" => managed = "strategy"
  /\ phase = "wait" => managed # "none"
  /\ MeshOkMeansOpen

\* A chain no run is connected to: what is pending there was given up on by a run
\* up to run r, and it is paid for and deployed as it was left.
RestOwned(c, k) == {s \in c.chain.indexed : s[1] = k}
RestDeploys(c, k) == {t \in TxsOf(c.pool) : t.kind = "deploy" /\ t.account = k}
RestDeployed(c, k) == {s \in c.chain.safes : s[1] = k} \cup {<<k, tx.run>> : tx \in RestDeploys(c, k)}

RestTyped(c) ==
  /\ c.chain \in ChainType /\ c.chain.indexed \subseteq c.chain.safes
  /\ c.pool \in Seq(Tx) /\ Distinct(c.pool)
  /\ c.paid \in [Key -> Nat] /\ c.lost \in [Key -> Nat]
  /\ c.channels \subseteq Pairs(0 .. MaxNodes - 1) /\ c.opening \subseteq Pairs(0 .. MaxNodes - 1)
RestTraced(c, r) ==
  \A tx \in TxsOf(c.pool) :
    /\ tx.kind = "deploy" => tx = [kind |-> "deploy", from |-> tx.account, account |-> tx.account,
                                   safe |-> <<tx.account, tx.run>>, port |-> NoPort,
                                   amount |-> Stake, run |-> tx.run]
    /\ tx.kind \in {"grant", "float", "bind"} => tx.safe \in c.chain.safes /\ tx.safe[1] = tx.account
    /\ c.lost[tx.account] > 0 /\ tx.run <= r
RestOneSafe(c) ==
  /\ \A k \in Key : c.lost[k] = 0 =>
       /\ \A s, t \in RestDeployed(c, k) : s = t
       /\ RestDeployed(c, k) # {} => RestOwned(c, k) # {}
  /\ \A k \in Key : c.chain.bound[k] # NoSafe => c.chain.bound[k] \in c.chain.safes /\ c.chain.bound[k][1] = k
RestCovered(c) ==
  \A k \in Key :
    /\ c.paid[k] + Stake * Cardinality(RestDeploys(c, k))
         <= Stake * c.lost[k] + (c.chain.token[k] + (IF RestOwned(c, k) # {} THEN Stake ELSE 0))
    /\ c.paid[k] <= Stake * (1 + c.lost[k])
Resting(c, r) == RestTyped(c) /\ RestTraced(c, r) /\ RestOneSafe(c) /\ RestCovered(c)

Rested == Resting(aside, run)

IInv ==
  /\ Typed /\ InHand /\ Traced /\ Funded /\ OneSafe /\ Covered /\ Started /\ MeshSound
  /\ Rested

-----------------------------------------------------------------------------
(* The pool as a set, and the values that stand for nothing.                *)

LEMMA Sentinels == NoKey \notin Key /\ NoSafe \notin Safe /\ NoTx \notin Tx
<1>1. NoKey \notin Key
  BY DEF NoKey, Key
<1>2. NoSafe \notin Safe
  BY DEF NoSafe, Safe
<1>3. NoTx \notin Tx
  BY DEF NoTx, Tx
<1>4. QED
  BY <1>1, <1>2, <1>3

LEMMA Numbers ==
    /\ MaxExtras \in Nat /\ MaxNodes \in Nat \ {0} /\ Runs \in Nat \ {0} /\ PortMax \in Nat \ {0}
    /\ NativeTarget \in Nat \ {0} /\ Stake \in Nat \ {0} /\ Float \in Nat \ {0}
    /\ \A o \in Settings :
         /\ o.size \in 1 .. MaxNodes /\ o.extras \in 0 .. MaxExtras
         /\ o.base \in 0 .. PortMax /\ o.relayBase \in 0 .. PortMax
         /\ o.external \in BOOLEAN /\ o.frozen \in BOOLEAN /\ o.pix.on \in BOOLEAN /\ o.grant \in BOOLEAN
BY AmountsPositive, ProvisionNumbers, MaxNodesPositive, SettingsAreSettings

LEMMA AppendedTx ==
    ASSUME NEW s \in Seq(Tx), Distinct(s), NEW tx \in Tx, tx \notin TxsOf(s)
    PROVE  /\ Append(s, tx) \in Seq(Tx) /\ Distinct(Append(s, tx))
           /\ TxsOf(Append(s, tx)) = TxsOf(s) \cup {tx}
<1> DEFINE t == Append(s, tx)
<1>1. /\ t \in Seq(Tx) /\ Len(s) \in Nat /\ DOMAIN s = 1 .. Len(s) /\ DOMAIN t = 1 .. Len(s) + 1
      /\ \A n \in 1 .. Len(s) : t[n] = s[n]
      /\ t[Len(s) + 1] = tx
  BY AppendProperties
<1> HIDE DEF t
<1>2. \A n \in DOMAIN t : n \in DOMAIN s \/ n = Len(s) + 1
  BY <1>1
<1>3. \A n \in DOMAIN s : n \in DOMAIN t /\ t[n] = s[n] /\ t[n] # tx
  BY <1>1 DEF TxsOf
<1>4. Distinct(t)
  BY <1>1, <1>2, <1>3 DEF Distinct
<1>5. TxsOf(t) = TxsOf(s) \cup {tx}
  <2>1. TxsOf(t) \subseteq TxsOf(s) \cup {tx}
    BY <1>1, <1>2, <1>3 DEF TxsOf
  <2>2. tx \in TxsOf(t)
    <3>1. Len(s) + 1 \in DOMAIN t
      BY <1>1
    <3>2. QED
      BY <1>1, <3>1 DEF TxsOf
  <2>3. TxsOf(s) \subseteq TxsOf(t)
    BY <1>3 DEF TxsOf
  <2>4. QED
    BY <2>1, <2>2, <2>3
<1>6. QED
  BY <1>1, <1>4, <1>5 DEF t

LEMMA RemovedTx ==
    ASSUME NEW s \in Seq(Tx), Distinct(s), NEW n \in DOMAIN s
    PROVE  /\ RemoveAt(s, n) \in Seq(Tx) /\ Distinct(RemoveAt(s, n))
           /\ TxsOf(RemoveAt(s, n)) = TxsOf(s) \ {s[n]}
<1> DEFINE a == SubSeq(s, 1, n - 1)
           b == SubSeq(s, n + 1, Len(s))
           t == a \o b
           Old(i) == IF i < n THEN i ELSE i + 1
<1>1. Len(s) \in Nat /\ n \in 1 .. Len(s) /\ DOMAIN s = 1 .. Len(s) /\ \A i \in 1 .. Len(s) : s[i] \in Tx
  OBVIOUS
<1>2. a \in Seq(Tx) /\ Len(a) = n - 1 /\ \A i \in 1 .. n - 1 : a[i] = s[i]
  <2>1. 1 \in 1 .. Len(s) + 1 /\ n - 1 \in 1 - 1 .. Len(s)
    BY <1>1
  <2>2. a \in Seq(Tx) /\ Len(a) = n - 1 /\ DOMAIN a = 1 .. Len(a)
    BY <1>1, <2>1, SubSeqProperties
  <2>3. \A i \in 1 .. n - 1 : a[i] = s[i]
    BY <1>1
  <2>4. QED
    BY <2>2, <2>3
<1>3. b \in Seq(Tx) /\ Len(b) = Len(s) - n /\ \A i \in 1 .. Len(s) - n : b[i] = s[i + n]
  <2>1. n + 1 \in 1 .. Len(s) + 1 /\ Len(s) \in (n + 1) - 1 .. Len(s)
    BY <1>1
  <2>2. b \in Seq(Tx) /\ Len(b) = Len(s) - n /\ DOMAIN b = 1 .. Len(b)
    BY <1>1, <2>1, SubSeqProperties
  <2>3. \A i \in 1 .. Len(s) - n : b[i] = s[i + n]
    BY <1>1
  <2>4. QED
    BY <2>2, <2>3
<1> HIDE DEF a, b
<1>4. /\ t \in Seq(Tx) /\ DOMAIN t = 1 .. Len(s) - 1
      /\ \A i \in 1 .. Len(s) - 1 : t[i] = s[Old(i)]
  <2>1. /\ t \in Seq(Tx) /\ Len(t) = Len(a) + Len(b)
        /\ \A i \in 1 .. Len(a) + Len(b) : t[i] = IF i <= Len(a) THEN a[i] ELSE b[i - Len(a)]
    BY <1>2, <1>3, ConcatProperties
  <2> HIDE DEF t
  <2>2. Len(a) + Len(b) = Len(s) - 1
    BY <1>1, <1>2, <1>3
  <2>3. t \in Seq(Tx) /\ DOMAIN t = 1 .. Len(s) - 1
    BY <2>1, <2>2
  <2>4. ASSUME NEW i \in 1 .. Len(s) - 1
        PROVE  t[i] = s[Old(i)]
    <3>1. CASE i < n
      BY <1>1, <1>2, <2>1, <2>2, <3>1
    <3>2. CASE ~(i < n)
      <4>1. i - (n - 1) \in 1 .. Len(s) - n /\ (i - (n - 1)) + n = i + 1 /\ ~(i <= n - 1)
        BY <1>1, <3>2
      <4>2. t[i] = b[i - (n - 1)]
        BY <1>2, <2>1, <2>2, <4>1
      <4>3. b[i - (n - 1)] = s[i + 1]
        BY <1>3, <4>1
      <4>4. QED
        BY <3>2, <4>2, <4>3
    <3>3. QED
      BY <3>1, <3>2
  <2>5. QED
    BY <2>3, <2>4
<1>5. RemoveAt(s, n) = t
  BY DEF RemoveAt, a, b
<1> HIDE DEF t
<1>6. \A i \in DOMAIN t : Old(i) \in DOMAIN s /\ Old(i) # n
  BY <1>1, <1>4
<1>7. \A i, j \in DOMAIN t : Old(i) = Old(j) => i = j
  BY <1>1, <1>4
<1>8. \A j \in DOMAIN s : j # n => \E i \in DOMAIN t : Old(i) = j
  <2> SUFFICES ASSUME NEW j \in DOMAIN s, j # n
               PROVE  \E i \in DOMAIN t : Old(i) = j
    OBVIOUS
  <2>1. CASE j < n
    BY <1>1, <1>4, <2>1
  <2>2. CASE j > n
    <3>1. j - 1 \in DOMAIN t /\ Old(j - 1) = j
      BY <1>1, <1>4, <2>2
    <3>2. QED
      BY <3>1
  <2>3. QED
    BY <1>1, <2>1, <2>2
<1> HIDE DEF Old
<1>9. Distinct(t)
  BY <1>4, <1>6, <1>7 DEF Distinct
<1>10. TxsOf(t) = TxsOf(s) \ {s[n]}
  <2>1. TxsOf(t) \subseteq TxsOf(s) \ {s[n]}
    BY <1>4, <1>6 DEF TxsOf, Distinct
  <2>2. TxsOf(s) \ {s[n]} \subseteq TxsOf(t)
    BY <1>4, <1>8 DEF TxsOf
  <2>3. QED
    BY <2>1, <2>2
<1>11. QED
  BY <1>4, <1>5, <1>9, <1>10

-----------------------------------------------------------------------------
(* The mesh.                                                                 *)

MeshInv == MeshTypeOK /\ asked = [pair |-> asked.pair, call |-> asked.call] /\ MeshSound

\* Only a cluster that is up has phases to go through.
Goes == /\ phase \in {"off", "failed"} => phase' = phase
        /\ phase' = "off" => phase = "off"

LEMMA MeshKept ==
    ASSUME MeshInv, MeshNext
    PROVE  MeshInv' /\ members' = members /\ Goes
<1> USE DEF Goes, MeshInv, MeshTypeOK, MeshSound, MeshOkMeansOpen
<1>1. CASE PassOk
  BY <1>1 DEF PassOk, Enter, NextPhase, NoCall
<1>2. CASE PassAgain
  BY <1>2 DEF PassAgain, NoCall
<1>3. CASE PassTimesOut
  BY <1>3 DEF PassTimesOut, NoCall
<1>4. CASE Elapse
  BY <1>4 DEF Elapse, NoCall
<1>5. CASE OpenOk
  BY <1>5 DEF OpenOk, NoCall
<1>6. CASE OpenErr
  BY <1>6 DEF OpenErr, NoCall
<1>7. CASE Recheck
  BY <1>7 DEF Recheck, NoCall
<1>8. CASE ListErr
  BY <1>8 DEF ListErr, NoCall
<1>9. ASSUME NEW p \in todo, NEW ok \in BOOLEAN, Skip(p) \/ AskOpen(p) \/ Ping(p, ok) \/ Listed(p, ok)
      PROVE  MeshInv' /\ members' = members /\ Goes
  <2>1. CASE Skip(p)
    BY <1>9, <2>1 DEF Skip, NoCall
  <2>2. CASE AskOpen(p)
    BY <1>9, <2>2 DEF AskOpen, NoCall, Pairs
  <2>3. CASE Ping(p, ok)
    BY <1>9, <2>3 DEF Ping, NoCall
  <2>4. CASE Listed(p, ok)
    BY <1>9, <2>4 DEF Listed, NoCall
  <2>5. QED
    BY <1>9, <2>1, <2>2, <2>3, <2>4
<1>10. ASSUME NEW p \in Pairs(0 .. MaxNodes - 1), Mined(p) \/ GivenUp(p) \/ StrategyOpens(p)
       PROVE  MeshInv' /\ members' = members /\ Goes
  <2>1. CASE Mined(p)
    BY <1>10, <2>1 DEF Mined, NoCall
  <2>2. CASE GivenUp(p)
    BY <1>10, <2>2 DEF GivenUp, NoCall
  <2>3. CASE StrategyOpens(p)
    BY <1>10, <2>3 DEF StrategyOpens, NoCall
  <2>4. QED
    BY <1>10, <2>1, <2>2, <2>3
<1>11. QED
  BY <1>1, <1>2, <1>3, <1>4, <1>5, <1>6, <1>7, <1>8, <1>9, <1>10 DEF MeshNext, Passes, Answers, Outside

LEMMA MeshStarts ==
    ASSUME MeshInv, NEW nodes \in SUBSET (0 .. MaxNodes - 1), NEW management \in Managements,
           StartMesh(nodes, management)
    PROVE  MeshInv' /\ members' = nodes /\ phase' # "off"
<1> USE DEF MeshInv, MeshTypeOK, MeshSound, MeshOkMeansOpen
<1>1. phase' = FirstPhase(management) /\ managed' = management /\ todo' = Pairs(nodes) /\ missing' = {}
      /\ members' = nodes /\ asked' = NoCall /\ late' = FALSE /\ UNCHANGED <<channels, opening>>
  BY DEF StartMesh, Enter
<1>2. \/ management = "none" /\ phase' = "running"
      \/ management = "strategy" /\ phase' = "reach"
      \/ management \in {"api", "both"} /\ phase' = "open"
  BY <1>1 DEF Managements, FirstPhase
<1>3. MeshTypeOK'
  BY <1>1, <1>2 DEF NoCall, Managements
<1>4. asked' = [pair |-> asked'.pair, call |-> asked'.call]
  BY <1>1 DEF NoCall
<1>5. MeshSound'
  BY <1>1, <1>2
<1>6. QED
  BY <1>1, <1>2, <1>3, <1>4, <1>5

LEMMA MeshStops ==
    ASSUME MeshInv, StopMesh
    PROVE  MeshInv' /\ phase' = "off"
BY DEF StopMesh, MeshInv, MeshTypeOK, MeshSound, MeshOkMeansOpen, NoCall, Pairs

-----------------------------------------------------------------------------
(* What the steps of a run and the chain do, in terms of the pool as a set.  *)

Sending == NativeTopUp \/ TokenTopUp \/ DeploySafe \/ ScopeAggregator \/ FloatTopUp \/ RegisterSafe \/ Announce

\* The steps that send, or would if it was needed, and those that follow.
Follows == {<<"native", "safe">>, <<"token", "deploy">>, <<"deploy", "index">>, <<"grant", "float">>,
            <<"float", "bind">>, <<"float", "store">>, <<"bind", "announce">>, <<"announce", "config">>}

Sends ==
  /\ awaited' \in Tx /\ awaited'.account = key /\ awaited'.run = run
  /\ <<pc', awaited'.kind>> \in Waits
  /\ Formed(awaited') /\ Wanted(awaited')
  /\ pool' \in Seq(Tx) /\ Distinct(pool') /\ Pending' = Pending \cup {awaited'}
  /\ awaited' \notin Pending

LEMMA InHandIs ==
    ASSUME Typed, InHand, pc \in Steps \ {"keys", "start"}
    PROVE  /\ run \in 1 .. Runs /\ key \in Key
           /\ key[1] = id /\ Recoverable(key)
           /\ ~IsExtra(id) => keystore[id] = key
           /\ pc \in HasSafe => safe \in Owned(key) /\ safe \in chain.safes /\ safe \in Safe /\ safe[1] = key
BY DEF Typed, TypeOK, InHand, Recoverable, Owned, Steps

LEMMA SubmitIs ==
    ASSUME Typed, InHand, Traced, Calm, pc \in Steps, NEW tx \in Tx, tx.run = run, Submit(tx)
    PROVE  /\ awaited' = tx /\ pool' \in Seq(Tx) /\ Distinct(pool') /\ Pending' = Pending \cup {tx}
           /\ tx \notin Pending
<1>1. run \in Nat /\ pc # "idle"
  BY DEF InHand, Steps
<1>2. tx \notin Pending
  <2> SUFFICES ASSUME tx \in Pending PROVE FALSE
    OBVIOUS
  <2>1. tx # awaited
    BY Sentinels DEF Calm
  <2>2. QED
    BY <1>1, <2>1 DEF Traced
<1>3. pool' = Append(pool, tx) /\ awaited' = tx
  BY DEF Submit
<1>4. QED
  BY <1>2, <1>3, AppendedTx DEF Typed, Pending

LEMMA SendingIs ==
    ASSUME Typed, InHand, Traced, Sending
    PROVE  /\ UNCHANGED <<run, opts, id, key, safe, disk, chain, lost, meshVars>>
           /\ Calm /\ <<pc, pc'>> \in Follows
           /\ pc' = "bind" => ~IsExtra(id)
           /\ pc' = "store" => IsExtra(id)
           /\ UNCHANGED <<pool, awaited>> \/ Sends
<1> DEFINE Unchanged == UNCHANGED <<run, opts, id, key, safe, disk, chain, lost, meshVars>>
<1>1. pc \in Steps \ {"keys", "start"} /\ Calm /\ Unchanged /\ <<pc, pc'>> \in Follows
  <2>1. CASE NativeTopUp
    BY <2>1 DEF NativeTopUp, At, Follows, Steps, books
  <2>2. CASE TokenTopUp
    BY <2>2 DEF TokenTopUp, At, Follows, Steps
  <2>3. CASE DeploySafe
    BY <2>3 DEF DeploySafe, At, Follows, Steps, books
  <2>4. CASE ScopeAggregator
    BY <2>4 DEF ScopeAggregator, At, Follows, Steps, books
  <2>5. CASE FloatTopUp
    BY <2>5 DEF FloatTopUp, At, Follows, Steps, books
  <2>6. CASE RegisterSafe
    BY <2>6 DEF RegisterSafe, At, Follows, Steps, books
  <2>7. CASE Announce
    BY <2>7 DEF Announce, At, Follows, Steps, books
  <2>8. QED
    BY <2>1, <2>2, <2>3, <2>4, <2>5, <2>6, <2>7 DEF Sending
<1>2. (pc' = "bind" => ~IsExtra(id)) /\ (pc' = "store" => IsExtra(id))
  BY DEF Sending, NativeTopUp, TokenTopUp, DeploySafe, ScopeAggregator, FloatTopUp, RegisterSafe, Announce, At
<1>3. run \in 1 .. Runs /\ key \in Key /\ (pc \in HasSafe => safe \in chain.safes /\ safe \in Safe /\ safe[1] = key)
  BY <1>1, InHandIs
<1>4. chain.native[key] \in Nat /\ chain.token[key] \in Nat /\ (pc \in HasSafe => chain.held[safe] \in Nat)
  BY <1>3 DEF Typed, ChainType
<1>5. ASSUME NEW tx \in Tx, tx.run = run, tx.account = key, Submit(tx), <<pc', tx.kind>> \in Waits, Formed(tx), Wanted(tx)
      PROVE  Sends
  BY <1>1, <1>5, SubmitIs DEF Sends
<1>6. NoPort \in 0 .. PortMax + 1 /\ NoSafe \in Safe \cup {NoSafe}
  BY Numbers DEF NoPort
<1> HIDE DEF Unchanged
<1>7. CASE NativeTopUp
  <2> DEFINE tx == Pay("native", NoSafe, NativeTarget - chain.native[key])
  <2>1. chain.native[key] < NativeTarget => tx \in Tx /\ Formed(tx) /\ Wanted(tx)
    BY <1>3, <1>4, <1>6, Numbers DEF Pay, Tx, Formed, Wanted
  <2>2. tx.run = run /\ tx.account = key /\ tx.kind = "native"
    BY DEF Pay
  <2>3. pc' = "safe" /\ SubmitIf(chain.native[key] < NativeTarget, tx)
    BY <1>7 DEF NativeTopUp
  <2> HIDE DEF tx
  <2>4. QED
    BY <1>1, <1>2, <1>5, <2>1, <2>2, <2>3 DEF SubmitIf, Unchanged, Waits
<1>8. CASE TokenTopUp
  <2> DEFINE tx == Pay("token", NoSafe, TokenDeficit)
  <2>1. TokenDeficit > 0 => tx \in Tx /\ Formed(tx) /\ Wanted(tx)
    BY <1>3, <1>4, <1>6, Numbers DEF Pay, Tx, Formed, Wanted, TokenDeficit
  <2>2. tx.run = run /\ tx.account = key /\ tx.kind = "token"
    BY DEF Pay
  <2>3. pc' = "deploy" /\ SubmitIf(TokenDeficit > 0, tx)
    BY <1>8 DEF TokenTopUp
  <2> HIDE DEF tx
  <2>4. QED
    BY <1>1, <1>2, <1>5, <2>1, <2>2, <2>3 DEF SubmitIf, Unchanged, Waits
<1>9. CASE DeploySafe
  <2> DEFINE tx == Own("deploy", <<key, run>>, NoPort)
  <2>1. tx \in Tx /\ Formed(tx) /\ Wanted(tx)
    <3>1. <<key, run>> \in Safe
      BY <1>3 DEF Safe
    <3>2. QED
      BY <1>3, <1>6, <3>1, Numbers DEF Own, Tx, Formed, Wanted
  <2>2. tx.run = run /\ tx.account = key /\ tx.kind = "deploy"
    BY DEF Own
  <2>3. pc' = "index" /\ Submit(tx)
    BY <1>9 DEF DeploySafe
  <2> HIDE DEF tx
  <2>4. QED
    BY <1>1, <1>2, <1>5, <2>1, <2>2, <2>3 DEF Unchanged, Waits
<1>10. CASE ScopeAggregator
  <2> DEFINE tx == Own("grant", safe, NoPort)
  <2>1. tx \in Tx /\ Formed(tx) /\ Wanted(tx)
    BY <1>3, <1>6, <1>10, Numbers DEF Own, Tx, Formed, Wanted, ScopeAggregator, At, HasSafe
  <2>2. tx.run = run /\ tx.account = key /\ tx.kind = "grant"
    BY DEF Own
  <2>3. pc' = "float" /\ SubmitIf(opts.grant /\ ~(opts.asks /\ safe \in chain.scoped), tx)
    BY <1>10 DEF ScopeAggregator
  <2> HIDE DEF tx
  <2>4. QED
    BY <1>1, <1>2, <1>5, <2>1, <2>2, <2>3 DEF SubmitIf, Unchanged, Waits
<1>11. CASE FloatTopUp
  <2> DEFINE tx == Pay("float", safe, FloatTarget(id) - chain.held[safe])
             needed == ~IsExtra(id) /\ opts.pix.on /\ chain.held[safe] < FloatTarget(id)
  <2>1. needed => tx \in Tx /\ Formed(tx) /\ Wanted(tx)
    <3>1. pc \in HasSafe /\ FloatTarget(id) \in Nat
      BY <1>11, Numbers DEF FloatTopUp, At, HasSafe, FloatTarget
    <3>2. needed => FloatTarget(id) - chain.held[safe] \in Nat
      BY <1>4, <3>1
    <3>3. QED
      BY <1>3, <1>6, <3>1, <3>2 DEF Pay, Tx, Formed, Wanted
  <2>2. tx.run = run /\ tx.account = key /\ tx.kind = "float"
    BY DEF Pay
  <2>3. pc' = (IF IsExtra(id) THEN "store" ELSE "bind") /\ SubmitIf(needed, tx) /\ (needed => ~IsExtra(id))
    BY <1>11 DEF FloatTopUp
  <2> HIDE DEF tx, needed
  <2>4. QED
    BY <1>1, <1>2, <1>5, <2>1, <2>2, <2>3 DEF SubmitIf, Unchanged, Waits
<1>12. CASE RegisterSafe
  <2> DEFINE tx == Own("bind", safe, NoPort)
  <2>1. tx \in Tx /\ Formed(tx) /\ Wanted(tx)
    BY <1>3, <1>6, <1>12, Numbers DEF Own, Tx, Formed, Wanted, RegisterSafe, At, HasSafe
  <2>2. tx.run = run /\ tx.account = key /\ tx.kind = "bind"
    BY DEF Own
  <2>3. pc' = "announce" /\ SubmitIf(chain.bound[key] = NoSafe, tx)
    BY <1>12 DEF RegisterSafe
  <2> HIDE DEF tx
  <2>4. QED
    BY <1>1, <1>2, <1>5, <2>1, <2>2, <2>3 DEF SubmitIf, Unchanged, Waits
<1>13. CASE Announce
  <2> DEFINE tx == Own("announce", NoSafe, AnnouncePort(id))
  <2>1. AnnouncePort(id) \in 0 .. PortMax + 1
    <3>1. opts \in Settings /\ id \in Nat
      BY Numbers DEF Typed, TypeOK, Ids
    <3>2. AnnouncePort(id) \in Nat /\ AnnouncePort(id) <= PortMax
      BY <1>13, <3>1, Numbers DEF Announce, AnnouncePort, AnnouncedBase
    <3>3. QED
      BY <3>2, Numbers
  <2>2. tx \in Tx /\ Formed(tx) /\ Wanted(tx)
    BY <1>3, <1>6, <2>1, Numbers DEF Own, Tx, Formed, Wanted
  <2>3. tx.run = run /\ tx.account = key /\ tx.kind = "announce"
    BY DEF Own
  <2>4. pc' = "config" /\ SubmitIf(chain.port[key] # AnnouncePort(id), tx)
    BY <1>13 DEF Announce
  <2> HIDE DEF tx
  <2>5. QED
    BY <1>1, <1>2, <1>5, <2>2, <2>3, <2>4 DEF SubmitIf, Unchanged, Waits
<1>14. QED
  BY <1>7, <1>8, <1>9, <1>10, <1>11, <1>12, <1>13 DEF Sending

\* One function of the chain, and no more, changes at one argument, or a set grows.
LEMMA LandIs ==
    ASSUME Typed, Traced, NEW n \in DOMAIN pool, Land(n), NEW tx, tx = pool[n]
    PROVE  /\ tx \in Tx /\ tx \in Pending /\ Formed(tx) /\ ~Reverts(tx)
           /\ pool' \in Seq(Tx) /\ Distinct(pool') /\ Pending' = Pending \ {tx}
           /\ awaited' = IF awaited = tx THEN NoTx ELSE awaited
           /\ UNCHANGED <<run, opts, pc, id, key, safe, disk, books, meshVars>>
           /\ chain' \in ChainType
           /\ chain'.native = IF tx.kind = "native" THEN [chain.native EXCEPT ![tx.account] = @ + tx.amount]
                                                    ELSE chain.native
           /\ chain'.token = IF tx.kind = "token" THEN [chain.token EXCEPT ![tx.account] = @ + tx.amount]
                             ELSE IF tx.kind = "deploy" THEN [chain.token EXCEPT ![tx.account] = @ - Stake]
                             ELSE chain.token
           /\ chain'.held = IF tx.kind \in {"float", "deploy"} THEN [chain.held EXCEPT ![tx.safe] = @ + tx.amount]
                                                               ELSE chain.held
           /\ chain'.safes = IF tx.kind = "deploy" THEN chain.safes \cup {<<tx.account, tx.run>>} ELSE chain.safes
           /\ chain'.indexed = chain.indexed
           /\ chain'.scoped = IF tx.kind = "grant" THEN chain.scoped \cup {tx.safe} ELSE chain.scoped
           /\ chain'.bound = IF tx.kind = "bind" THEN [chain.bound EXCEPT ![tx.account] = tx.safe] ELSE chain.bound
           /\ chain'.port = IF tx.kind = "announce" THEN [chain.port EXCEPT ![tx.account] = tx.port] ELSE chain.port
<1>1. tx \in Tx /\ tx \in Pending /\ Formed(tx) /\ ~Reverts(tx)
  BY DEF Typed, Pending, TxsOf, Traced, Land
<1>2. pool' \in Seq(Tx) /\ Distinct(pool') /\ Pending' = Pending \ {tx}
  <2>1. pool' = RemoveAt(pool, n)
    BY DEF Land
  <2>2. QED
    BY <2>1, RemovedTx DEF Typed, Pending
<1>3. /\ awaited' = IF awaited = tx THEN NoTx ELSE awaited
      /\ UNCHANGED <<run, opts, pc, id, key, safe, disk, books, meshVars>>
      /\ chain' = Mine(tx)
  BY DEF Land
<1>4. tx.account \in Key /\ tx.amount \in Nat /\ tx.run \in 1 .. Runs /\ tx.port \in 0 .. PortMax + 1
      /\ tx.kind \in {"native", "token", "float", "deploy", "grant", "bind", "announce"}
  BY <1>1 DEF Tx
<1>5. tx.kind \in {"deploy", "grant", "float", "bind"} => tx.safe \in Safe
  <2>1. tx.kind = "deploy" => tx.safe = <<tx.account, tx.run>>
    BY <1>1 DEF Formed
  <2>2. chain.safes \subseteq Safe
    BY DEF Typed, ChainType
  <2>3. QED
    BY <1>1, <1>4, <2>1, <2>2 DEF Formed, Safe
<1>6. tx.kind = "deploy" => tx.amount = Stake /\ tx.safe = <<tx.account, tx.run>> /\ chain.token[tx.account] >= Stake
  <2>1. tx.kind = "deploy" => tx.amount = Stake /\ tx.safe = <<tx.account, tx.run>>
    BY <1>1 DEF Formed
  <2>2. chain.token[tx.account] \in Nat
    BY <1>4 DEF Typed, ChainType
  <2>3. QED
    BY <1>1, <1>4, <2>1, <2>2, Numbers DEF Reverts
<1>7. chain \in ChainType
  BY DEF Typed
<1> HIDE DEF Typed, Traced, Land
<1>8. QED
  <2>1. CASE tx.kind = "native"
    <3>1. chain' = [chain EXCEPT !.native[tx.account] = @ + tx.amount]
      BY <1>3, <2>1 DEF Mine
    <3>2. [chain.native EXCEPT ![tx.account] = @ + tx.amount] \in [Key -> Nat]
      BY <1>4, <1>5, <1>7, <2>1 DEF ChainType
    <3>3. chain' \in ChainType
      BY <1>7, <3>1, <3>2 DEF ChainType
    <3>4. QED
      BY <1>1, <1>2, <1>3, <1>7, <2>1, <3>1, <3>3 DEF ChainType
  <2>2. CASE tx.kind = "token"
    <3>1. chain' = [chain EXCEPT !.token[tx.account] = @ + tx.amount]
      BY <1>3, <2>2 DEF Mine
    <3>2. [chain.token EXCEPT ![tx.account] = @ + tx.amount] \in [Key -> Nat]
      BY <1>4, <1>5, <1>7, <2>2 DEF ChainType
    <3>3. chain' \in ChainType
      BY <1>7, <3>1, <3>2 DEF ChainType
    <3>4. QED
      BY <1>1, <1>2, <1>3, <1>7, <2>2, <3>1, <3>3 DEF ChainType
  <2>3. CASE tx.kind = "float"
    <3>1. chain' = [chain EXCEPT !.held[tx.safe] = @ + tx.amount]
      BY <1>3, <2>3 DEF Mine
    <3>2. [chain.held EXCEPT ![tx.safe] = @ + tx.amount] \in [Safe -> Nat]
      BY <1>4, <1>5, <1>7, <2>3 DEF ChainType
    <3>3. chain' \in ChainType
      BY <1>7, <3>1, <3>2 DEF ChainType
    <3>4. QED
      BY <1>1, <1>2, <1>3, <1>7, <2>3, <3>1, <3>3 DEF ChainType
  <2>4. CASE tx.kind = "deploy"
    <3>1. chain' = [chain EXCEPT !.token[tx.account] = @ - Stake, !.held[tx.safe] = @ + Stake, !.safes = @ \cup {tx.safe}]
      BY <1>3, <1>6, <2>4 DEF Mine
    <3>2. chain.token[tx.account] \in Nat /\ chain.token[tx.account] - Stake \in Nat /\ Stake \in Nat
      BY <1>4, <1>6, <1>7, <2>4, Numbers DEF ChainType
    <3>3. /\ [chain.token EXCEPT ![tx.account] = @ - Stake] \in [Key -> Nat]
          /\ [chain.held EXCEPT ![tx.safe] = @ + Stake] \in [Safe -> Nat]
      BY <1>4, <1>5, <1>7, <2>4, <3>2 DEF ChainType
    <3>4. chain' \in ChainType
      BY <1>5, <1>7, <2>4, <3>1, <3>3 DEF ChainType
    <3>5. QED
      BY <1>1, <1>2, <1>3, <1>6, <1>7, <2>4, <3>1, <3>4 DEF ChainType
  <2>5. CASE tx.kind = "grant"
    BY <1>1, <1>2, <1>3, <1>4, <1>5, <1>7, <2>5 DEF Mine, ChainType
  <2>6. CASE tx.kind = "bind"
    BY <1>1, <1>2, <1>3, <1>4, <1>5, <1>7, <2>6 DEF Mine, ChainType
  <2>7. CASE tx.kind = "announce"
    BY <1>1, <1>2, <1>3, <1>4, <1>7, <2>7 DEF Mine, ChainType
  <2>8. QED
    BY <1>4, <2>1, <2>2, <2>3, <2>4, <2>5, <2>6, <2>7

Elsewhere ==
  \/ \E n \in DOMAIN pool : Land(n) \/ Forget(n)
  \/ \E s \in chain.safes : Index(s)
  \/ \E i \in Ids : NodeAnnounces(i) \/ Spend(i) \/ Sweep(i)

Quiet == NodeKeys \/ ExtraKeys \/ FindSafe \/ AwaitIndexed \/ NodeConfig \/ StoreExtra \/ StartNodes

LEMMA NextIs ==
    Next => Sending \/ Quiet \/ Elsewhere \/ End \/ MeshStep \/ \E o \in Settings : Begin(o)
BY DEF Next, Provide, Sending, Quiet, Elsewhere

LEMMA IdsAre ==
    ASSUME Typed, InHand
    PROVE  /\ opts \in Settings /\ opts.size \in 1 .. MaxNodes /\ opts.extras \in 0 .. MaxExtras
           /\ Ids \subseteq Nat /\ NodeIds \subseteq Ids /\ NodeIds = 0 .. opts.size - 1
           /\ LastId \in Ids /\ LastId >= opts.size - 1
           /\ \A i \in NodeIds : ~IsExtra(i)
           /\ \A i \in Ids : IsExtra(i) <=> i >= MaxNodes
           /\ id \in Nat /\ id \in Ids
           /\ pc \in Steps => id <= LastId
<1>1. opts \in Settings /\ id \in Ids /\ (pc \in Steps => id \in NodeIds \cup (MaxNodes .. LastId))
  BY DEF Typed, TypeOK, InHand
<1>2. opts.size \in 1 .. MaxNodes /\ opts.extras \in 0 .. MaxExtras /\ MaxExtras \in Nat /\ MaxNodes \in Nat \ {0}
  BY <1>1, Numbers
<1>3. LastId \in Ids /\ LastId >= opts.size - 1 /\ LastId \in Nat
  BY <1>2 DEF LastId, Ids
<1>4. QED
  BY <1>1, <1>2, <1>3 DEF Ids, NodeIds, IsExtra

\* The identity after one that is not the last.
LEMMA AdvanceIs ==
    ASSUME Typed, InHand, pc \in {"config", "store"}, Advance
    PROVE  \/ pc' = "start" /\ id' = id /\ id = LastId
           \/ /\ pc' = "keys" /\ id' \in NodeIds \cup (MaxNodes .. LastId) /\ id' > id /\ id' \in Ids
              /\ \A i \in NodeIds : i < id' => i <= id
<1>1. CASE id = LastId
  BY <1>1 DEF Advance
<1>2. CASE id # LastId
  <2>1. pc' = "keys" /\ id' = After(id)
    BY <1>2 DEF Advance
  <2>2. id \in NodeIds \cup (MaxNodes .. LastId)
    BY DEF InHand, Steps
  <2>3. CASE id = opts.size - 1 /\ opts.extras > 0
    BY <1>2, <2>1, <2>3, IdsAre, Numbers DEF After, LastId, NodeIds, Ids
  <2>4. CASE ~(id = opts.size - 1 /\ opts.extras > 0)
    <3>1. id' = id + 1
      BY <2>1, <2>4 DEF After
    <3>2. id < LastId /\ (id \in NodeIds => id + 1 \in NodeIds)
      BY <1>2, <2>2, <2>4, IdsAre DEF LastId, Steps
    <3>3. id' \in NodeIds \cup (MaxNodes .. LastId)
      BY <2>2, <3>1, <3>2, IdsAre, Numbers
    <3>4. id' \in Ids
      BY <3>3, IdsAre, Numbers DEF Ids
    <3>5. QED
      BY <2>1, <3>1, <3>3, <3>4, IdsAre
  <2>5. QED
    BY <2>3, <2>4
<1>3. QED
  BY <1>1, <1>2

LEMMA QuietIs ==
    ASSUME Typed, InHand, Quiet
    PROVE  /\ UNCHANGED <<run, opts, chain, pool, awaited, books>>
           /\ Calm /\ pc \in Steps
BY DEF Quiet, NodeKeys, ExtraKeys, FindSafe, AwaitIndexed, NodeConfig, StoreExtra, StartNodes, At, Steps

LEMMA ElsewhereIs ==
    ASSUME Typed, InHand, Traced, Started, Elsewhere
    PROVE  /\ UNCHANGED <<run, opts, pc, id, key, safe, disk, books, meshVars>>
           /\ chain' \in ChainType /\ chain'.indexed \subseteq chain'.safes
           /\ chain.indexed \subseteq chain'.indexed /\ chain.safes \subseteq chain'.safes
           /\ pool' \in Seq(Tx) /\ Distinct(pool') /\ Pending' \subseteq Pending
           /\ awaited' \in {awaited, NoTx}
<1>1. chain \in ChainType /\ pool \in Seq(Tx) /\ Distinct(pool) /\ chain.indexed \subseteq chain.safes
  BY DEF Typed, TypeOK
<1>2. ASSUME NEW n \in DOMAIN pool, Land(n)
      PROVE  /\ chain'.indexed \subseteq chain'.safes /\ chain.indexed \subseteq chain'.indexed
             /\ chain.safes \subseteq chain'.safes /\ Pending' \subseteq Pending
  BY <1>1, <1>2, LandIs
<1>3. ASSUME NEW n \in DOMAIN pool, Forget(n)
      PROVE  pool' \in Seq(Tx) /\ Distinct(pool') /\ Pending' \subseteq Pending
  <2>1. pool' = RemoveAt(pool, n)
    BY <1>3 DEF Forget
  <2>2. QED
    BY <1>1, <2>1, RemovedTx DEF Pending
<1>4. ASSUME NEW s \in chain.safes, Index(s)
      PROVE  /\ chain' \in ChainType /\ chain'.indexed \subseteq chain'.safes
             /\ chain.indexed \subseteq chain'.indexed /\ chain.safes = chain'.safes
  BY <1>1, <1>4 DEF Index, ChainType
<1>5. ASSUME NEW i \in Ids, NodeAnnounces(i)
      PROVE  chain' \in ChainType /\ chain.safes = chain'.safes /\ chain'.indexed = chain.indexed
  <2>1. i \in NodeIds /\ pc = "up" /\ chain' = [chain EXCEPT !.port[keystore[i]] = opts.base + i] /\ config[i].announce
    BY <1>5 DEF NodeAnnounces, Started
  <2>2. Provisioned(i)
    BY <2>1 DEF Started, Done
  <2>3. ~Relayed /\ AnnouncePort(i) <= PortMax
    BY <2>1, <2>2 DEF Provisioned
  <2>4. opts.base + i \in 0 .. PortMax + 1
    <3>1. opts.base + i <= PortMax
      BY <2>3 DEF AnnouncePort, AnnouncedBase
    <3>2. opts.base \in Nat /\ i \in Nat /\ PortMax \in Nat
      BY IdsAre, Numbers
    <3>3. QED
      BY <3>1, <3>2
  <2>5. [chain.port EXCEPT ![keystore[i]] = opts.base + i] \in [Key -> 0 .. PortMax + 1]
    BY <1>1, <2>4 DEF ChainType
  <2>6. QED
    BY <1>1, <2>1, <2>5 DEF ChainType
<1>6. ASSUME NEW i \in Ids, Spend(i)
      PROVE  chain' \in ChainType /\ chain.safes = chain'.safes /\ chain'.indexed = chain.indexed
  <2>1. chain' = [chain EXCEPT !.native[keystore[i]] = 0, !.held[config[i].safe] = 0]
    BY <1>6 DEF Spend
  <2>2. [chain.native EXCEPT ![keystore[i]] = 0] \in [Key -> Nat] /\ [chain.held EXCEPT ![config[i].safe] = 0] \in [Safe -> Nat]
    BY <1>1 DEF ChainType
  <2>3. QED
    BY <1>1, <2>1, <2>2 DEF ChainType
<1>7. ASSUME NEW i \in Ids, Sweep(i)
      PROVE  chain' \in ChainType /\ chain.safes = chain'.safes /\ chain'.indexed = chain.indexed
  <2> DEFINE left == [s \in Safe |-> IF \E j \in Kept : j <= i /\ config[j].safe = s THEN 0 ELSE chain.held[s]]
  <2>1. chain' = [chain EXCEPT !.held = left]
    BY <1>7 DEF Sweep
  <2>2. left \in [Safe -> Nat]
    BY <1>1 DEF ChainType
  <2> HIDE DEF left
  <2>3. QED
    BY <1>1, <2>1, <2>2 DEF ChainType
<1>8. QED
  <2>1. CASE \E n \in DOMAIN pool : Land(n)
    BY <1>2, <2>1, LandIs
  <2>2. CASE \E n \in DOMAIN pool : Forget(n)
    BY <1>1, <1>3, <2>2 DEF Forget
  <2>3. CASE \E s \in chain.safes : Index(s)
    BY <1>1, <1>4, <2>3 DEF Index, Pending
  <2>4. CASE \E i \in Ids : NodeAnnounces(i)
    BY <1>1, <1>5, <2>4 DEF NodeAnnounces, Pending
  <2>5. CASE \E i \in Ids : Spend(i)
    BY <1>1, <1>6, <2>5 DEF Spend, Pending
  <2>6. CASE \E i \in Ids : Sweep(i)
    BY <1>1, <1>7, <2>6 DEF Sweep, Pending
  <2>7. QED
    BY <2>1, <2>2, <2>3, <2>4, <2>5, <2>6 DEF Elsewhere

LEMMA BeginIs ==
    ASSUME Typed, InHand, Traced, NEW o \in Settings, Begin(o)
    PROVE  /\ run' = run + 1 /\ run' \in 1 .. Runs /\ run \in Nat /\ opts' = o /\ pc = "idle" /\ pc' = "keys" /\ id' = 0
           /\ key' = NoKey /\ safe' = NoSafe
           /\ UNCHANGED <<keystore, config, displaced, awaited>> /\ awaited = NoTx
           /\ Connect(IF o.external THEN External ELSE NewChain)
           /\ aside' = IF o.external THEN NewChain ELSE External
<1>1. pc = "idle" /\ run < Runs /\ run \in 0 .. Runs /\ Runs \in Nat
  BY Numbers DEF Begin, Typed, TypeOK
<1>2. awaited = NoTx
  BY <1>1 DEF Traced, Waits
<1>3. run' = run + 1 /\ run' \in 1 .. Runs /\ run \in Nat
  BY <1>1 DEF Begin
<1>4. QED
  BY <1>1, <1>2, <1>3 DEF Begin, disk

LEMMA FreshIs == Fresh \in ChainType /\ Fresh.indexed \subseteq Fresh.safes
BY Numbers DEF Fresh, ChainType, NoPort

LEMMA RunsOf ==
    ASSUME NEW txs \in Seq(Tx), NEW tx \in TxsOf(txs)
    PROVE  tx.run \in Nat
<1>1. tx \in Tx
  BY DEF TxsOf
<1>2. QED
  BY <1>1, Numbers DEF Tx

\* A new chain, and the one a run has left, are at rest.
LEMMA NewRests ==
    ASSUME NEW r \in Nat
    PROVE  Resting(NewChain, r)
<1> DEFINE c == NewChain
<1>1. /\ c.chain = Fresh /\ c.pool = << >> /\ c.channels = {} /\ c.opening = {}
      /\ c.paid = [k \in Key |-> 0] /\ c.lost = [k \in Key |-> 0]
  BY DEF NewChain
<1> HIDE DEF c
<1>2. TxsOf(c.pool) = {}
  BY <1>1 DEF TxsOf
<1>3. \A k : RestOwned(c, k) = {} /\ RestDeploys(c, k) = {} /\ RestDeployed(c, k) = {}
  BY <1>1, <1>2 DEF RestOwned, RestDeploys, RestDeployed, Fresh
<1>4. RestTyped(c)
  <2>1. << >> \in Seq(Tx) /\ Distinct(<< >>)
    BY DEF Distinct
  <2>2. QED
    BY <1>1, <2>1, FreshIs DEF RestTyped
<1>5. RestTraced(c, r)
  BY <1>2 DEF RestTraced
<1>6. RestOneSafe(c)
  <2>1. \A k \in Key : c.chain.bound[k] = NoSafe
    BY <1>1 DEF Fresh
  <2>2. QED
    BY <1>3, <2>1 DEF RestOneSafe
<1>7. RestCovered(c)
  <2> SUFFICES ASSUME NEW k \in Key
               PROVE  /\ c.paid[k] + Stake * Cardinality(RestDeploys(c, k))
                           <= Stake * c.lost[k] + (c.chain.token[k] + (IF RestOwned(c, k) # {} THEN Stake ELSE 0))
                      /\ c.paid[k] <= Stake * (1 + c.lost[k])
    BY DEF RestCovered
  <2>1. c.paid[k] = 0 /\ c.lost[k] = 0 /\ c.chain.token[k] = 0 /\ Stake \in Nat
    BY <1>1, Numbers DEF Fresh
  <2>2. Cardinality(RestDeploys(c, k)) = 0
    BY <1>3, FS_EmptySet
  <2>3. Stake * 0 = 0 /\ Stake * (1 + 0) = Stake
    BY <2>1
  <2>4. QED
    BY <1>3, <2>1, <2>2, <2>3
<1>8. QED
  BY <1>4, <1>5, <1>6, <1>7 DEF Resting, c

LEMMA ConnectedRests ==
    ASSUME IInv, pc = "idle"
    PROVE  Resting(Connected, run)
<1> DEFINE c == Connected
<1>1. /\ c.chain = chain /\ c.pool = pool /\ c.channels = channels /\ c.opening = opening
      /\ c.paid = paid /\ c.lost = lost
  BY DEF Connected
<1> HIDE DEF c
<1>2. Typed /\ InHand /\ Traced /\ OneSafe /\ Covered /\ awaited = NoTx
  BY DEF IInv, Traced, Waits
<1>3. TxsOf(c.pool) = Pending /\ \A k : RestOwned(c, k) = Owned(k)
  BY <1>1 DEF Pending, RestOwned, Owned
<1>4. \A k : RestDeployed(c, k) = Deployed(k)
  BY <1>1, <1>3 DEF RestDeployed, RestDeploys, Deployed
<1>5. \A tx \in Pending : tx # NoTx /\ tx.run \in Nat
  <2>1. \A tx \in Pending : tx \in Tx
    BY <1>2 DEF Typed, Pending, TxsOf
  <2>2. QED
    BY <2>1, Sentinels, Numbers DEF Tx
<1>6. RestTyped(c)
  BY <1>1, <1>2 DEF RestTyped, Typed, TypeOK, MeshTypeOK
<1>7. RestTraced(c, run)
  <2>1. run \in Nat
    BY <1>2, Numbers DEF Typed, TypeOK
  <2>2. \A tx \in Pending : Formed(tx) /\ lost[tx.account] > 0 /\ tx.run <= run
    BY <1>2, <1>5, <2>1 DEF Traced
  <2>3. QED
    BY <1>1, <1>3, <2>2 DEF RestTraced, Formed
<1>8. RestOneSafe(c)
  <2>1. \A k \in Key : lost[k] = 0 => (\A s, t \in Deployed(k) : s = t) /\ (Deployed(k) # {} => Owned(k) # {})
    BY <1>2 DEF OneSafe
  <2>2. \A k \in Key : chain.bound[k] # NoSafe => chain.bound[k] \in chain.safes /\ chain.bound[k][1] = k
    BY <1>2 DEF OneSafe
  <2>3. QED
    BY <1>1, <1>3, <1>4, <2>1, <2>2 DEF RestOneSafe
<1>9. RestCovered(c)
  <2> SUFFICES ASSUME NEW k \in Key
               PROVE  /\ c.paid[k] + Stake * Cardinality(RestDeploys(c, k))
                           <= Stake * c.lost[k] + (c.chain.token[k] + (IF RestOwned(c, k) # {} THEN Stake ELSE 0))
                      /\ c.paid[k] <= Stake * (1 + c.lost[k])
    BY DEF RestCovered
  <2>1. RestDeploys(c, k) = Stale(k) /\ Coming(k) = 0 /\ (Secured(k) <=> RestOwned(c, k) # {})
    BY <1>2, <1>3, <1>5 DEF RestDeploys, Stale, Coming, Secured
  <2>2. Balanced(k) /\ paid[k] <= Stake * (1 + lost[k])
    BY <1>2 DEF Covered, PaidOnce
  <2>3. paid[k] + Stake * Cardinality(Stale(k)) <= Stake * lost[k] + (chain.token[k] + (IF Secured(k) THEN Stake ELSE 0))
    <3>1. chain.token[k] + Coming(k) = chain.token[k]
      BY <1>2, <2>1 DEF Typed, TypeOK
    <3>2. QED
      BY <2>2, <3>1 DEF Balanced, Assets
  <2>4. QED
    BY <1>1, <2>1, <2>2, <2>3
<1>10. QED
  BY <1>6, <1>7, <1>8, <1>9 DEF Resting, c

\* A run connects to a chain at rest, and leaves one at rest.
LEMMA BeginRests ==
    ASSUME IInv, NEW o \in Settings, Begin(o)
    PROVE  /\ \E c : Resting(c, run) /\ Connect(c)
           /\ Resting(aside', run)
<1>1. Typed /\ InHand /\ Traced /\ Rested
  BY DEF IInv
<1>2. run \in Nat /\ pc = "idle" /\ Connect(IF o.external THEN External ELSE NewChain)
      /\ aside' = IF o.external THEN NewChain ELSE External
  BY <1>1, BeginIs
<1>3. Resting(External, run)
  BY <1>1, <1>2, ConnectedRests DEF Rested, External
<1>4. Resting(NewChain, run)
  BY <1>2, NewRests
<1>5. QED
  BY <1>2, <1>3, <1>4

LEMMA EndIs ==
    ASSUME Typed, InHand, Traced, End
    PROVE  /\ UNCHANGED <<run, opts, id, key, safe, disk, chain, pool, paid>>
           /\ pc # "idle" /\ pc' = "idle" /\ awaited' = NoTx
           /\ lost' \in [Key -> Nat] /\ aside' = aside
           /\ \A k \in Key : lost'[k] = IF GivesUp(k) THEN lost[k] + 1 ELSE lost[k]
BY DEF End, Typed, TypeOK

ConfigFits(c) ==
  c = NoConfig \/ (c.safe \in Safe /\ c.announce \in BOOLEAN /\ c.keys \in Key)

\* What the run keeps for itself.
LocalTypes ==
  /\ run \in 0 .. Runs /\ opts \in Settings
  /\ pc \in Steps \cup {"idle", "up"} /\ id \in Ids
  /\ key \in Key \cup {NoKey} /\ safe \in Safe \cup {NoSafe}
  /\ keystore \in [Ids -> Key \cup {NoKey}]
  /\ config = [i \in Ids |-> config[i]]
  /\ \A i \in Ids : ConfigFits(config[i])
  /\ paid \in [Key -> Nat] /\ lost \in [Key -> Nat]
  /\ displaced \subseteq Key

PoolTypes ==
  /\ chain \in ChainType /\ chain.indexed \subseteq chain.safes
  /\ pool \in Seq(Tx) /\ Distinct(pool)
  /\ awaited \in Tx \cup {NoTx}

PhaseFits == (pc = "up" /\ phase # "off") \/ (pc # "up" /\ phase \in {"off", "failed"})

LEMMA TypedParts ==
    Typed <=> LocalTypes /\ PoolTypes /\ PhaseFits /\ MeshTypeOK /\ asked = [pair |-> asked.pair, call |-> asked.call]
<1>1. (\A i \in Ids : config[i] = NoConfig
             \/ /\ config[i].safe \in Safe /\ config[i].announce \in BOOLEAN
                /\ config[i].keys \in Key)
      <=> (\A i \in Ids : ConfigFits(config[i]))
  BY DEF ConfigFits
<1>2. QED
  BY <1>1 DEF Typed, TypeOK, LocalTypes, PoolTypes, PhaseFits, ChainType

LEMMA TypedPartsNext ==
    Typed' <=> LocalTypes' /\ PoolTypes' /\ PhaseFits' /\ MeshTypeOK' /\ asked' = [pair |-> asked'.pair, call |-> asked'.call]
<1>1. (\A i \in Ids : config'[i] = NoConfig
             \/ /\ config'[i].safe \in Safe /\ config'[i].announce \in BOOLEAN
                /\ config'[i].keys \in Key)
      <=> (\A i \in Ids : ConfigFits(config'[i]))
  BY DEF ConfigFits
<1>2. QED
  BY <1>1 DEF Typed, TypeOK, LocalTypes, PoolTypes, PhaseFits, ChainType

-----------------------------------------------------------------------------
(* Every step keeps the invariant, conjunct by conjunct.                     *)

LEMMA MeshPartKept ==
    ASSUME IInv, Next
    PROVE  MeshInv' /\ PhaseFits'
<1>1. MeshInv /\ PhaseFits /\ Typed /\ InHand /\ Traced /\ Started
  BY TypedParts DEF IInv, MeshInv
<1>2. ASSUME UNCHANGED meshVars
      PROVE  MeshInv'
  BY <1>1, <1>2 DEF meshVars, MeshInv, MeshTypeOK, MeshSound, MeshOkMeansOpen
<1>3. ASSUME UNCHANGED meshVars, (pc = "up") = (pc' = "up")
      PROVE  MeshInv' /\ PhaseFits'
  BY <1>1, <1>2, <1>3 DEF meshVars, PhaseFits
<1>4. CASE Sending
  <2>1. pc # "up" /\ pc' # "up" /\ UNCHANGED meshVars
    BY <1>1, <1>4, SendingIs DEF Follows
  <2>2. QED
    BY <1>3, <2>1
<1>5. CASE Quiet
  <2>1. CASE StartNodes
    <3>1. StartMesh(NodeIds, opts.management) /\ pc' = "up"
      BY <2>1 DEF StartNodes
    <3>2. NodeIds \subseteq 0 .. MaxNodes - 1 /\ opts.management \in Managements
      BY <1>1, IdsAre, MaxNodesPositive, SettingsAreSettings
    <3>3. QED
      BY <1>1, <3>1, <3>2, MeshStarts DEF PhaseFits
  <2>2. CASE ~StartNodes
    <3>1. UNCHANGED meshVars /\ pc # "up" /\ pc' # "up"
      <4>1. CASE NodeKeys \/ ExtraKeys \/ FindSafe \/ AwaitIndexed
        BY <4>1 DEF NodeKeys, ExtraKeys, FindSafe, AwaitIndexed, At
      <4>2. CASE NodeConfig
        BY <4>2 DEF NodeConfig, At, Advance
      <4>3. CASE StoreExtra
        BY <4>3 DEF StoreExtra, At, Advance
      <4>4. QED
        BY <1>5, <2>2, <4>1, <4>2, <4>3 DEF Quiet
    <3>2. QED
      BY <1>3, <3>1
  <2>3. QED
    BY <2>1, <2>2
<1>6. CASE Elsewhere
  BY <1>1, <1>3, <1>6, ElsewhereIs
<1>7. CASE End
  <2>1. StopMesh /\ pc' = "idle"
    BY <1>7 DEF End
  <2>2. QED
    BY <1>1, <2>1, MeshStops DEF PhaseFits
<1>8. CASE MeshStep
  <2>1. MeshNext /\ pc' = IF pc = "up" /\ phase' = "failed" THEN "idle" ELSE pc
    BY <1>8 DEF MeshStep
  <2>2. MeshInv' /\ Goes
    BY <1>1, <2>1, MeshKept
  <2>3. QED
    BY <1>1, <2>1, <2>2 DEF PhaseFits, Goes
<1>9. ASSUME NEW o \in Settings, Begin(o)
      PROVE  MeshInv' /\ PhaseFits'
  <2>1. pc = "idle" /\ pc' = "keys"
    BY <1>1, <1>9, BeginIs
  <2>2. PICK c : Resting(c, run) /\ Connect(c)
    BY <1>9, BeginRests
  <2>3. /\ phase' = "off" /\ channels' = c.channels /\ opening' = c.opening
        /\ UNCHANGED <<members, managed, todo, missing, asked, late>>
    BY <2>2 DEF Connect
  <2>4. channels' \subseteq Pairs(0 .. MaxNodes - 1) /\ opening' \subseteq Pairs(0 .. MaxNodes - 1)
    BY <2>2, <2>3 DEF Resting, RestTyped
  <2>5. phase \in {"off", "failed"} /\ asked = NoCall
    BY <1>1, <2>1 DEF PhaseFits, MeshInv, MeshTypeOK
  <2>6. QED
    BY <1>1, <2>1, <2>3, <2>4, <2>5 DEF PhaseFits, MeshInv, MeshTypeOK, MeshSound, MeshOkMeansOpen
<1>10. QED
  BY <1>4, <1>5, <1>6, <1>7, <1>8, <1>9, NextIs

LEMMA PoolTypesKept ==
    ASSUME IInv, Next
    PROVE  PoolTypes'
<1>1. PoolTypes /\ Typed /\ InHand /\ Traced /\ Started
  BY TypedParts DEF IInv
<1>2. ASSUME UNCHANGED chain, pool' \in Seq(Tx), Distinct(pool'), awaited' \in Tx \cup {NoTx}
      PROVE  PoolTypes'
  BY <1>1, <1>2 DEF PoolTypes
<1>3. ASSUME UNCHANGED <<chain, pool, awaited>>
      PROVE  PoolTypes'
  BY <1>1, <1>3 DEF PoolTypes
<1>4. CASE Sending
  BY <1>1, <1>2, <1>3, <1>4, SendingIs DEF Sends
<1>5. CASE Quiet
  BY <1>1, <1>3, <1>5, QuietIs
<1>6. CASE Elsewhere
  BY <1>1, <1>6, ElsewhereIs DEF PoolTypes
<1>7. CASE End
  BY <1>1, <1>2, <1>7, EndIs DEF PoolTypes
<1>8. CASE MeshStep
  BY <1>3, <1>8 DEF MeshStep
<1>9. ASSUME NEW o \in Settings, Begin(o)
      PROVE  PoolTypes'
  <2>1. PICK c : Resting(c, run) /\ Connect(c)
    BY <1>9, BeginRests
  <2>2. awaited' = NoTx
    BY <1>1, <1>9, BeginIs
  <2>3. QED
    BY <2>1, <2>2 DEF Resting, RestTyped, Connect, PoolTypes
<1>10. QED
  BY <1>4, <1>5, <1>6, <1>7, <1>8, <1>9, NextIs

LEMMA LocalTypesKept ==
    ASSUME IInv, Next
    PROVE  LocalTypes'
<1>1. LocalTypes /\ PoolTypes /\ Typed /\ InHand /\ Traced /\ Started
  BY TypedParts DEF IInv
<1>2. CASE Sending
  <2>1. UNCHANGED <<run, opts, id, key, safe, keystore, config, displaced, lost>> /\ pc' \in Steps
    BY <1>1, <1>2, SendingIs DEF disk, Follows, Steps
  <2>2. paid' \in [Key -> Nat]
    <3>1. CASE TokenTopUp
      <4>1. key \in Key /\ chain.token[key] \in Nat
        BY <1>1, <3>1, InHandIs DEF TokenTopUp, At, Steps, PoolTypes, ChainType
      <4>2. TokenDeficit \in Nat
        BY <4>1, Numbers DEF TokenDeficit
      <4>3. QED
        BY <1>1, <3>1, <4>1, <4>2 DEF TokenTopUp, LocalTypes
    <3>2. CASE ~TokenTopUp
      BY <1>1, <1>2, <3>2 DEF Sending, NativeTopUp, DeploySafe, ScopeAggregator, FloatTopUp, RegisterSafe, Announce,
         books, LocalTypes
    <3>3. QED
      BY <3>1, <3>2
  <2>3. QED
    BY <1>1, <2>1, <2>2 DEF LocalTypes
<1>3. CASE Quiet
  <2>1. UNCHANGED <<run, opts, paid, lost>> /\ run \in 1 .. Runs
    BY <1>1, <1>3, QuietIs DEF books, InHand, Steps
  <2>2. CASE NodeKeys
    <3>1. key' = (IF Reuses(id) THEN keystore[id] ELSE <<id, IF opts.frozen THEN 0 ELSE run>>)
          /\ keystore' = [keystore EXCEPT ![id] = key'] /\ pc' = "native" /\ UNCHANGED <<id, safe, config>>
          /\ displaced' \subseteq displaced \cup ({keystore[id]} \ {NoKey})
      BY <2>2 DEF NodeKeys
    <3>2. key' \in Key
      BY <1>1, <2>1, <3>1, Numbers DEF Reuses, LocalTypes, Key
    <3>3. displaced' \subseteq Key
      BY <1>1, <3>1 DEF LocalTypes
    <3>4. QED
      BY <1>1, <2>1, <3>1, <3>2, <3>3 DEF LocalTypes, Steps
  <2>3. CASE ExtraKeys
    <3>1. <<id, 0>> \in Key
      BY <1>1, Numbers DEF Key, LocalTypes
    <3>2. QED
      BY <1>1, <2>1, <2>3, <3>1 DEF ExtraKeys, disk, LocalTypes, Steps
  <2>4. CASE FindSafe \/ AwaitIndexed
    <3>1. \A k : Owned(k) \subseteq Safe
      BY <1>1 DEF Owned, PoolTypes, ChainType
    <3>2. safe' \in Safe \cup {NoSafe} /\ pc' \in Steps /\ UNCHANGED <<id, key, keystore, config, displaced>>
      BY <1>1, <2>4, <3>1 DEF FindSafe, AwaitIndexed, disk, LocalTypes, Steps
    <3>3. QED
      BY <1>1, <2>1, <3>2 DEF LocalTypes
  <2>5. CASE NodeConfig
    <3>1. /\ pc = "config" /\ Advance /\ UNCHANGED <<key, safe, keystore, displaced>>
          /\ config' = [config EXCEPT ![id] = [safe |-> safe, announce |-> ~Relayed, pix |-> PixOf(id), keys |-> key]]
      BY <2>5 DEF NodeConfig, At
    <3>2. pc' \in Steps /\ id' \in Ids
      BY <1>1, <3>1, AdvanceIs DEF Steps, LocalTypes
    <3>3. safe \in Safe /\ key \in Key
      BY <1>1, <3>1, InHandIs DEF Steps, HasSafe
    <3>4. config' = [i \in Ids |-> config'[i]] /\ \A i \in Ids : config'[i] = IF i = id THEN
             [safe |-> safe, announce |-> ~Relayed, pix |-> PixOf(id), keys |-> key] ELSE config[i]
      BY <1>1, <3>1 DEF LocalTypes
    <3>5. \A i \in Ids : ConfigFits(config'[i])
      <4> TAKE i \in Ids
      <4>1. CASE i # id
        <5>1. config'[i] = config[i]
          BY <3>4, <4>1
        <5>2. ConfigFits(config[i])
          BY <1>1 DEF LocalTypes
        <5>3. QED
          BY <5>1, <5>2
      <4>2. CASE i = id
        <5> DEFINE quiet == ~Relayed
        <5>1. quiet \in BOOLEAN
          OBVIOUS
        <5>2. config'[i] = [safe |-> safe, announce |-> quiet, pix |-> PixOf(id), keys |-> key]
          BY <3>4, <4>2
        <5> HIDE DEF quiet
        <5>3. QED
          BY <3>3, <5>1, <5>2 DEF ConfigFits
      <4>3. QED
        BY <4>1, <4>2
    <3>6. QED
      BY <1>1, <2>1, <3>1, <3>2, <3>4, <3>5 DEF LocalTypes
  <2>6. CASE StoreExtra
    <3>1. pc = "store" /\ Advance /\ UNCHANGED <<key, safe, config, displaced>> /\ keystore' = [keystore EXCEPT ![id] = key]
      BY <2>6 DEF StoreExtra, At
    <3>2. pc' \in Steps /\ id' \in Ids
      BY <1>1, <3>1, AdvanceIs DEF Steps, LocalTypes
    <3>3. QED
      BY <1>1, <2>1, <3>1, <3>2 DEF LocalTypes
  <2>7. CASE StartNodes
    BY <1>1, <2>1, <2>7 DEF StartNodes, disk, LocalTypes
  <2>8. QED
    BY <1>3, <2>2, <2>3, <2>4, <2>5, <2>6, <2>7 DEF Quiet
<1>4. CASE Elsewhere
  BY <1>1, <1>4, ElsewhereIs DEF LocalTypes, disk, books
<1>5. CASE End
  BY <1>1, <1>5, EndIs DEF LocalTypes, disk
<1>6. CASE MeshStep
  BY <1>1, <1>6 DEF MeshStep, LocalTypes, disk, books
<1>7. ASSUME NEW o \in Settings, Begin(o)
      PROVE  LocalTypes'
  <2>1. /\ run' \in 0 .. Runs /\ opts' \in Settings /\ pc' \in Steps /\ id' \in Ids
        /\ UNCHANGED <<keystore, config, displaced>>
        /\ key' = NoKey /\ safe' = NoSafe
    BY <1>1, <1>7, BeginIs, Numbers DEF Steps, Ids
  <2>2. paid' \in [Key -> Nat] /\ lost' \in [Key -> Nat]
    BY <1>7, BeginRests DEF Resting, RestTyped, Connect
  <2>3. QED
    BY <1>1, <2>1, <2>2 DEF LocalTypes
<1>8. QED
  BY <1>2, <1>3, <1>4, <1>5, <1>6, <1>7, NextIs

LEMMA TypedKept ==
    ASSUME IInv, Next
    PROVE  Typed' /\ MeshSound'
BY LocalTypesKept, PoolTypesKept, MeshPartKept, TypedPartsNext DEF MeshInv

LEMMA InHandKept ==
    ASSUME IInv, Next
    PROVE  InHand'
<1>1. Typed /\ InHand /\ Traced /\ Started /\ LocalTypes /\ PoolTypes
  BY TypedParts DEF IInv
<1>2. UNCHANGED opts => NodeIds' = NodeIds /\ LastId' = LastId
  BY DEF NodeIds, LastId
<1>3. chain.indexed \subseteq chain'.indexed => \A k : Owned(k) \subseteq Owned(k)'
  BY DEF Owned
<1> DEFINE Saved == \A i \in Ids : keystore[i] # NoKey =>
                       keystore[i][1] = i /\ (IsExtra(i) => keystore[i][2] = 0)
<1>4. Saved
  BY <1>1 DEF InHand
<1>5. CASE Sending
  <2>1. UNCHANGED <<run, opts, id, key, safe, keystore, chain>> /\ <<pc, pc'>> \in Follows
        /\ (pc' = "bind" => ~IsExtra(id)) /\ (pc' = "store" => IsExtra(id))
    BY <1>1, <1>5, SendingIs DEF disk
  <2>2. QED
    BY <1>1, <1>2, <1>3, <2>1 DEF InHand, Follows, Steps, HasSafe
<1>6. CASE Quiet
  <2>1. UNCHANGED <<run, opts, chain>> /\ run \in 1 .. Runs /\ NodeIds' = NodeIds /\ LastId' = LastId
        /\ \A k : Owned(k)' = Owned(k)
    BY <1>1, <1>2, <1>6, QuietIs DEF InHand, Steps, Owned
  <2>2. CASE NodeKeys
    <3>1. key' = (IF Reuses(id) THEN keystore[id] ELSE <<id, IF opts.frozen THEN 0 ELSE run>>)
          /\ keystore' = [keystore EXCEPT ![id] = key'] /\ pc = "keys" /\ pc' = "native" /\ ~IsExtra(id) /\ id' = id
      BY <2>2 DEF NodeKeys, At
    <3>2. key' \in Key /\ key'[1] = id
      BY <1>1, <1>4, <2>1, <3>1, Numbers DEF Reuses, LocalTypes, Key
    <3>3. keystore'[id] = key' /\ \A i \in Ids : i # id => keystore'[i] = keystore[i]
      BY <1>1, <3>1 DEF LocalTypes
    <3>4. Saved'
      BY <1>4, <3>1, <3>2, <3>3 DEF IsExtra
    <3>5. QED
      BY <1>1, <2>1, <3>1, <3>2, <3>3, <3>4 DEF InHand, Steps, HasSafe, IsExtra
  <2>3. CASE ExtraKeys
    <3>1. key' = <<id, 0>> /\ pc = "keys" /\ pc' = "native" /\ IsExtra(id) /\ UNCHANGED <<id, keystore>>
      BY <2>3 DEF ExtraKeys, At, disk
    <3>2. key' \in Key /\ key'[1] = id /\ key'[2] = 0
      BY <1>1, <3>1, Numbers DEF LocalTypes, Key
    <3>3. QED
      BY <1>1, <1>4, <2>1, <3>1, <3>2 DEF InHand, Steps, HasSafe, IsExtra
  <2>4. CASE FindSafe \/ AwaitIndexed
    <3>1. /\ pc \in {"safe", "index"} /\ UNCHANGED <<id, key, keystore>>
          /\ pc' = "token" \/ (pc' = "grant" /\ safe' \in Owned(key))
      BY <2>4 DEF FindSafe, AwaitIndexed, At, disk
    <3>2. Owned(key)' = Owned(key)
      BY <2>1, <3>1 DEF Owned
    <3>3. QED
      BY <1>1, <1>4, <2>1, <3>1, <3>2 DEF InHand, Steps, HasSafe, IsExtra
  <2>5. CASE NodeConfig \/ StoreExtra
    <3>1. pc \in {"config", "store"} /\ Advance /\ key' = key
          /\ keystore' = IF pc = "store" THEN [keystore EXCEPT ![id] = key] ELSE keystore
      BY <2>5 DEF NodeConfig, StoreExtra, At
    <3>2. key \in Key /\ key[1] = id /\ (pc = "store" => IsExtra(id) /\ key[2] = 0)
      BY <1>1, <3>1 DEF InHand, Steps
    <3>3. Saved'
      BY <1>1, <1>4, <3>1, <3>2 DEF LocalTypes, IsExtra
    <3>4. id \in NodeIds \cup (MaxNodes .. LastId)
      BY <1>1, <3>1 DEF InHand, Steps
    <3>5. pc' \in {"keys", "start"} /\ id' \in NodeIds \cup (MaxNodes .. LastId)
      BY <1>1, <3>1, <3>4, AdvanceIs
    <3>6. QED
      BY <1>1, <2>1, <3>3, <3>5 DEF InHand, Steps, HasSafe
  <2>6. CASE StartNodes
    BY <1>1, <1>4, <2>1, <2>6 DEF StartNodes, disk, InHand, Steps, HasSafe, IsExtra
  <2>7. QED
    BY <1>6, <2>2, <2>3, <2>4, <2>5, <2>6 DEF Quiet
<1>7. CASE Elsewhere
  <2>1. UNCHANGED <<run, opts, pc, id, key, safe, keystore>> /\ \A k : Owned(k) \subseteq Owned(k)'
    BY <1>1, <1>3, <1>7, ElsewhereIs DEF disk
  <2>2. Owned(key) \subseteq Owned(key)'
    BY <2>1 DEF Owned
  <2>3. QED
    BY <1>1, <1>2, <2>1, <2>2 DEF InHand, IsExtra
<1>8. CASE End
  BY <1>1, <1>4, <1>8, EndIs DEF InHand, disk, Steps, HasSafe, IsExtra
<1>9. CASE MeshStep
  <2>1. UNCHANGED <<run, opts, id, key, safe, keystore, chain>> /\ (pc' = pc \/ pc' = "idle")
    BY <1>9 DEF MeshStep, disk
  <2>2. QED
    BY <1>1, <1>2, <1>3, <2>1 DEF InHand, Steps, HasSafe, IsExtra
<1>10. ASSUME NEW o \in Settings, Begin(o)
      PROVE  InHand'
  <2>1. run' \in 1 .. Runs /\ opts' = o /\ pc' = "keys" /\ id' = 0 /\ keystore' = keystore
    BY <1>1, <1>10, BeginIs
  <2>2. 0 \in NodeIds'
    BY <2>1, Numbers DEF NodeIds
  <2>3. QED
    BY <1>1, <1>4, <2>1, <2>2 DEF InHand, Steps, HasSafe, IsExtra
<1>11. QED
  BY <1>5, <1>6, <1>7, <1>8, <1>9, <1>10, NextIs

\* A transaction that is not awaited was given up on, and stays so.
LEMMA TracedKept ==
    ASSUME IInv, Next
    PROVE  Traced'
<1>1. Typed /\ InHand /\ Traced /\ Started /\ LocalTypes /\ PoolTypes
  BY TypedParts DEF IInv
<1>2. chain.safes \subseteq chain'.safes => \A tx : Formed(tx) => Formed(tx)'
  BY DEF Formed
<1>3. UNCHANGED <<opts, id, safe>> => \A tx : Wanted(tx) => Wanted(tx)'
  BY DEF Wanted, AnnouncePort, AnnouncedBase, Relayed
<1>4. \A tx \in Pending : tx \in Tx /\ tx # NoTx /\ tx.run \in 1 .. Runs /\ tx.account \in Key
  <2>1. \A tx \in Pending : tx \in Tx
    BY <1>1 DEF PoolTypes, Pending, TxsOf
  <2>2. \A tx \in Tx : tx # NoTx /\ tx.run \in 1 .. Runs /\ tx.account \in Key
    BY Sentinels DEF Tx
  <2>3. QED
    BY <2>1, <2>2
<1>5. CASE Sending
  <2>1. /\ UNCHANGED <<run, opts, id, key, safe, chain, lost>> /\ Calm /\ pc # "idle" /\ pc \in Steps
        /\ UNCHANGED <<pool, awaited>> \/ Sends
    BY <1>1, <1>5, SendingIs DEF Follows, Steps
  <2>2. \A tx : (Formed(tx) => Formed(tx)') /\ (Wanted(tx) => Wanted(tx)')
    BY <1>2, <1>3, <2>1
  <2>3. CASE UNCHANGED <<pool, awaited>>
    <3>1. awaited' = NoTx /\ Pending' = Pending
      BY <2>1, <2>3 DEF Calm, Pending
    <3>2. QED
      BY <1>1, <2>1, <2>2, <2>3, <3>1 DEF Traced
  <2>4. CASE Sends
    <3>1. Formed(awaited)' /\ Wanted(awaited)'
      BY <2>1, <2>4 DEF Sends, Formed, Wanted, AnnouncePort, AnnouncedBase, Relayed
    <3>2. /\ <<pc', awaited'.kind>> \in Waits /\ awaited'.run = run' /\ awaited'.account = key'
          /\ Pending' = Pending \cup {awaited'}
      BY <2>1, <2>4 DEF Sends
    <3>3. \A tx \in Pending : Formed(tx)' /\ lost'[tx.account] > 0 /\ tx.run < run'
      BY <1>1, <1>4, <2>1, <2>2 DEF Traced, Calm
    <3>4. QED
      BY <3>1, <3>2, <3>3 DEF Traced
  <2>5. QED
    BY <2>1, <2>3, <2>4
<1>6. CASE Quiet
  <2>1. UNCHANGED <<run, opts, chain, lost>> /\ Pending' = Pending /\ awaited = NoTx /\ awaited' = NoTx /\ pc # "idle"
    BY <1>1, <1>6, QuietIs DEF Calm, Pending, books, Steps
  <2>2. QED
    BY <1>1, <1>2, <2>1 DEF Traced
<1>7. CASE Elsewhere
  <2>1. /\ UNCHANGED <<run, opts, pc, id, key, safe, lost>> /\ Pending' \subseteq Pending
        /\ awaited' \in {awaited, NoTx} /\ chain.safes \subseteq chain'.safes
    BY <1>1, <1>7, ElsewhereIs DEF books
  <2>2. \A tx : (Formed(tx) => Formed(tx)') /\ (Wanted(tx) => Wanted(tx)')
    BY <1>2, <1>3, <2>1
  <2>3. awaited' # NoTx => awaited' = awaited
    BY <2>1
  <2>4. \A tx \in Pending' : tx # awaited' => tx # awaited
    <3>1. CASE awaited' = awaited
      BY <3>1
    <3>2. CASE awaited' # awaited
      <4>1. \E n \in DOMAIN pool : Land(n)
        BY <1>7, <3>2 DEF Elsewhere, Forget, Index, NodeAnnounces, Spend, Sweep
      <4>2. PICK n \in DOMAIN pool : Land(n)
        BY <4>1
      <4>3. Pending' = Pending \ {pool[n]} /\ awaited' = IF awaited = pool[n] THEN NoTx ELSE awaited
        BY <1>1, <4>2, LandIs
      <4>4. QED
        BY <3>2, <4>3
    <3>3. QED
      BY <3>1, <3>2
  <2>5. QED
    BY <1>1, <2>1, <2>2, <2>3, <2>4 DEF Traced
<1>8. CASE End
  <2>1. /\ UNCHANGED <<run, opts, id, key, safe, chain>> /\ Pending' = Pending
        /\ pc # "idle" /\ pc' = "idle" /\ awaited' = NoTx
        /\ \A k \in Key : lost'[k] = IF GivesUp(k) THEN lost[k] + 1 ELSE lost[k]
    BY <1>1, <1>8, EndIs DEF Pending
  <2>2. \A tx : Formed(tx) => Formed(tx)'
    BY <1>2, <2>1
  <2>3. \A k \in Key : lost[k] \in Nat
    BY <1>1 DEF LocalTypes
  <2>4. ASSUME NEW tx \in Pending
        PROVE  lost'[tx.account] > 0 /\ (tx.run < run' \/ tx.run = run')
    <3>1. CASE tx = awaited
      <4>1. awaited # NoTx /\ awaited.run = run /\ GivesUp(tx.account)
        BY <1>1, <1>4, <2>4, <3>1 DEF Traced, GivesUp
      <4>2. QED
        BY <1>4, <2>1, <2>3, <2>4, <3>1, <4>1
    <3>2. CASE tx # awaited
      <4>1. lost[tx.account] > 0 /\ tx.run < run
        BY <1>1, <2>1, <2>4, <3>2 DEF Traced
      <4>2. QED
        BY <1>4, <2>1, <2>3, <2>4, <4>1
    <3>3. QED
      BY <3>1, <3>2
  <2>5. QED
    BY <1>1, <2>1, <2>2, <2>4 DEF Traced
<1>9. CASE MeshStep
  <2>1. /\ UNCHANGED <<run, opts, id, key, safe, chain, lost, awaited>> /\ Pending' = Pending
        /\ pc' = pc \/ (pc = "up" /\ pc' = "idle")
    BY <1>9 DEF MeshStep, books, Pending
  <2>2. \A tx : (Formed(tx) => Formed(tx)') /\ (Wanted(tx) => Wanted(tx)')
    BY <1>2, <1>3, <2>1
  <2>3. pc = "up" => awaited = NoTx
    BY <1>1 DEF Traced, Waits
  <2>4. QED
    BY <1>1, <2>1, <2>2, <2>3 DEF Traced
<1>10. ASSUME NEW o \in Settings, Begin(o)
      PROVE  Traced'
  <2>1. run' = run + 1 /\ run \in Nat /\ awaited' = NoTx
    BY <1>1, <1>10, BeginIs
  <2>2. PICK c : Resting(c, run) /\ Connect(c)
    BY <1>10, BeginRests
  <2>3. chain' = c.chain /\ lost' = c.lost /\ Pending' = TxsOf(c.pool) /\ c.pool \in Seq(Tx)
    BY <2>2 DEF Connect, Pending, Resting, RestTyped
  <2>4. \A tx \in Pending' : Formed(tx)' /\ lost'[tx.account] > 0 /\ tx.run <= run
    BY <2>2, <2>3 DEF Resting, RestTraced, Formed
  <2>5. \A tx \in Pending' : tx.run \in Nat
    BY <2>3, RunsOf
  <2>6. \A tx \in Pending' : tx.run < run'
    BY <2>1, <2>4, <2>5
  <2>7. QED
    BY <2>1, <2>4, <2>6 DEF Traced
<1>11. QED
  BY <1>5, <1>6, <1>7, <1>8, <1>9, <1>10, NextIs

LEMMA FundsAre ==
    ASSUME NEW k \in Key
    PROVE  /\ HasFunds(k) <=> \/ chain.native[k] > 0 \/ chain.token[k] > 0
                              \/ \E s \in Safe : s[1] = k /\ chain.held[s] > 0
                              \/ \E tx \in Pending : tx.account = k
           /\ HasFunds(k)' <=> \/ chain'.native[k] > 0 \/ chain'.token[k] > 0
                               \/ \E s \in Safe : s[1] = k /\ chain'.held[s] > 0
                               \/ \E tx \in Pending' : tx.account = k
<1>1. (\E n \in DOMAIN pool : pool[n].account = k) <=> \E tx \in Pending : tx.account = k
  BY DEF Pending, TxsOf
<1>2. (\E n \in DOMAIN pool' : pool'[n].account = k) <=> \E tx \in Pending' : tx.account = k
  BY DEF Pending, TxsOf
<1>3. QED
  BY <1>1, <1>2 DEF HasFunds, Funds

\* Nothing but a run that sends gives funds to an account that has none.
LEMMA FundsStay ==
    ASSUME Typed, InHand, Traced, Started, Elsewhere, NEW k \in Key, HasFunds(k)'
    PROVE  HasFunds(k)
<1>1. chain \in ChainType /\ Pending' \subseteq Pending
  BY ElsewhereIs DEF Typed
<1>2. ASSUME NEW n \in DOMAIN pool, Land(n)
      PROVE  HasFunds(k)
  <2> DEFINE tx == pool[n]
  <2>1. /\ tx \in Tx /\ tx \in Pending /\ Formed(tx) /\ Pending' \subseteq Pending
        /\ chain'.native = IF tx.kind = "native" THEN [chain.native EXCEPT ![tx.account] = @ + tx.amount]
                                                    ELSE chain.native
        /\ chain'.token = IF tx.kind = "token" THEN [chain.token EXCEPT ![tx.account] = @ + tx.amount]
                             ELSE IF tx.kind = "deploy" THEN [chain.token EXCEPT ![tx.account] = @ - Stake]
                             ELSE chain.token
        /\ chain'.held = IF tx.kind \in {"float", "deploy"} THEN [chain.held EXCEPT ![tx.safe] = @ + tx.amount]
                                                               ELSE chain.held
    BY <1>2, LandIs
  <2> HIDE DEF tx
  <2>2. CASE tx.account = k
    BY <2>1, <2>2, FundsAre
  <2>3. CASE tx.account # k
    <3>1. chain'.native[k] = chain.native[k] /\ chain'.token[k] = chain.token[k]
      BY <1>1, <2>1, <2>3 DEF ChainType
    <3>2. tx.kind \in {"float", "deploy"} => tx.safe[1] = tx.account
      BY <2>1 DEF Formed
    <3>3. \A s \in Safe : s[1] = k => chain'.held[s] = chain.held[s]
      BY <1>1, <2>1, <2>3, <3>2 DEF ChainType
    <3>4. QED
      BY <2>1, <3>1, <3>3, FundsAre
  <2>4. QED
    BY <2>2, <2>3
<1>3. ASSUME NEW i \in Ids, Spend(i)
      PROVE  chain'.native[k] \in {0, chain.native[k]} /\ chain'.token[k] = chain.token[k]
             /\ \A s \in Safe : chain'.held[s] \in {0, chain.held[s]}
  BY <1>1, <1>3 DEF Spend, ChainType
<1>4. ASSUME NEW i \in Ids, Sweep(i)
      PROVE  chain'.native[k] = chain.native[k] /\ chain'.token[k] = chain.token[k]
             /\ \A s \in Safe : chain'.held[s] \in {0, chain.held[s]}
  BY <1>1, <1>4 DEF Sweep, ChainType
<1>5. ASSUME ~ \E n \in DOMAIN pool : Land(n)
      PROVE  chain'.native[k] \in {0, chain.native[k]} /\ chain'.token[k] = chain.token[k]
             /\ \A s \in Safe : chain'.held[s] \in {0, chain.held[s]}
  <2>1. CASE \E n \in DOMAIN pool : Forget(n)
    BY <2>1 DEF Forget
  <2>2. CASE \E s \in chain.safes : Index(s)
    BY <1>1, <2>2 DEF Index, ChainType
  <2>3. CASE \E i \in Ids : NodeAnnounces(i)
    BY <1>1, <2>3 DEF NodeAnnounces, ChainType
  <2>4. QED
    BY <1>3, <1>4, <1>5, <2>1, <2>2, <2>3 DEF Elsewhere
<1>6. QED
  BY <1>1, <1>2, <1>5, FundsAre

\* Whose keys a run must not lose, and whose it may.
Held(k) == Recoverable(k) \/ (opts.external /\ k \in displaced)
HeldOrReplaced(k) == Recoverable(k) \/ k \in displaced
AsideFunds(k) == Funds(aside.chain, aside.pool, k)

LEMMA KeysBeforeFundsIs ==
    /\ KeysBeforeFunds <=> \A k \in Key : (HasFunds(k) => Held(k)) /\ (AsideFunds(k) => HeldOrReplaced(k))
    /\ KeysBeforeFunds' <=> \A k \in Key : (HasFunds(k)' => Held(k)') /\ (AsideFunds(k)' => HeldOrReplaced(k)')
BY DEF KeysBeforeFunds, Held, HeldOrReplaced, AsideFunds

LEMMA FundedKept ==
    ASSUME IInv, Next
    PROVE  Funded'
<1>1. Typed /\ InHand /\ Traced /\ Started /\ LocalTypes /\ PoolTypes /\ Funded
  BY TypedParts DEF IInv
<1>2. ASSUME UNCHANGED <<opts, keystore, displaced>>, NEW k \in Key
      PROVE  (Held(k) => Held(k)') /\ (HeldOrReplaced(k) => HeldOrReplaced(k)')
  BY <1>2 DEF Recoverable, Held, HeldOrReplaced
<1>3. \A k \in Key : (HasFunds(k) => Held(k)) /\ (AsideFunds(k) => HeldOrReplaced(k))
  BY <1>1, KeysBeforeFundsIs DEF Funded
<1>4. ~opts.external /\ pc \in Steps => \A k \in Key : HasFunds(k) => k[1] < id \/ (k[1] = id /\ pc # "keys")
  BY <1>1 DEF Funded
<1>5. \A k \in Key : k[1] \in Nat /\ k[1] \in Ids
  BY Numbers DEF Key, Ids
<1>6. UNCHANGED <<chain, pool>> => \A k \in Key : HasFunds(k)' = HasFunds(k)
  BY DEF HasFunds
<1>a. UNCHANGED aside => \A k \in Key : AsideFunds(k)' = AsideFunds(k)
  BY DEF AsideFunds
<1>b. ASSUME UNCHANGED <<opts, keystore, displaced, aside>>,
             \A k \in Key : HasFunds(k)' => HasFunds(k) \/ Held(k)
      PROVE  KeysBeforeFunds'
  BY <1>2, <1>3, <1>a, <1>b, KeysBeforeFundsIs
<1>7. CASE Sending
  <2>1. UNCHANGED <<opts, id, keystore, chain, displaced>> /\ pc \in Steps \ {"keys", "start"} /\ pc' # "keys"
        /\ (Pending' = Pending \/ (Pending' = Pending \cup {awaited'} /\ awaited'.account = key))
    BY <1>1, <1>7, SendingIs DEF disk, Follows, Steps, Sends, Pending
  <2>2. key \in Key /\ key[1] = id /\ Recoverable(key)
    BY <1>1, <2>1, InHandIs
  <2>3. \A k \in Key : HasFunds(k)' => HasFunds(k) \/ k = key
    BY <2>1, FundsAre
  <2>4. aside' = aside
    BY <1>7 DEF Sending, NativeTopUp, TokenTopUp, DeploySafe, ScopeAggregator, FloatTopUp, RegisterSafe, Announce, books
  <2>5. KeysBeforeFunds'
    BY <1>b, <2>1, <2>2, <2>3, <2>4 DEF Held
  <2>6. QED
    BY <1>4, <2>1, <2>2, <2>3, <2>5 DEF Funded
<1>8. CASE Quiet
  <2>1. UNCHANGED <<opts, chain, pool, aside>> /\ pc \in Steps /\ \A k \in Key : HasFunds(k)' = HasFunds(k)
    BY <1>1, <1>6, <1>8, QuietIs DEF books
  <2>2. CASE NodeKeys
    <3>1. /\ key' = (IF Reuses(id) THEN keystore[id] ELSE <<id, IF opts.frozen THEN 0 ELSE run>>)
          /\ keystore' = [keystore EXCEPT ![id] = key'] /\ pc = "keys" /\ pc' = "native" /\ id' = id
          /\ displaced' = IF opts.external THEN displaced ELSE displaced \cup ({keystore[id]} \ {key', NoKey})
      BY <2>2 DEF NodeKeys, At
    <3>2. keystore \in [Ids -> Key \cup {NoKey}] /\ id \in Ids
      BY <1>1 DEF LocalTypes
    <3>3. ASSUME NEW k \in Key, Recoverable(k), opts.external
          PROVE  Recoverable(k)'
      <4>1. CASE Reuses(id)
        BY <3>1, <3>2, <3>3, <4>1, <1>5 DEF Recoverable
      <4>2. CASE keystore[id] = NoKey
        <5>1. k # NoKey
          BY Sentinels
        <5>2. k[2] = 0 \/ k[1] # id
          BY <3>3, <4>2, <5>1 DEF Recoverable
        <5>3. QED
          BY <1>5, <3>1, <3>2, <3>3, <5>2 DEF Recoverable
      <4>3. QED
        BY <3>3, <4>1, <4>2 DEF Reuses
    <3>4. ASSUME NEW k \in Key, Recoverable(k), k[1] # id
          PROVE  Recoverable(k)'
      BY <1>5, <3>1, <3>2, <3>4 DEF Recoverable
    <3>5. ASSUME NEW k \in Key, Recoverable(k), ~opts.external, k[1] = id
          PROVE  Recoverable(k)' \/ k \in displaced'
      <4>1. CASE k[2] = 0
        BY <4>1 DEF Recoverable
      <4>2. CASE keystore[id] = k
        <5>1. CASE key' = k
          BY <3>1, <3>2, <3>5, <5>1 DEF Recoverable
        <5>2. CASE key' # k
          BY <3>1, <3>5, <4>2, <5>2, Sentinels
        <5>3. QED
          BY <5>1, <5>2
      <4>3. QED
        BY <3>5, <4>1, <4>2 DEF Recoverable
    <3>6. ASSUME NEW k \in Key, HasFunds(k)
          PROVE  Held(k)'
      <4>1. CASE opts.external
        BY <1>3, <2>1, <3>1, <3>3, <3>6, <4>1 DEF Held
      <4>2. CASE ~opts.external
        <5>1. k[1] < id
          BY <1>4, <2>1, <3>1, <3>6, <4>2
        <5>2. k[1] # id
          BY <1>5, <5>1
        <5>3. QED
          BY <1>3, <3>4, <3>6, <4>2, <5>2 DEF Held
      <4>3. QED
        BY <4>1, <4>2
    <3>7. ASSUME NEW k \in Key, AsideFunds(k)
          PROVE  HeldOrReplaced(k)'
      <4>1. k \in displaced => k \in displaced'
        BY <3>1
      <4>2. QED
        BY <1>3, <3>3, <3>4, <3>5, <3>7, <4>1 DEF HeldOrReplaced
    <3>8. KeysBeforeFunds'
      BY <1>a, <2>1, <3>6, <3>7, KeysBeforeFundsIs
    <3>9. QED
      BY <1>4, <2>1, <3>1, <3>8 DEF Funded
  <2>3. CASE StoreExtra
    <3>1. pc = "store" /\ Advance /\ keystore' = [keystore EXCEPT ![id] = key] /\ displaced' = displaced
      BY <2>3 DEF StoreExtra, At
    <3>2. IsExtra(id) /\ id \in Ids /\ keystore \in [Ids -> Key \cup {NoKey}]
      BY <1>1, <3>1 DEF InHand, LocalTypes
    <3>3. ASSUME NEW k \in Key, Recoverable(k)
          PROVE  Recoverable(k)'
      <4>1. k[1] = id => k[2] = 0
        BY <1>1, <3>2, <3>3, Sentinels DEF Recoverable, InHand
      <4>2. QED
        BY <1>5, <3>1, <3>2, <3>3, <4>1 DEF Recoverable
    <3>4. (pc' = "start" /\ id' = id) \/ (pc' = "keys" /\ id' > id /\ id' \in Ids)
      BY <1>1, <3>1, AdvanceIs
    <3>5. id \in Nat /\ id' \in Nat
      BY <1>1, <3>2, <3>4, IdsAre
    <3>6. \A k \in Key : k[1] < id \/ k[1] = id => k[1] < id' \/ (k[1] = id' /\ pc' # "keys")
      BY <1>5, <3>4, <3>5
    <3>7. \A k \in Key : (Held(k) => Held(k)') /\ (HeldOrReplaced(k) => HeldOrReplaced(k)')
      BY <2>1, <3>1, <3>3 DEF Held, HeldOrReplaced
    <3>8. KeysBeforeFunds'
      BY <1>3, <1>a, <2>1, <3>7, KeysBeforeFundsIs
    <3>9. QED
      BY <1>4, <2>1, <3>1, <3>6, <3>8 DEF Funded
  <2>4. CASE NodeConfig
    <3>1. pc = "config" /\ Advance /\ UNCHANGED <<keystore, displaced>>
      BY <2>4 DEF NodeConfig, At
    <3>2. (pc' = "start" /\ id' = id) \/ (pc' = "keys" /\ id' > id /\ id' \in Ids)
      BY <1>1, <3>1, AdvanceIs
    <3>3. id \in Nat /\ id' \in Nat
      BY <1>1, <3>2, IdsAre
    <3>4. \A k \in Key : k[1] < id \/ k[1] = id => k[1] < id' \/ (k[1] = id' /\ pc' # "keys")
      BY <1>5, <3>2, <3>3
    <3>5. KeysBeforeFunds'
      BY <1>b, <2>1, <3>1
    <3>6. QED
      BY <1>4, <2>1, <3>1, <3>4, <3>5 DEF Funded
  <2>5. CASE ExtraKeys \/ FindSafe \/ AwaitIndexed \/ StartNodes
    <3>1. UNCHANGED <<id, keystore, displaced>> /\ pc' # "keys"
      BY <2>5 DEF ExtraKeys, FindSafe, AwaitIndexed, StartNodes, disk
    <3>2. KeysBeforeFunds'
      BY <1>b, <2>1, <3>1
    <3>3. QED
      BY <1>4, <2>1, <3>1, <3>2 DEF Funded
  <2>6. QED
    BY <1>8, <2>2, <2>3, <2>4, <2>5 DEF Quiet
<1>9. CASE Elsewhere
  <2>1. UNCHANGED <<opts, pc, id, keystore, displaced, aside>>
    BY <1>1, <1>9, ElsewhereIs DEF disk, books
  <2>2. \A k \in Key : HasFunds(k)' => HasFunds(k)
    BY <1>1, <1>9, FundsStay
  <2>3. KeysBeforeFunds'
    BY <1>b, <2>1, <2>2
  <2>4. QED
    BY <1>4, <2>1, <2>2, <2>3 DEF Funded
<1>10. CASE End \/ MeshStep
  <2>1. UNCHANGED <<opts, id, keystore, displaced, chain, pool, aside>> /\ (pc' = pc \/ pc' = "idle")
    BY <1>10 DEF End, MeshStep, disk, books
  <2>2. KeysBeforeFunds'
    BY <1>b, <1>6, <2>1
  <2>3. QED
    BY <1>4, <1>6, <2>1, <2>2 DEF Funded, Steps
<1>11. ASSUME NEW o \in Settings, Begin(o)
      PROVE  Funded'
  <2>1. /\ opts' = o /\ UNCHANGED <<keystore, displaced>>
        /\ Connect(IF o.external THEN External ELSE NewChain)
        /\ aside' = IF o.external THEN NewChain ELSE External
    BY <1>1, <1>11, BeginIs
  <2> DEFINE Has(c, k) == Funds(c.chain, c.pool, k)
  <2>2. \A k \in Key : ~Has(NewChain, k)
    BY DEF NewChain, Fresh, Funds
  <2>3. \A k \in Key : Has(External, k) => HeldOrReplaced(k)
    BY <1>3 DEF External, Connected, HasFunds, AsideFunds, Held, HeldOrReplaced
  <2>4. \A k \in Key : /\ HasFunds(k)' = Has(IF o.external THEN External ELSE NewChain, k)
                       /\ AsideFunds(k)' = Has(IF o.external THEN NewChain ELSE External, k)
    BY <2>1 DEF Connect, HasFunds, AsideFunds
  <2> HIDE DEF Has
  <2>5. \A k \in Key : HeldOrReplaced(k) => HeldOrReplaced(k)' /\ (o.external => Held(k)')
    BY <2>1 DEF Held, HeldOrReplaced, Recoverable
  <2>6. KeysBeforeFunds'
    <3>1. ASSUME NEW k \in Key, HasFunds(k)'
          PROVE  Held(k)'
      <4>1. o.external /\ Has(External, k)
        BY <2>2, <2>4, <3>1
      <4>2. QED
        BY <2>3, <2>5, <4>1
    <3>2. ASSUME NEW k \in Key, AsideFunds(k)'
          PROVE  HeldOrReplaced(k)'
      <4>1. Has(External, k)
        BY <2>2, <2>4, <3>2
      <4>2. QED
        BY <2>3, <2>5, <4>1
    <3>3. QED
      BY <3>1, <3>2, KeysBeforeFundsIs
  <2>7. ~o.external => \A k \in Key : ~HasFunds(k)'
    BY <2>2, <2>4
  <2>8. QED
    BY <2>1, <2>6, <2>7 DEF Funded
<1>12. QED
  BY <1>7, <1>8, <1>9, <1>10, <1>11, NextIs

\* The chain aside is the one a run has left, until one is connected to it again.
LEMMA RestedKept ==
    ASSUME IInv, Next
    PROVE  Rested'
<1>1. Typed /\ InHand /\ Traced /\ Started /\ Rested
  BY DEF IInv
<1>2. ASSUME UNCHANGED <<run, aside>>
      PROVE  Rested'
  BY <1>1, <1>2 DEF Rested
<1>3. CASE Sending
  <2>1. run' = run
    BY <1>1, <1>3, SendingIs
  <2>2. aside' = aside
    BY <1>3 DEF Sending, NativeTopUp, TokenTopUp, DeploySafe, ScopeAggregator, FloatTopUp, RegisterSafe, Announce, books
  <2>3. QED
    BY <1>2, <2>1, <2>2
<1>4. CASE Quiet
  BY <1>1, <1>2, <1>4, QuietIs DEF books
<1>5. CASE Elsewhere
  BY <1>1, <1>2, <1>5, ElsewhereIs DEF books
<1>6. CASE End \/ MeshStep
  BY <1>2, <1>6 DEF End, MeshStep, books
<1>7. ASSUME NEW o \in Settings, Begin(o)
      PROVE  Rested'
  <2>1. run' = run + 1 /\ run \in Nat
    BY <1>1, <1>7, BeginIs
  <2>2. Resting(aside', run)
    BY <1>7, BeginRests
  <2>3. \A tx \in TxsOf(aside'.pool) : tx.run \in Nat
    BY <2>2, RunsOf DEF Resting, RestTyped
  <2>4. RestTraced(aside', run')
    <3>1. \A tx \in TxsOf(aside'.pool) : tx.run <= run => tx.run <= run'
      BY <2>1, <2>3
    <3>2. QED
      BY <2>2, <3>1 DEF Resting, RestTraced
  <2>5. QED
    BY <2>2, <2>4 DEF Rested, Resting
<1>8. QED
  BY <1>3, <1>4, <1>5, <1>6, <1>7, NextIs

\* Chain and pool together never make a Safe more of an account.
LEMMA DeployedStays ==
    ASSUME Typed, InHand, Traced, Started, Elsewhere, NEW k \in Key
    PROVE  Deployed(k)' \subseteq Deployed(k)
<1>1. Pending' \subseteq Pending
  BY ElsewhereIs
<1>2. CASE \E n \in DOMAIN pool : Land(n)
  <2>1. PICK n \in DOMAIN pool : Land(n)
    BY <1>2
  <2> DEFINE tx == pool[n]
  <2>2. /\ tx \in Pending
        /\ chain'.safes = IF tx.kind = "deploy" THEN chain.safes \cup {<<tx.account, tx.run>>} ELSE chain.safes
    BY <2>1, LandIs
  <2> HIDE DEF tx
  <2>3. \A s \in chain'.safes : s[1] = k => s \in Deployed(k)
    <3> TAKE s \in chain'.safes
    <3> HAVE s[1] = k
    <3>1. CASE s \in chain.safes
      BY <3>1 DEF Deployed
    <3>2. CASE s \notin chain.safes
      <4>1. tx.kind = "deploy" /\ s = <<tx.account, tx.run>>
        BY <2>2, <3>2
      <4>2. tx.account = k
        BY <4>1
      <4>3. QED
        BY <2>2, <4>1, <4>2 DEF Deployed
    <3>3. QED
      BY <3>1, <3>2
  <2>4. QED
    BY <1>1, <2>3 DEF Deployed
<1>3. CASE ~ \E n \in DOMAIN pool : Land(n)
  <2>1. chain'.safes = chain.safes
    <3>1. chain \in ChainType
      BY DEF Typed
    <3>2. QED
      BY <1>3, <3>1 DEF Elsewhere, Forget, Index, NodeAnnounces, Spend, Sweep, ChainType
  <2>2. QED
    BY <1>1, <2>1 DEF Deployed
<1>4. QED
  BY <1>2, <1>3

LEMMA OneSafeKept ==
    ASSUME IInv, Next
    PROVE  OneSafe'
<1>1. Typed /\ InHand /\ Traced /\ Started /\ LocalTypes /\ PoolTypes /\ OneSafe
  BY TypedParts DEF IInv
<1> DEFINE Bound == \A k \in Key : chain.bound[k] # NoSafe => chain.bound[k] \in chain.safes /\ chain.bound[k][1] = k
<1>2. Bound /\ \A k \in Key : lost[k] \in Nat
  BY <1>1 DEF OneSafe, LocalTypes
<1>3. \A k \in Key : lost[k] = 0 =>
         /\ \A s, t \in Deployed(k) : s = t
         /\ Deployed(k) # {} => Owned(k) # {} \/ (pc = "index" /\ key = k)
         /\ pc \in {"token", "deploy"} /\ key = k => Deployed(k) = {}
  BY <1>1 DEF OneSafe
<1>4. ASSUME UNCHANGED <<chain, pool, lost>>,
             pc = "index" /\ pc' # "index" => Owned(key) # {},
             pc = "index" /\ pc' = "index" => key' = key,
             pc' \in {"token", "deploy"} => key' = key /\ (lost[key] = 0 => Deployed(key) = {})
      PROVE  OneSafe'
  <2>1. \A k : Owned(k)' = Owned(k) /\ Deployed(k)' = Deployed(k)
    BY <1>4 DEF Owned, Deployed, Pending
  <2>2. \A k \in Key : pc = "index" /\ key = k => Owned(k) # {} \/ (pc' = "index" /\ key' = k)
    BY <1>4 DEF Owned
  <2>3. \A k \in Key : pc' \in {"token", "deploy"} /\ key' = k /\ lost[k] = 0 => Deployed(k) = {}
    BY <1>4
  <2>4. QED
    BY <1>2, <1>3, <1>4, <2>1, <2>2, <2>3 DEF OneSafe
<1>5. CASE Sending
  <2>1. /\ UNCHANGED <<key, chain, lost>> /\ <<pc, pc'>> \in Follows /\ Calm
        /\ UNCHANGED <<pool, awaited>> \/ Sends
    BY <1>1, <1>5, SendingIs
  <2>2. key \in Key
    BY <1>1, <2>1, InHandIs DEF Follows, Steps
  <2>3. \A k : Owned(k)' = Owned(k)
    BY <2>1 DEF Owned
  <2>4. CASE pc' # "index"
    <3>1. UNCHANGED pool \/ (Pending' = Pending \cup {awaited'} /\ awaited'.kind # "deploy")
      BY <2>1, <2>4 DEF Sends, Waits, Follows
    <3>2. \A k : Deployed(k)' = Deployed(k)
      BY <2>1, <3>1 DEF Deployed, Pending
    <3>3. pc # "index" /\ (pc' \in {"token", "deploy"} => pc = "token")
      BY <2>1 DEF Follows
    <3>4. QED
      BY <1>2, <1>3, <2>1, <2>2, <2>3, <3>2, <3>3 DEF OneSafe
  <2>5. CASE pc' = "index"
    <3>1. pc = "deploy"
      BY <2>1, <2>5 DEF Follows
    <3>2. UNCHANGED pool \/ (Pending' = Pending \cup {awaited'} /\ awaited'.account = key)
      BY <2>1 DEF Sends
    <3>3. \A k \in Key : k # key => Deployed(k)' = Deployed(k)
      BY <2>1, <3>2 DEF Deployed, Pending
    <3>4. lost[key] = 0 => \A s, t \in Deployed(key)' : s = t
      <4>1. lost[key] = 0 => Deployed(key) = {}
        BY <1>3, <2>2, <3>1
      <4>2. Deployed(key)' \subseteq Deployed(key) \cup {<<key, awaited'.run>>}
        BY <2>1, <3>2 DEF Deployed, Pending
      <4>3. QED
        BY <4>1, <4>2
    <3>5. QED
      <4>1. \A k \in Key : lost'[k] = 0 /\ k # key =>
               /\ \A s, t \in Deployed(k)' : s = t
               /\ Deployed(k)' # {} => Owned(k)' # {}
        BY <1>3, <2>1, <2>3, <3>1, <3>3
      <4>2. lost'[key] = 0 => \A s, t \in Deployed(key)' : s = t
        BY <2>1, <3>4
      <4>3. key' = key /\ pc' = "index" /\ Bound'
        BY <1>2, <2>1, <2>5
      <4>4. \A k \in Key : lost'[k] = 0 =>
               /\ \A s, t \in Deployed(k)' : s = t
               /\ Deployed(k)' # {} => Owned(k)' # {} \/ (pc' = "index" /\ key' = k)
               /\ pc' \in {"token", "deploy"} /\ key' = k => Deployed(k)' = {}
        <5> TAKE k \in Key
        <5>1. CASE k = key
          <6>1. Deployed(k)' = Deployed(key)'
            BY <4>3, <5>1 DEF Deployed
          <6>2. QED
            BY <4>2, <4>3, <5>1, <6>1
        <5>2. CASE k # key
          BY <4>1, <4>3, <5>2
        <5>3. QED
          BY <5>1, <5>2
      <4>5. QED
        BY <4>3, <4>4 DEF OneSafe
  <2>6. QED
    BY <2>4, <2>5
<1>6. CASE Quiet
  <2>1. UNCHANGED <<chain, pool, lost>>
    BY <1>1, <1>6, QuietIs DEF books
  <2>2. CASE NodeKeys \/ ExtraKeys \/ NodeConfig \/ StoreExtra \/ StartNodes
    <3>1. pc # "index" /\ pc' \notin {"token", "deploy"}
      BY <2>2 DEF NodeKeys, ExtraKeys, NodeConfig, StoreExtra, StartNodes, At, Advance
    <3>2. QED
      BY <1>4, <2>1, <3>1
  <2>3. CASE FindSafe
    <3>1. pc = "safe" /\ key' = key /\ (pc' = "grant" \/ (pc' = "token" /\ Owned(key) = {}))
      BY <2>3 DEF FindSafe, At
    <3>2. key \in Key
      BY <1>1, <3>1, InHandIs DEF Steps
    <3>3. pc' = "token" /\ lost[key] = 0 => Deployed(key) = {}
      BY <1>3, <3>1, <3>2
    <3>4. QED
      BY <1>4, <2>1, <3>1, <3>3
  <2>4. CASE AwaitIndexed
    <3>1. pc = "index" /\ pc' = "grant" /\ Owned(key) # {}
      BY <2>4 DEF AwaitIndexed, At
    <3>2. QED
      BY <1>4, <2>1, <3>1
  <2>5. QED
    BY <1>6, <2>2, <2>3, <2>4 DEF Quiet
<1>7. CASE Elsewhere
  <2>1. UNCHANGED <<pc, key, lost>> /\ chain.indexed \subseteq chain'.indexed /\ chain.safes \subseteq chain'.safes
    BY <1>1, <1>7, ElsewhereIs DEF books
  <2>2. \A k \in Key : Deployed(k)' \subseteq Deployed(k)
    BY <1>1, <1>7, DeployedStays
  <2>3. \A k \in Key : Owned(k) \subseteq Owned(k)'
    BY <2>1 DEF Owned
  <2>4. Bound'
    <3>1. chain \in ChainType
      BY <1>1 DEF PoolTypes
    <3>2. CASE \E n \in DOMAIN pool : Land(n)
      <4>1. PICK n \in DOMAIN pool : Land(n)
        BY <3>2
      <4> DEFINE tx == pool[n]
      <4>2. /\ tx \in Tx /\ Formed(tx)
            /\ chain'.bound = IF tx.kind = "bind" THEN [chain.bound EXCEPT ![tx.account] = tx.safe] ELSE chain.bound
        BY <1>1, <4>1, LandIs
      <4> HIDE DEF tx
      <4>3. tx.kind = "bind" => tx.safe \in chain.safes /\ tx.safe[1] = tx.account
        BY <4>2 DEF Formed
      <4>4. QED
        BY <1>2, <2>1, <3>1, <4>2, <4>3 DEF ChainType
    <3>3. CASE ~ \E n \in DOMAIN pool : Land(n)
      <4>1. chain'.bound = chain.bound
        BY <1>7, <3>1, <3>3 DEF Elsewhere, Forget, Index, NodeAnnounces, Spend, Sweep, ChainType
      <4>2. QED
        BY <1>2, <2>1, <4>1
    <3>4. QED
      BY <3>2, <3>3
  <2>5. \A k \in Key : lost'[k] = 0 =>
               /\ \A s, t \in Deployed(k)' : s = t
               /\ Deployed(k)' # {} => Owned(k)' # {} \/ (pc' = "index" /\ key' = k)
               /\ pc' \in {"token", "deploy"} /\ key' = k => Deployed(k)' = {}
    BY <1>3, <2>1, <2>2, <2>3
  <2>6. QED
    BY <2>4, <2>5 DEF OneSafe
<1>8. CASE End
  <2>1. /\ UNCHANGED <<key, chain, pool>> /\ pc' = "idle"
        /\ \A k \in Key : lost'[k] = IF GivesUp(k) THEN lost[k] + 1 ELSE lost[k]
    BY <1>1, <1>8, EndIs
  <2>2. \A k \in Key : lost'[k] = 0 => lost[k] = 0 /\ ~(pc = "index" /\ key = k)
    BY <1>2, <2>1 DEF GivesUp
  <2>3. \A k : Owned(k)' = Owned(k) /\ Deployed(k)' = Deployed(k)
    BY <2>1 DEF Owned, Deployed, Pending
  <2>4. QED
    BY <1>2, <1>3, <2>1, <2>2, <2>3 DEF OneSafe
<1>9. CASE MeshStep
  <2>1. UNCHANGED <<key, chain, pool, lost>> /\ (pc' = pc \/ (pc = "up" /\ pc' = "idle"))
    BY <1>9 DEF MeshStep, books
  <2>2. \A k : Owned(k)' = Owned(k) /\ Deployed(k)' = Deployed(k)
    BY <2>1 DEF Owned, Deployed, Pending
  <2>3. QED
    BY <1>2, <1>3, <2>1, <2>2 DEF OneSafe
<1>10. ASSUME NEW o \in Settings, Begin(o)
      PROVE  OneSafe'
  <2>1. pc' = "keys"
    BY <1>1, <1>10, BeginIs
  <2>2. PICK c : Resting(c, run) /\ Connect(c)
    BY <1>10, BeginRests
  <2>3. chain' = c.chain /\ lost' = c.lost /\ Pending' = TxsOf(c.pool)
    BY <2>2 DEF Connect, Pending
  <2>4. \A k : Owned(k)' = RestOwned(c, k) /\ Deployed(k)' = RestDeployed(c, k)
    BY <2>3 DEF Owned, RestOwned, Deployed, RestDeployed, RestDeploys
  <2>5. QED
    BY <2>1, <2>2, <2>3, <2>4 DEF Resting, RestOneSafe, OneSafe
<1>11. QED
  BY <1>5, <1>6, <1>7, <1>8, <1>9, <1>10, NextIs

\* A multiple of the stake, and one more.
LEMMA StakeTimes ==
    ASSUME NEW n \in Nat
    PROVE  /\ Stake * n \in Nat /\ Stake * (n + 1) = Stake * n + Stake
           /\ Stake * (1 + n) = Stake * n + Stake
<1>1. Stake \in Nat
  BY Numbers
<1>2. Stake * n \in Nat
  BY <1>1
<1>3. Stake * (n + 1) = Stake * n + Stake
  BY <1>1
<1>4. QED
  BY <1>1, <1>2, <1>3

LEMMA StaleIs ==
    ASSUME Typed, NEW k \in Key
    PROVE  IsFiniteSet(Stale(k)) /\ Cardinality(Stale(k)) \in Nat
<1>1. IsFiniteSet(Pending)
  <2>1. Len(pool) \in Nat /\ DOMAIN pool = 1 .. Len(pool)
    BY DEF Typed
  <2>2. pool \in Seq(Pending)
    <3>1. \A n \in 1 .. Len(pool) : pool[n] \in Pending
      BY <2>1 DEF Pending, TxsOf
    <3>2. pool \in [1 .. Len(pool) -> Pending]
      BY <2>1, <3>1 DEF Typed
    <3>3. QED
      BY <2>1, <3>2, IsASeq
  <2>3. \A t \in Pending : \E n \in 1 .. Len(pool) : pool[n] = t
    BY <2>1 DEF Pending, TxsOf
  <2>4. QED
    BY <2>2, <2>3 DEF IsFiniteSet
<1>2. Stale(k) \subseteq Pending
  BY DEF Stale
<1>3. QED
  BY <1>1, <1>2, FS_Subset, FS_CardinalityType

\* What an account owes does not grow, nor does what it has shrink.
LEMMA BalanceStays ==
    ASSUME Typed, LocalTypes, PoolTypes, NEW k \in Key, Balanced(k),
           paid'[k] = paid[k], lost'[k] = lost[k], Stale(k)' \subseteq Stale(k),
           Assets(k)' \in Nat, Assets(k)' >= Assets(k)
    PROVE  Balanced(k)'
<1>1. /\ IsFiniteSet(Stale(k)) /\ Cardinality(Stale(k)) \in Nat
      /\ Cardinality(Stale(k)') \in Nat /\ Cardinality(Stale(k)') <= Cardinality(Stale(k))
  BY StaleIs, FS_Subset, FS_CardinalityType
<1>2. paid[k] \in Nat /\ lost[k] \in Nat /\ Assets(k) \in Nat
  <2>1. Coming(k) \in Nat
    BY DEF Coming, PoolTypes, Tx
  <2>2. chain.token[k] \in Nat /\ Stake \in Nat
    BY Numbers DEF PoolTypes, ChainType
  <2>3. QED
    BY <2>1, <2>2 DEF LocalTypes, Assets
<1>3. Stake * Cardinality(Stale(k)') <= Stake * Cardinality(Stale(k))
  <2> DEFINE c == Cardinality(Stale(k)) 
             d == Cardinality(Stale(k)')
  <2>1. c \in Nat /\ d \in Nat /\ d <= c /\ Stake \in Nat
    BY <1>1, Numbers
  <2> HIDE DEF c, d
  <2>2. Stake * d <= Stake * c
    BY <2>1
  <2>3. QED
    BY <2>2 DEF c, d
<1>4. Stake * Cardinality(Stale(k)') \in Nat /\ Stake * Cardinality(Stale(k)) \in Nat /\ Stake * lost[k] \in Nat
  BY <1>1, <1>2, StakeTimes
<1>5. QED
  <2> DEFINE a == Stake * Cardinality(Stale(k)') 
             b == Stake * Cardinality(Stale(k))
             l == Stake * lost[k]
  <2>1. a \in Nat /\ b \in Nat /\ l \in Nat /\ a <= b /\ paid[k] + b <= l + Assets(k)
    BY <1>3, <1>4 DEF Balanced
  <2>2. Balanced(k)' <=> paid[k] + a <= l + Assets(k)'
    BY DEF Balanced
  <2> HIDE DEF a, b, l
  <2>3. QED
    BY <1>2, <2>1, <2>2

LEMMA SecuredIs ==
    ASSUME NEW k \in Key
    PROVE  /\ key = k /\ pc \in {"token", "deploy"} => ~Secured(k)
           /\ key = k /\ pc = "index" => (Secured(k) <=> awaited = NoTx)
           /\ key # k \/ pc \notin {"token", "deploy", "index"} => (Secured(k) <=> Owned(k) # {})
           /\ key' = k /\ pc' \in {"token", "deploy"} => ~Secured(k)'
           /\ key' = k /\ pc' = "index" => (Secured(k)' <=> awaited' = NoTx)
           /\ key' # k \/ pc' \notin {"token", "deploy", "index"} => (Secured(k)' <=> Owned(k)' # {})
BY DEF Secured, Calm

\* What an account has, when it is secured as before or better.
LEMMA AssetsGrow ==
    ASSUME PoolTypes, NEW k \in Key, Secured(k) => Secured(k)',
           chain'.token[k] \in Nat, Coming(k)' \in Nat,
           chain'.token[k] + Coming(k)' >= chain.token[k] + Coming(k)
    PROVE  Assets(k)' \in Nat /\ Assets(k)' >= Assets(k)
<1>1. Coming(k) \in Nat
  BY DEF Coming, PoolTypes, Tx
<1>2. chain.token[k] \in Nat /\ Stake \in Nat
  BY Numbers DEF PoolTypes, ChainType
<1>3. CASE Secured(k)'
  <2>1. Assets(k)' = chain'.token[k] + Coming(k)' + Stake
    BY <1>3 DEF Assets
  <2>2. Assets(k) \in {chain.token[k] + Coming(k) + Stake, chain.token[k] + Coming(k) + 0}
    BY DEF Assets
  <2>3. QED
    BY <1>1, <1>2, <2>1, <2>2
<1>4. CASE ~Secured(k)'
  BY <1>1, <1>2, <1>4 DEF Assets
<1>5. QED
  BY <1>3, <1>4

LEMMA SendingCovered ==
    ASSUME IInv, Sending
    PROVE  Covered'
<1>1. Typed /\ InHand /\ Traced /\ LocalTypes /\ PoolTypes /\ Covered
  BY TypedParts DEF IInv
<1>2. /\ UNCHANGED <<run, key, chain, lost>> /\ <<pc, pc'>> \in Follows /\ awaited = NoTx
      /\ UNCHANGED <<pool, awaited>> \/ Sends
  BY <1>1, SendingIs DEF Calm
<1>3. key \in Key
  BY <1>1, <1>2, InHandIs DEF Follows, Steps
<1>4. NoTx \notin Pending
  <2>1. Pending \subseteq Tx
    BY <1>1 DEF PoolTypes, Pending, TxsOf
  <2>2. QED
    BY <2>1, Sentinels
<1>5. \A k \in Key : Stale(k)' = Stale(k)
  BY <1>2, <1>4 DEF Stale, Pending, Sends
<1>6. \A k : Owned(k)' = Owned(k)
  BY <1>2 DEF Owned
<1>7. \A k \in Key : Secured(k) => Secured(k)'
  BY <1>2, <1>6, SecuredIs DEF Follows
<1>8. \A k \in Key : Coming(k) = 0
  BY <1>2 DEF Coming
<1>9. \A k \in Key : chain.token[k] \in Nat /\ paid[k] \in Nat /\ lost[k] \in Nat
  BY <1>1 DEF LocalTypes, PoolTypes, ChainType
<1>10. \A k \in Key : Coming(k)' \in Nat
  BY <1>2 DEF Coming, Sends, Tx
<1>11. CASE UNCHANGED paid
  <2>1. ASSUME NEW k \in Key
        PROVE  Balanced(k)'
    <3>1. Assets(k)' \in Nat /\ Assets(k)' >= Assets(k)
      <4>1. chain'.token[k] + Coming(k)' >= chain.token[k] + Coming(k)
        BY <1>2, <1>8, <1>9, <1>10
      <4>2. QED
        BY <1>1, <1>2, <1>7, <1>9, <1>10, <4>1, AssetsGrow
    <3>2. QED
      BY <1>1, <1>2, <1>5, <1>11, <3>1, BalanceStays DEF Covered
  <2>2. QED
    BY <1>1, <1>2, <1>11, <2>1 DEF Covered, PaidOnce
<1>12. CASE TokenTopUp
  <2> DEFINE d == TokenDeficit
  <2>1. /\ pc = "token" /\ pc' = "deploy" /\ paid' = [paid EXCEPT ![key] = @ + d]
        /\ SubmitIf(d > 0, Pay("token", NoSafe, d))
    BY <1>12 DEF TokenTopUp, At
  <2>2. d \in Nat /\ (d > 0 => d = Stake - chain.token[key])
    BY <1>3, <1>9, Numbers DEF TokenDeficit
  <2>3. Coming(key)' = d
    <3>1. CASE d > 0
      <4>1. awaited' = Pay("token", NoSafe, d)
        BY <2>1, <3>1 DEF SubmitIf, Submit
      <4>2. awaited'.kind = "token" /\ awaited'.account = key /\ awaited'.amount = d /\ awaited' # NoTx
        BY <4>1 DEF Pay, NoTx
      <4>3. key' = key
        BY <1>2
      <4>4. QED
        BY <4>2, <4>3 DEF Coming
    <3>2. CASE d = 0
      BY <1>2, <2>1, <3>2 DEF SubmitIf, Coming
    <3>3. QED
      BY <2>2, <3>1, <3>2
  <2> HIDE DEF d
  <2>4. ~Secured(key) /\ ~Secured(key)'
    BY <1>2, <1>3, <2>1, SecuredIs
  <2>5. Balanced(key) /\ paid[key] \in Nat /\ chain.token[key] \in Nat
        /\ Stake * lost[key] \in Nat /\ Stake * Cardinality(Stale(key)) \in Nat
        /\ Stake * (1 + lost[key]) = Stake * lost[key] + Stake
    BY <1>1, <1>3, <1>9, StaleIs, StakeTimes DEF Covered
  <2>6. /\ paid'[key] = paid[key] + d
        /\ paid[key] + Stake * Cardinality(Stale(key)) <= Stake * lost[key] + chain.token[key]
    <3>1. Assets(key) = chain.token[key]
      BY <1>3, <1>8, <2>4, <2>5 DEF Assets
    <3>2. QED
      BY <1>1, <1>3, <2>1, <2>5, <3>1 DEF Balanced, LocalTypes
  <2>7. Balanced(key)'
    <3>1. Assets(key)' = chain.token[key] + d
      BY <1>2, <2>2, <2>3, <2>4, <2>5 DEF Assets
    <3>2. Balanced(key)' <=> paid'[key] + Stake * Cardinality(Stale(key)) <= Stake * lost[key] + Assets(key)'
      BY <1>2, <1>3, <1>5 DEF Balanced
    <3>3. QED
      BY <2>2, <2>5, <2>6, <3>1, <3>2
  <2>8. paid'[key] <= Stake * (1 + lost[key])
    <3>1. paid[key] <= Stake * (1 + lost[key])
      BY <1>1, <1>3 DEF Covered, PaidOnce
    <3>2. QED
      BY <2>2, <2>5, <2>6, <3>1, Numbers
  <2>9. ASSUME NEW k \in Key, k # key
        PROVE  Balanced(k)' /\ paid'[k] <= Stake * (1 + lost[k])
    <3>1. paid'[k] = paid[k]
      BY <1>1, <2>1, <2>9 DEF LocalTypes
    <3>2. Assets(k)' \in Nat /\ Assets(k)' >= Assets(k)
      <4>1. chain'.token[k] + Coming(k)' >= chain.token[k] + Coming(k)
        BY <1>2, <1>8, <1>9, <1>10
      <4>2. QED
        BY <1>1, <1>2, <1>7, <1>9, <1>10, <4>1, AssetsGrow
    <3>3. QED
      BY <1>1, <1>2, <1>5, <3>1, <3>2, BalanceStays DEF Covered, PaidOnce
  <2>10. QED
    <3>1. \A k \in Key : Balanced(k)' /\ paid'[k] <= Stake * (1 + lost'[k])
      <4> TAKE k \in Key
      <4>1. CASE k = key
        <5>1. Balanced(k)'
          BY <1>2, <2>7, <4>1 DEF Balanced, Stale, Assets, Coming, Secured, Owned
        <5>2. QED
          BY <1>2, <2>8, <4>1, <5>1
      <4>2. CASE k # key
        BY <1>2, <2>9, <4>2
      <4>3. QED
        BY <4>1, <4>2
    <3>2. QED
      BY <3>1 DEF Covered, PaidOnce
<1>13. QED
  <2>1. TokenTopUp \/ UNCHANGED paid
    BY DEF Sending, NativeTopUp, DeploySafe, ScopeAggregator, FloatTopUp, RegisterSafe, Announce, books
  <2>2. QED
    BY <1>11, <1>12, <2>1

\* Steps that leave the pool and the books alone.
LEMMA CoveredStays ==
    ASSUME Typed, LocalTypes, PoolTypes, Covered, UNCHANGED <<pool, awaited, books>>,
           UNCHANGED chain.token, chain.indexed \subseteq chain'.indexed,
           \A k \in Key : Secured(k) => Secured(k)'
    PROVE  Covered'
<1>1. ASSUME NEW k \in Key
      PROVE  Balanced(k)'
  <2>1. Stale(k)' = Stale(k) /\ Coming(k)' = Coming(k) /\ Coming(k) \in Nat /\ chain.token[k] \in Nat
    BY DEF Stale, Pending, Coming, PoolTypes, ChainType, Tx
  <2>2. chain'.token[k] = chain.token[k]
    OBVIOUS
  <2>3. Assets(k)' \in Nat /\ Assets(k)' >= Assets(k)
    BY <2>1, <2>2, AssetsGrow
  <2>4. QED
    BY <2>1, <2>3, BalanceStays DEF Covered, books
<1>2. QED
  BY <1>1 DEF Covered, PaidOnce, books

LEMMA QuietCovered ==
    ASSUME IInv, Quiet
    PROVE  Covered'
<1>1. Typed /\ InHand /\ Traced /\ LocalTypes /\ PoolTypes /\ Covered
  BY TypedParts DEF IInv
<1>2. UNCHANGED <<chain, pool, awaited, books>> /\ awaited = NoTx
  BY <1>1, QuietIs DEF Calm
<1>3. \A k : Owned(k)' = Owned(k)
  BY <1>2 DEF Owned
<1>4. \A k \in Key : Secured(k) => Secured(k)'
  <2>1. CASE NodeKeys \/ ExtraKeys \/ NodeConfig \/ StoreExtra \/ StartNodes
    <3>1. pc \notin {"token", "deploy", "index"} /\ pc' \notin {"token", "deploy", "index"}
      BY <2>1 DEF NodeKeys, ExtraKeys, NodeConfig, StoreExtra, StartNodes, At, Advance
    <3>2. QED
      BY <1>3, <3>1, SecuredIs
  <2>2. CASE FindSafe
    <3>1. pc = "safe" /\ key' = key /\ (pc' = "grant" \/ (pc' = "token" /\ Owned(key) = {}))
      BY <2>2 DEF FindSafe, At
    <3>2. QED
      BY <1>3, <3>1, SecuredIs
  <2>3. CASE AwaitIndexed
    <3>1. pc = "index" /\ pc' = "grant" /\ key' = key /\ Owned(key) # {}
      BY <2>3 DEF AwaitIndexed, At
    <3>2. QED
      BY <1>3, <3>1, SecuredIs
  <2>4. QED
    BY <2>1, <2>2, <2>3 DEF Quiet
<1>5. QED
  BY <1>1, <1>2, <1>4, CoveredStays

LEMMA LandCovered ==
    ASSUME IInv, NEW n \in DOMAIN pool, Land(n)
    PROVE  Covered'
<1> DEFINE tx == pool[n]
<1>1. Typed /\ InHand /\ Traced /\ LocalTypes /\ PoolTypes /\ Covered
  BY TypedParts DEF IInv
<1>2. /\ tx \in Tx /\ tx \in Pending /\ Formed(tx) /\ Pending' = Pending \ {tx}
      /\ awaited' = IF awaited = tx THEN NoTx ELSE awaited
      /\ UNCHANGED <<pc, key, paid, lost>> /\ chain'.indexed = chain.indexed
      /\ chain'.token = IF tx.kind = "token" THEN [chain.token EXCEPT ![tx.account] = @ + tx.amount]
                        ELSE IF tx.kind = "deploy" THEN [chain.token EXCEPT ![tx.account] = @ - Stake]
                        ELSE chain.token
      /\ chain' \in ChainType
  BY <1>1, LandIs DEF books
<1> HIDE DEF tx
<1>3. tx # NoTx /\ tx.account \in Key /\ tx.amount \in Nat
  BY <1>2, Sentinels DEF Tx
<1>4. awaited = tx => <<pc, tx.kind>> \in Waits /\ tx.account = key
  BY <1>1, <1>3 DEF Traced
<1>5. \A k : Owned(k)' = Owned(k)
  BY <1>2 DEF Owned
<1>6. \A k \in Key : Secured(k) => Secured(k)'
  BY <1>2, <1>5, SecuredIs
<1>7. \A k \in Key : Stale(k)' = Stale(k) \ {tx}
  <2>1. NoTx \notin Pending
    <3>1. Pending \subseteq Tx
      BY <1>1 DEF PoolTypes, Pending, TxsOf
    <3>2. QED
      BY <3>1, Sentinels
  <2>2. QED
    BY <1>2, <2>1 DEF Stale
<1>8. \A k \in Key : chain.token[k] \in Nat /\ chain'.token[k] \in Nat /\ Coming(k) \in Nat
  BY <1>1, <1>2 DEF ChainType, PoolTypes, Coming, Tx
<1>9. \A k \in Key : IF awaited = tx /\ tx.kind = "token" /\ tx.account = k
                     THEN Coming(k) = tx.amount /\ Coming(k)' = 0 ELSE Coming(k)' = Coming(k)
  <2> TAKE k \in Key
  <2>1. CASE awaited = tx
    <3>1. awaited' = NoTx
      BY <1>2, <2>1
    <3>2. Coming(k)' = 0
      BY <3>1 DEF Coming
    <3>3. Coming(k) = IF tx.kind = "token" /\ tx.account = k THEN tx.amount ELSE 0
      BY <1>3, <2>1 DEF Coming
    <3>4. QED
      BY <2>1, <3>2, <3>3
  <2>2. CASE awaited # tx
    <3>1. awaited' = awaited
      BY <1>2, <2>2
    <3>2. QED
      BY <2>2, <3>1 DEF Coming
  <2>3. QED
    BY <2>1, <2>2
<1>10. ASSUME NEW k \in Key
       PROVE  Balanced(k)'
  <2>1. CASE ~(tx.kind = "deploy" /\ tx.account = k)
    <3>1. chain'.token[k] + Coming(k)' >= chain.token[k] + Coming(k)
      <4>1. CASE tx.kind = "token" /\ tx.account = k
        <5>1. chain'.token[k] = chain.token[k] + tx.amount
          BY <1>1, <1>2, <4>1 DEF PoolTypes, ChainType
        <5>2. QED
          BY <1>3, <1>8, <1>9, <5>1
      <4>2. CASE ~(tx.kind = "token" /\ tx.account = k)
        <5>1. chain'.token[k] = chain.token[k]
          BY <1>1, <1>2, <2>1, <4>2 DEF PoolTypes, ChainType
        <5>2. Coming(k)' = Coming(k)
          BY <1>9, <4>2
        <5>3. QED
          BY <1>8, <5>1, <5>2
      <4>3. QED
        BY <4>1, <4>2
    <3>2. Coming(k)' \in Nat
      BY <1>3, <1>8, <1>9
    <3>3. Assets(k)' \in Nat /\ Assets(k)' >= Assets(k)
      BY <1>1, <1>6, <1>8, <3>1, <3>2, AssetsGrow
    <3>4. QED
      BY <1>1, <1>2, <1>7, <3>3, BalanceStays DEF Covered
  <2>2. CASE tx.kind = "deploy" /\ tx.account = k
    <3>1. chain'.token[k] = chain.token[k] - Stake /\ Coming(k)' = Coming(k)
      BY <1>1, <1>2, <1>9, <2>2 DEF PoolTypes, ChainType
    <3>2. Balanced(k) /\ paid[k] \in Nat /\ Stake * lost[k] \in Nat /\ Stake \in Nat
          /\ IsFiniteSet(Stale(k)) /\ Cardinality(Stale(k)) \in Nat /\ Stake * Cardinality(Stale(k)) \in Nat
      BY <1>1, StaleIs, StakeTimes, Numbers DEF Covered, LocalTypes
    <3> DEFINE l == Stake * lost[k]
               b == Stake * Cardinality(Stale(k))
               c == Stake * Cardinality(Stale(k)')
    <3>3. paid[k] + b <= l + Assets(k) /\ (Balanced(k)' <=> paid[k] + c <= l + Assets(k)')
      BY <1>2, <3>2 DEF Balanced
    <3>4. CASE awaited = tx
      <4>1. pc = "index" /\ key = k /\ awaited' = NoTx
        BY <1>2, <1>4, <2>2, <3>4 DEF Waits
      <4>2. ~Secured(k) /\ Secured(k)'
        BY <1>2, <1>3, <3>4, <4>1, SecuredIs
      <4>3. Assets(k)' = Assets(k)
        BY <1>8, <3>1, <3>2, <4>2 DEF Assets
      <4>4. Stale(k)' = Stale(k)
        BY <1>7, <3>4 DEF Stale
      <4>5. QED
        BY <3>3, <4>3, <4>4
    <3>5. CASE awaited # tx
      <4>1. tx \in Stale(k)
        BY <1>2, <2>2, <3>5 DEF Stale
      <4>2. Cardinality(Stale(k)) = Cardinality(Stale(k)') + 1 /\ Cardinality(Stale(k)') \in Nat
        <5>1. IsFiniteSet(Stale(k)') /\ Cardinality(Stale(k)') = Cardinality(Stale(k)) - 1
          BY <1>7, <3>2, <4>1, FS_RemoveElement
        <5>2. QED
          BY <3>2, <5>1, FS_CardinalityType
      <4>3. b = c + Stake /\ c \in Nat
        BY <4>2, StakeTimes
      <4>4. Assets(k)' >= Assets(k) - Stake /\ Assets(k)' \in Int /\ Assets(k) \in Int
        <5>1. CASE Secured(k)'
          <6>1. Assets(k)' = chain'.token[k] + Coming(k) + Stake
            BY <3>1, <5>1 DEF Assets
          <6>2. Assets(k) \in {chain.token[k] + Coming(k) + Stake, chain.token[k] + Coming(k) + 0}
            BY DEF Assets
          <6>3. QED
            BY <1>8, <3>1, <3>2, <6>1, <6>2
        <5>2. CASE ~Secured(k)'
          BY <1>6, <1>8, <3>1, <3>2, <5>2 DEF Assets
        <5>3. QED
          BY <5>1, <5>2
      <4> HIDE DEF b, c, l
      <4>5. l \in Nat
        BY <3>2 DEF l
      <4>6. QED
        BY <3>2, <3>3, <4>3, <4>4, <4>5
    <3>6. QED
      BY <3>4, <3>5
  <2>3. QED
    BY <2>1, <2>2
<1>11. QED
  BY <1>1, <1>2, <1>10 DEF Covered, PaidOnce

LEMMA ElsewhereCovered ==
    ASSUME IInv, Elsewhere
    PROVE  Covered'
<1>1. Typed /\ InHand /\ Traced /\ Started /\ LocalTypes /\ PoolTypes /\ Covered
  BY TypedParts DEF IInv
<1>2. /\ UNCHANGED <<pc, key, books>> /\ chain.indexed \subseteq chain'.indexed /\ Pending' \subseteq Pending
  BY <1>1, ElsewhereIs
<1>3. \A k : Owned(k) \subseteq Owned(k)'
  BY <1>2 DEF Owned
<1>4. UNCHANGED awaited => \A k \in Key : Secured(k) => Secured(k)'
  BY <1>2, <1>3, SecuredIs
<1>5. CASE \E n \in DOMAIN pool : Land(n)
  BY <1>5, LandCovered
<1>6. CASE \E n \in DOMAIN pool : Forget(n)
  <2>1. UNCHANGED <<chain, awaited>>
    BY <1>6 DEF Forget
  <2>2. ASSUME NEW k \in Key
        PROVE  Balanced(k)'
    <3>1. Stale(k)' \subseteq Stale(k)
      BY <1>2, <2>1 DEF Stale
    <3>2. Coming(k)' = Coming(k) /\ Coming(k) \in Nat /\ chain.token[k] \in Nat
      BY <1>1, <2>1 DEF Coming, PoolTypes, ChainType, Tx
    <3>3. Assets(k)' \in Nat /\ Assets(k)' >= Assets(k)
      BY <1>1, <1>4, <2>1, <3>2, AssetsGrow
    <3>4. QED
      BY <1>1, <1>2, <3>1, <3>3, BalanceStays DEF Covered, books
  <2>3. QED
    BY <1>1, <1>2, <2>2 DEF Covered, PaidOnce, books
<1>7. CASE \/ \E s \in chain.safes : Index(s)
           \/ \E i \in Ids : NodeAnnounces(i) \/ Spend(i) \/ Sweep(i)
  <2>1. UNCHANGED <<pool, awaited>> /\ UNCHANGED chain.token
    BY <1>1, <1>7 DEF Index, NodeAnnounces, Spend, Sweep, PoolTypes, ChainType
  <2>2. QED
    BY <1>1, <1>2, <1>4, <2>1, CoveredStays
<1>8. QED
  BY <1>5, <1>6, <1>7 DEF Elsewhere

LEMMA EndCovered ==
    ASSUME IInv, End
    PROVE  Covered'
<1>1. Typed /\ InHand /\ Traced /\ LocalTypes /\ PoolTypes /\ Covered
  BY TypedParts DEF IInv
<1>2. /\ UNCHANGED <<key, chain, pool, paid>> /\ pc' = "idle" /\ awaited' = NoTx
      /\ \A k \in Key : lost'[k] = IF GivesUp(k) THEN lost[k] + 1 ELSE lost[k]
  BY <1>1, EndIs
<1>3. Pending' = Pending /\ NoTx \notin Pending
  <2>1. Pending \subseteq Tx
    BY <1>1 DEF PoolTypes, Pending, TxsOf
  <2>2. QED
    BY <1>2, <2>1, Sentinels DEF Pending
<1>4. \A k \in Key : Secured(k)' <=> Owned(k) # {}
  BY <1>2, SecuredIs DEF Owned
<1>5. \A k \in Key : Coming(k)' = 0
  BY <1>2 DEF Coming
<1>6. \A k \in Key : Stale(k) \subseteq Stale(k)' /\ Stale(k)' \subseteq Stale(k) \cup {awaited}
  BY <1>3, <1>2 DEF Stale
<1>7. \A k \in Key : chain'.token[k] = chain.token[k] /\ chain.token[k] \in Nat /\ Coming(k) \in Nat
                     /\ paid[k] \in Nat /\ lost[k] \in Nat
  BY <1>1, <1>2 DEF LocalTypes, PoolTypes, ChainType, Coming, Tx
<1>8. ASSUME NEW k \in Key, ~GivesUp(k)
      PROVE  Balanced(k)'
  <2>1. Secured(k) => Secured(k)'
    BY <1>4, <1>8, SecuredIs DEF GivesUp
  <2>2. Coming(k) = 0 /\ Stale(k)' = Stale(k)
    BY <1>2, <1>3, <1>8 DEF GivesUp, Coming, Stale
  <2>3. Assets(k)' \in Nat /\ Assets(k)' >= Assets(k)
    BY <1>1, <1>5, <1>7, <2>1, <2>2, AssetsGrow
  <2>4. QED
    BY <1>1, <1>2, <1>8, <2>2, <2>3, BalanceStays DEF Covered
<1>9. ASSUME NEW k \in Key, GivesUp(k)
      PROVE  Balanced(k)'
  <2> DEFINE l == Stake * lost[k]
             b == Stake * Cardinality(Stale(k))
             c == Stake * Cardinality(Stale(k)')
  <2>1. IsFiniteSet(Stale(k)) /\ Cardinality(Stale(k)) \in Nat /\ b \in Nat /\ l \in Nat
        /\ Stake * (lost[k] + 1) = l + Stake /\ Stake \in Nat /\ paid[k] + b <= l + Assets(k)
    BY <1>1, <1>7, StaleIs, StakeTimes, Numbers DEF Covered, Balanced
  <2>2. Balanced(k)' <=> paid[k] + c <= (l + Stake) + Assets(k)'
    <3>1. lost'[k] = lost[k] + 1 /\ paid'[k] = paid[k]
      BY <1>2, <1>9
    <3>2. QED
      BY <2>1, <3>1 DEF Balanced
  <2>3. /\ Assets(k)' = chain.token[k] + (IF Owned(k) # {} THEN Stake ELSE 0)
        /\ Assets(k) = chain.token[k] + Coming(k) + (IF Secured(k) THEN Stake ELSE 0)
    <3>1. Assets(k)' = chain'.token[k] + Coming(k)' + (IF Secured(k)' THEN Stake ELSE 0)
      BY DEF Assets
    <3>2. QED
      BY <1>4, <1>5, <1>7, <2>1, <3>1 DEF Assets
  <2>4. CASE awaited.kind = "deploy" /\ awaited # NoTx /\ awaited.account = k
    <3>1. pc = "index" /\ key = k
      BY <1>1, <2>4 DEF Traced, Waits
    <3>2. ~Secured(k) /\ Coming(k) = 0
      BY <2>4, <3>1, SecuredIs DEF Coming
    <3>3. Cardinality(Stale(k)') \in {Cardinality(Stale(k)), Cardinality(Stale(k)) + 1}
      <4>1. CASE Stale(k)' = Stale(k)
        BY <4>1
      <4>2. CASE Stale(k)' # Stale(k)
        <5>1. Stale(k)' = Stale(k) \cup {awaited} /\ awaited \notin Stale(k)
          BY <1>6, <4>2 DEF Stale
        <5>2. QED
          BY <2>1, <5>1, FS_AddElement
      <4>3. QED
        BY <4>1, <4>2
    <3>4. c \in {b, b + Stake}
      BY <2>1, <3>3, StakeTimes
    <3> HIDE DEF b, c, l
    <3>5. QED
      BY <1>7, <2>1, <2>2, <2>3, <3>2, <3>4
  <2>5. CASE ~(awaited.kind = "deploy" /\ awaited # NoTx /\ awaited.account = k)
    <3>1. Stale(k)' = Stale(k)
      <4>1. awaited \notin Stale(k)'
        BY <1>2, <1>3, <2>5 DEF Stale
      <4>2. QED
        BY <1>6, <4>1
    <3>2. \/ Coming(k) <= Stake /\ ~Secured(k)
          \/ Coming(k) = 0
      <4>1. CASE awaited # NoTx /\ awaited.kind = "token" /\ awaited.account = k
        <5>1. pc = "deploy" /\ key = k /\ awaited.amount <= Stake
          BY <1>1, <4>1 DEF Traced, Waits, Wanted
        <5>2. QED
          BY <4>1, <5>1, SecuredIs DEF Coming
      <4>2. CASE ~(awaited # NoTx /\ awaited.kind = "token" /\ awaited.account = k)
        BY <4>2 DEF Coming
      <4>3. QED
        BY <4>1, <4>2
    <3> HIDE DEF b, c, l
    <3>3. b = c
      BY <3>1 DEF b, c
    <3>4. QED
      BY <1>7, <2>1, <2>2, <2>3, <3>2, <3>3
  <2>6. QED
    BY <2>4, <2>5
<1>10. ASSUME NEW k \in Key
       PROVE  paid'[k] <= Stake * (1 + lost'[k])
  <2> DEFINE l == Stake * lost[k]
             m == Stake * (lost[k] + 1)
             o == Stake * ((lost[k] + 1) + 1)
  <2>1. l \in Nat /\ m = l + Stake /\ o = m + Stake /\ Stake \in Nat /\ paid[k] <= Stake * (1 + lost[k])
        /\ Stake * (1 + lost[k]) = l + Stake /\ Stake * (1 + (lost[k] + 1)) = m + Stake
    BY <1>1, <1>7, StakeTimes, Numbers DEF Covered, PaidOnce
  <2>2. lost'[k] = lost[k] \/ lost'[k] = lost[k] + 1
    BY <1>2
  <2>3. paid'[k] = paid[k] /\ paid[k] \in Nat
    BY <1>2, <1>7
  <2>4. CASE lost'[k] = lost[k]
    BY <2>1, <2>3, <2>4
  <2>5. CASE lost'[k] = lost[k] + 1
    <3>1. Stake * (1 + lost'[k]) = m + Stake
      BY <2>1, <2>5
    <3> HIDE DEF l, m, o
    <3>2. QED
      BY <2>1, <2>3, <3>1
  <2>6. QED
    BY <2>2, <2>4, <2>5
<1>11. QED
  BY <1>8, <1>9, <1>10 DEF Covered, PaidOnce

LEMMA BeginCovered ==
    ASSUME IInv, NEW o \in Settings, Begin(o)
    PROVE  Covered'
<1>1. Typed /\ InHand /\ Traced
  BY DEF IInv
<1>2. pc' = "keys" /\ awaited' = NoTx
  BY <1>1, BeginIs
<1>3. PICK c : Resting(c, run) /\ Connect(c)
  BY BeginRests
<1>4. chain' = c.chain /\ paid' = c.paid /\ lost' = c.lost /\ Pending' = TxsOf(c.pool) /\ c.pool \in Seq(Tx)
  BY <1>3 DEF Connect, Pending, Resting, RestTyped
<1>5. \A tx \in Pending' : tx # NoTx
  BY <1>4, Sentinels DEF TxsOf
<1> SUFFICES ASSUME NEW k \in Key
             PROVE  Balanced(k)' /\ paid'[k] <= Stake * (1 + lost'[k])
  BY DEF Covered, PaidOnce
<1>6. Stale(k)' = RestDeploys(c, k) /\ Coming(k)' = 0 /\ Owned(k)' = RestOwned(c, k)
  BY <1>2, <1>4, <1>5 DEF Stale, RestDeploys, Coming, Owned, RestOwned
<1>7. Secured(k)' <=> RestOwned(c, k) # {}
  BY <1>2, <1>6, SecuredIs
<1>8. /\ paid'[k] + Stake * Cardinality(Stale(k)')
           <= Stake * lost'[k] + (chain'.token[k] + (IF Secured(k)' THEN Stake ELSE 0))
      /\ paid'[k] <= Stake * (1 + lost'[k])
  BY <1>3, <1>4, <1>6, <1>7 DEF Resting, RestCovered
<1>9. chain'.token[k] + Coming(k)' = chain'.token[k]
  BY <1>3, <1>4, <1>6 DEF Resting, RestTyped, ChainType
<1>10. QED
  BY <1>8, <1>9 DEF Balanced, Assets

LEMMA CoveredKept ==
    ASSUME IInv, Next
    PROVE  Covered'
<1>1. CASE MeshStep
  <2>1. Typed /\ LocalTypes /\ PoolTypes /\ Covered
    BY TypedParts DEF IInv
  <2>2. UNCHANGED <<key, chain, pool, awaited, books>> /\ (pc' = pc \/ (pc = "up" /\ pc' = "idle"))
    BY <1>1 DEF MeshStep
  <2>3. \A k : Owned(k)' = Owned(k)
    BY <2>2 DEF Owned
  <2>4. \A k \in Key : Secured(k) => Secured(k)'
    BY <2>2, <2>3, SecuredIs
  <2>5. QED
    BY <2>1, <2>2, <2>4, CoveredStays
<1>2. QED
  BY <1>1, NextIs, SendingCovered, QuietCovered, ElsewhereCovered, EndCovered, BeginCovered

\* What a node was given stays with it.
LEMMA ProvisionedStays ==
    ASSUME PoolTypes, chain' \in ChainType, UNCHANGED opts, NEW i \in Ids, Provisioned(i),
           keystore'[i] = keystore[i], config'[i] = config[i],
           chain.indexed \subseteq chain'.indexed, chain.scoped \subseteq chain'.scoped,
           \A k \in Key : chain.bound[k] # NoSafe => chain'.bound[k] # NoSafe,
           lost'[keystore[i]] = lost[keystore[i]],
           lost[keystore[i]] = 0 /\ chain.port[keystore[i]] = AnnouncePort(i) =>
             chain'.port[keystore[i]] = AnnouncePort(i),
           pc' # "up" => pc # "up" /\ \A s \in Safe : chain'.held[s] >= chain.held[s],
           keystore[i] \in Key \cup {NoKey}
    PROVE  Provisioned(i)'
<1> DEFINE k == keystore[i]
           c == config[i]
<1>1. /\ k \in Key /\ c.keys = k /\ c.pix = PixOf(i) /\ (c.announce => ~Relayed)
      /\ c.safe \in Owned(k) /\ AnnouncePort(i) <= PortMax /\ chain.bound[k] # NoSafe
      /\ opts.grant => c.safe \in chain.scoped
      /\ lost[k] = 0 => chain.port[k] = AnnouncePort(i)
      /\ pc # "up" /\ opts.pix.on => chain.held[c.safe] >= FloatTarget(i)
  BY DEF Provisioned
<1>2. keystore'[i] = k /\ config'[i] = c /\ lost'[k] = lost[k]
  OBVIOUS
<1>3. /\ PixOf(i)' = PixOf(i) /\ Relayed' = Relayed /\ AnnouncePort(i)' = AnnouncePort(i)
      /\ FloatTarget(i)' = FloatTarget(i) /\ FloatTarget(i) \in Nat
  BY Numbers DEF PixOf, Relayed, AnnouncePort, AnnouncedBase, FloatTarget
<1>4. Owned(k) \subseteq Owned(k)' /\ c.safe \in Safe
  BY <1>1 DEF Owned, PoolTypes, ChainType
<1>5. chain.held[c.safe] \in Nat /\ chain'.held[c.safe] \in Nat
  BY <1>4 DEF PoolTypes, ChainType
<1>6. pc' # "up" /\ opts.pix.on => chain'.held[c.safe] >= FloatTarget(i)
  BY <1>1, <1>3, <1>4, <1>5
<1>7. lost[k] = 0 => chain'.port[k] = AnnouncePort(i)
  BY <1>1
<1>8. chain'.bound[k] # NoSafe
  BY <1>1
<1>9. Owned(k)' = {s \in chain'.indexed : s[1] = k}
  BY DEF Owned
<1> HIDE DEF k, c
<1>10. k # NoKey
  BY <1>1, Sentinels
<1>11. c.safe \in {s \in chain'.indexed : s[1] = k}
  BY <1>1, <1>4, <1>9
<1>12. opts.grant => c.safe \in chain'.scoped
  BY <1>1
<1>13. UNCHANGED opts
  OBVIOUS
<1>14. QED
  BY <1>1, <1>2, <1>3, <1>6, <1>7, <1>8, <1>10, <1>11, <1>12, <1>13 DEF Provisioned, Owned

LEMMA SendingStarted ==
    ASSUME IInv, Sending
    PROVE  Started'
<1>1. Typed /\ InHand /\ Traced /\ LocalTypes /\ PoolTypes /\ Started
  BY TypedParts DEF IInv
<1>2. /\ UNCHANGED <<run, opts, id, key, safe, disk, chain, lost, meshVars>>
      /\ Calm /\ <<pc, pc'>> \in Follows
      /\ UNCHANGED <<pool, awaited>> \/ Sends
  BY <1>1, SendingIs
<1>3. pc \in Steps \ {"start"} /\ pc' \in Steps \ {"start"} /\ pc # "up" /\ pc' # "up" /\ pc # "idle"
  BY <1>2 DEF Follows, Steps
<1>4. ASSUME NEW i \in Ids, Done(i)'
      PROVE  Provisioned(i)'
  <2>1. Done(i)
    BY <1>2, <1>3, <1>4 DEF Done, NodeIds
  <2>2. Provisioned(i) /\ chain' \in ChainType /\ \A s \in Safe : chain'.held[s] >= chain.held[s]
    BY <1>1, <1>2, <1>3, <2>1 DEF Started, PoolTypes, ChainType
  <2>3. QED
    BY <1>1, <1>2, <1>3, <2>2, ProvisionedStays DEF disk, LocalTypes
<1>5. /\ AnnouncePort(id)' = AnnouncePort(id) /\ FloatTarget(id)' = FloatTarget(id) /\ FloatTarget(id) \in Nat
  BY <1>2, Numbers DEF AnnouncePort, AnnouncedBase, Relayed, FloatTarget
<1>6. pc \in HasSafe => safe \in Safe /\ chain.held[safe] \in Nat
  BY <1>1, <1>3, InHandIs DEF HasSafe, PoolTypes, ChainType
<1>7. awaited' # NoTx => ~Calm'
  BY DEF Calm
<1>8. \A x, y, z : Own(x, y, z) # NoTx
  BY DEF Own, NoTx
<1> DEFINE A == pc \in HasSafe \ {"grant"} /\ opts.grant => safe \in chain.scoped \/ Awaiting("float")
           B == pc \in {"bind", "announce", "config"} /\ opts.pix.on =>
                  chain.held[safe] + (IF Awaiting("bind") THEN awaited.amount ELSE 0) >= FloatTarget(id)
           C == pc \in {"announce", "config"} => chain.bound[key] # NoSafe \/ Awaiting("announce")
           D == pc = "config" => /\ AnnouncePort(id) <= PortMax
                                 /\ lost[key] = 0 => chain.port[key] = AnnouncePort(id) \/ Awaiting("config")
<1>9. A /\ B /\ C /\ D
  BY <1>1 DEF Started, UnderWay
<1>10. A' /\ B' /\ C' /\ D'
  <2>1. CASE NativeTopUp \/ TokenTopUp \/ DeploySafe
    <3>1. pc' \in {"safe", "deploy", "index"}
      BY <2>1 DEF NativeTopUp, TokenTopUp, DeploySafe
    <3>2. QED
      BY <3>1 DEF HasSafe
  <2>2. CASE ScopeAggregator
    <3>1. pc' = "float" /\ SubmitIf(opts.grant /\ ~(opts.asks /\ safe \in chain.scoped), Own("grant", safe, NoPort))
      BY <2>2 DEF ScopeAggregator
    <3>2. opts.grant /\ safe \notin chain.scoped => awaited' # NoTx
      BY <1>8, <3>1 DEF SubmitIf, Submit
    <3>3. QED
      BY <1>2, <1>7, <3>1, <3>2 DEF Awaiting
  <2>3. CASE FloatTopUp
    <3> DEFINE t == FloatTarget(id) - chain.held[safe]
    <3>1. /\ pc = "float" /\ pc' = (IF IsExtra(id) THEN "store" ELSE "bind")
          /\ SubmitIf(~IsExtra(id) /\ opts.pix.on /\ chain.held[safe] < FloatTarget(id), Pay("float", safe, t))
      BY <2>3 DEF FloatTopUp, At
    <3>2. pc \in HasSafe /\ safe \in Safe /\ chain.held[safe] \in Nat
      BY <1>6, <3>1 DEF HasSafe
    <3>3. A'
      BY <1>2, <1>9, <3>1 DEF Awaiting, HasSafe
    <3>4. ASSUME pc' = "bind", opts.pix.on
          PROVE  chain.held[safe] + (IF Awaiting("bind")' THEN awaited'.amount ELSE 0) >= FloatTarget(id)
      <4>1. ~IsExtra(id)
        BY <3>1, <3>4
      <4>2. CASE chain.held[safe] < FloatTarget(id)
        <5>1. awaited' = Pay("float", safe, t)
          BY <3>1, <3>4, <4>1, <4>2 DEF SubmitIf, Submit
        <5>2. t \in Nat /\ awaited'.amount = t
          BY <1>5, <3>2, <4>2, <5>1 DEF Pay
        <5>3. Awaiting("bind")'
          BY <3>4, <5>1 DEF Awaiting, Calm, Pay, NoTx
        <5>4. QED
          BY <1>5, <3>2, <5>2, <5>3
      <4>3. CASE ~(chain.held[safe] < FloatTarget(id))
        <5>1. ~Awaiting("bind")'
          BY <1>2, <3>1, <4>3 DEF SubmitIf, Awaiting, Calm
        <5>2. QED
          BY <1>5, <3>2, <4>3, <5>1
      <4>4. QED
        BY <4>2, <4>3
    <3>5. B'
      <4>1. pc' \notin {"announce", "config"}
        BY <3>1
      <4>2. QED
        BY <1>2, <1>5, <3>4, <4>1
    <3>6. QED
      BY <3>1, <3>3, <3>5
  <2>4. CASE RegisterSafe
    <3>1. pc = "bind" /\ pc' = "announce" /\ SubmitIf(chain.bound[key] = NoSafe, Own("bind", safe, NoPort))
      BY <2>4 DEF RegisterSafe, At
    <3>2. chain.bound[key] = NoSafe => awaited' # NoTx
      BY <1>8, <3>1 DEF SubmitIf, Submit
    <3>3. A'
      BY <1>2, <1>9, <3>1 DEF Awaiting, HasSafe
    <3>4. B'
      BY <1>2, <1>5, <1>9, <3>1 DEF Awaiting
    <3>5. QED
      BY <1>2, <1>7, <3>1, <3>2, <3>3, <3>4 DEF Awaiting
  <2>5. CASE Announce
    <3>1. /\ pc = "announce" /\ pc' = "config" /\ AnnouncePort(id) <= PortMax
          /\ SubmitIf(chain.port[key] # AnnouncePort(id), Own("announce", NoSafe, AnnouncePort(id)))
      BY <2>5 DEF Announce, At
    <3>2. chain.port[key] # AnnouncePort(id) => awaited' # NoTx
      BY <1>8, <3>1 DEF SubmitIf, Submit
    <3>3. A'
      BY <1>2, <1>9, <3>1 DEF Awaiting, HasSafe
    <3>4. B'
      BY <1>2, <1>5, <1>9, <3>1 DEF Awaiting
    <3>5. C'
      BY <1>2, <1>9, <3>1 DEF Awaiting
    <3>6. D'
      BY <1>2, <1>5, <1>7, <3>1, <3>2 DEF Awaiting
    <3>7. QED
      BY <3>3, <3>4, <3>5, <3>6
  <2>6. QED
    BY <2>1, <2>2, <2>3, <2>4, <2>5 DEF Sending
<1>11. UnderWay'
  BY <1>10 DEF UnderWay
<1>12. QED
  BY <1>1, <1>2, <1>3, <1>4, <1>11 DEF Started

LEMMA QuietStarted ==
    ASSUME IInv, Quiet
    PROVE  Started'
<1>1. Typed /\ InHand /\ Traced /\ LocalTypes /\ PoolTypes /\ Started
  BY TypedParts DEF IInv
<1>2. UNCHANGED <<run, opts, chain, pool, awaited, books>> /\ Calm /\ pc \in Steps /\ pc # "idle" /\ pc # "up"
  BY <1>1, QuietIs DEF Steps
<1>3. /\ keystore \in [Ids -> Key \cup {NoKey}] /\ id \in Ids /\ config = [i \in Ids |-> config[i]]
  BY <1>1 DEF LocalTypes
<1>4. ASSUME NEW i \in Ids, Done(i), keystore'[i] = keystore[i], config'[i] = config[i]
      PROVE  Provisioned(i)'
  <2>1. Provisioned(i) /\ chain' \in ChainType /\ \A s \in Safe : chain'.held[s] >= chain.held[s]
    BY <1>1, <1>2, <1>4 DEF Started, PoolTypes, ChainType
  <2>2. QED
    BY <1>1, <1>2, <1>3, <1>4, <2>1, ProvisionedStays DEF books
<1>5. /\ pc' \notin HasSafe \ {"grant"} => UnderWay'
      /\ opts' = opts /\ NodeIds' = NodeIds
  BY <1>2 DEF UnderWay, HasSafe, NodeIds
<1>6. \A i \in NodeIds : i \in Ids /\ i < MaxNodes /\ ~IsExtra(i) /\ i \in Nat
  <2>1. \A i \in NodeIds : i \in 0 .. opts.size - 1 /\ ~IsExtra(i) /\ i \in Ids
    BY <1>1, IdsAre
  <2>2. opts.size \in 1 .. MaxNodes /\ MaxNodes \in Nat
    BY <1>1, IdsAre, Numbers
  <2>3. QED
    BY <2>1, <2>2
<1>7. CASE NodeKeys \/ ExtraKeys
  <2>1. pc = "keys" /\ pc' = "native" /\ id' = id /\ config' = config
        /\ (\A i \in Ids : i # id => keystore'[i] = keystore[i])
    BY <1>3, <1>7 DEF NodeKeys, ExtraKeys, At, disk
  <2>2. \A i \in Ids : Done(i)' => Done(i) /\ i # id
    BY <1>1, <1>5, <2>1, IdsAre DEF Done
  <2>3. QED
    BY <1>1, <1>2, <1>4, <1>5, <2>1, <2>2 DEF Started, HasSafe
<1>8. CASE FindSafe \/ AwaitIndexed
  <2>1. pc \in {"safe", "index"} /\ pc' \in {"token", "grant"} /\ id' = id /\ UNCHANGED disk
    BY <1>8 DEF FindSafe, AwaitIndexed, At
  <2>2. \A i \in Ids : Done(i)' => Done(i)
    BY <1>5, <2>1 DEF Done
  <2>3. QED
    BY <1>1, <1>2, <1>4, <1>5, <2>1, <2>2 DEF Started, HasSafe, disk
<1>9. CASE NodeConfig
  <2> DEFINE c == [safe |-> safe, announce |-> ~Relayed, pix |-> PixOf(id), keys |-> key]
  <2>1. /\ pc = "config" /\ keystore' = keystore /\ config' = [config EXCEPT ![id] = c] /\ Advance
    BY <1>9 DEF NodeConfig, At
  <2>2. /\ key \in Key /\ keystore[id] = key /\ safe \in Owned(key) /\ ~IsExtra(id)
    BY <1>1, <2>1, InHandIs DEF InHand, HasSafe, Steps
  <2>3. /\ opts.grant => safe \in chain.scoped
        /\ opts.pix.on => chain.held[safe] >= FloatTarget(id)
        /\ chain.bound[key] # NoSafe
        /\ AnnouncePort(id) <= PortMax
        /\ lost[key] = 0 => chain.port[key] = AnnouncePort(id)
    <3>1. chain.held[safe] \in Nat
      BY <1>1, <2>1, InHandIs DEF HasSafe, PoolTypes, ChainType, Steps
    <3>2. opts.pix.on => chain.held[safe] + 0 >= FloatTarget(id)
      BY <1>1, <1>2, <2>1 DEF Started, UnderWay, Awaiting
    <3>3. QED
      BY <1>1, <1>2, <2>1, <3>1, <3>2 DEF Started, UnderWay, Awaiting, HasSafe
  <2>4. config'[id] = c
    BY <1>3, <2>1
  <2>5. /\ c.keys = key /\ c.pix = PixOf(id) /\ (c.announce => ~Relayed) /\ c.safe = safe
    OBVIOUS
  <2> HIDE DEF c
  <2>6. ASSUME NEW i \in Ids, i = id
        PROVE  Provisioned(i)'
    <3>1. keystore'[i] = key /\ config'[i] = c
      BY <2>1, <2>2, <2>4, <2>6
    <3>2. /\ PixOf(i)' = PixOf(i) /\ AnnouncePort(i)' = AnnouncePort(i) /\ FloatTarget(i)' = FloatTarget(i)
          /\ Relayed' = Relayed /\ \A k : Owned(k)' = Owned(k)
      BY <1>2 DEF PixOf, Relayed, AnnouncePort, AnnouncedBase, FloatTarget, Owned
    <3>3. key # NoKey
      BY <2>2, Sentinels
    <3>4. UNCHANGED <<opts, chain, lost>>
      BY <1>2 DEF books
    <3>5. Owned(keystore[i])' = Owned(key)
      BY <2>1, <2>2, <2>6, <3>2 DEF Owned
    <3>6. c.safe \in Owned(key)
      BY <2>2, <2>5
    <3>7. QED
      BY <2>2, <2>3, <2>5, <2>6, <3>1, <3>2, <3>3, <3>4, <3>5, <3>6 DEF Provisioned
  <2>7. ASSUME NEW i \in Ids, Done(i)'
        PROVE  Provisioned(i)'
    <3>1. i \in NodeIds /\ i <= id /\ i \in Nat
      BY <1>1, <1>5, <1>6, <2>1, <2>7, AdvanceIs, IdsAre DEF Done
    <3>2. CASE i = id
      BY <2>6, <3>2
    <3>3. CASE i # id
      <4>1. Done(i)
        BY <1>1, <3>1, <3>3, IdsAre DEF Done
      <4>2. config'[i] = config[i]
        BY <1>3, <2>1, <3>3
      <4>3. QED
        BY <1>4, <2>1, <4>1, <4>2
    <3>4. QED
      BY <3>2, <3>3
  <2>8. pc' \in {"start", "keys"}
    BY <1>1, <2>1, AdvanceIs
  <2>9. QED
    BY <1>1, <1>2, <1>5, <2>7, <2>8 DEF Started, HasSafe
<1>10. CASE StoreExtra
  <2>1. pc = "store" /\ keystore' = [keystore EXCEPT ![id] = key] /\ config' = config /\ Advance
    BY <1>10 DEF StoreExtra, At
  <2>2. IsExtra(id) /\ id >= MaxNodes
    BY <1>1, <2>1, IdsAre DEF InHand
  <2>3. ASSUME NEW i \in Ids, Done(i)'
        PROVE  Provisioned(i)'
    <3>1. i \in NodeIds /\ i # id /\ i < id
      BY <1>1, <1>5, <1>6, <2>2, <2>3, IdsAre, Numbers DEF Done
    <3>2. Done(i) /\ keystore'[i] = keystore[i]
      BY <1>3, <2>1, <3>1 DEF Done
    <3>3. QED
      BY <1>4, <2>1, <3>2
  <2>4. pc' \in {"start", "keys"}
    BY <1>1, <2>1, AdvanceIs
  <2>5. QED
    BY <1>1, <1>2, <1>5, <2>3, <2>4 DEF Started, HasSafe
<1>11. CASE StartNodes
  <2>1. pc = "start" /\ pc' = "up" /\ UNCHANGED <<id, disk>> /\ members' = NodeIds
    BY <1>11 DEF StartNodes, At, StartMesh
  <2>2. \A i \in Ids : Done(i)' => Done(i)
    BY <1>5, <2>1 DEF Done
  <2>3. QED
    BY <1>1, <1>2, <1>4, <1>5, <2>1, <2>2 DEF Started, HasSafe, disk
<1>12. QED
  BY <1>7, <1>8, <1>9, <1>10, <1>11 DEF Quiet

LEMMA LandStarted ==
    ASSUME IInv, NEW n \in DOMAIN pool, Land(n)
    PROVE  Started'
<1> DEFINE tx == pool[n]
<1>1. Typed /\ InHand /\ Traced /\ LocalTypes /\ PoolTypes /\ Started
  BY TypedParts DEF IInv
<1>2. /\ tx \in Tx /\ tx \in Pending /\ Formed(tx) /\ ~Reverts(tx)
      /\ awaited' = IF awaited = tx THEN NoTx ELSE awaited
      /\ UNCHANGED <<run, opts, pc, id, key, safe, keystore, config, lost, members>>
      /\ chain' \in ChainType
      /\ chain'.held = IF tx.kind \in {"float", "deploy"} THEN [chain.held EXCEPT ![tx.safe] = @ + tx.amount]
                                                          ELSE chain.held
      /\ chain'.indexed = chain.indexed
      /\ chain'.scoped = IF tx.kind = "grant" THEN chain.scoped \cup {tx.safe} ELSE chain.scoped
      /\ chain'.bound = IF tx.kind = "bind" THEN [chain.bound EXCEPT ![tx.account] = tx.safe] ELSE chain.bound
      /\ chain'.port = IF tx.kind = "announce" THEN [chain.port EXCEPT ![tx.account] = tx.port] ELSE chain.port
  BY <1>1, LandIs DEF disk, books, meshVars
<1> HIDE DEF tx
<1>3. tx # NoTx /\ tx.account \in Key /\ tx.amount \in Nat
  BY <1>2, Sentinels DEF Tx
<1>4. awaited = tx => <<pc, tx.kind>> \in Waits /\ tx.account = key /\ Wanted(tx)
  BY <1>1, <1>3 DEF Traced
<1>5. awaited # tx => lost[tx.account] > 0
  BY <1>1, <1>2 DEF Traced
<1>6. \A k \in Key : lost[k] \in Nat
  BY <1>1 DEF LocalTypes
<1>7. \A s \in Safe : chain.held[s] \in Nat /\ chain'.held[s] \in Nat /\ chain'.held[s] >= chain.held[s]
  <2>1. \A s \in Safe : chain.held[s] \in Nat /\ chain'.held[s] \in Nat
    BY <1>1, <1>2 DEF PoolTypes, ChainType
  <2>2. \A s \in Safe : chain'.held[s] \in {chain.held[s], chain.held[s] + tx.amount}
    BY <1>1, <1>2 DEF PoolTypes, ChainType
  <2>3. QED
    BY <1>3, <2>1, <2>2
<1>8. tx.kind = "bind" => tx.safe # NoSafe
  <2>1. chain.safes \subseteq Safe
    BY <1>1 DEF PoolTypes, ChainType
  <2>2. QED
    BY <1>2, <2>1, Sentinels DEF Formed
<1>9. \A k \in Key : chain.bound[k] # NoSafe => chain'.bound[k] # NoSafe
  BY <1>1, <1>2, <1>8 DEF PoolTypes, ChainType
<1>10. chain.indexed \subseteq chain'.indexed /\ chain.scoped \subseteq chain'.scoped
  BY <1>2
<1>11. ASSUME NEW i \in Ids, Done(i)', pc \in Steps \cup {"up"}
       PROVE  Provisioned(i)'
  <2>1. Done(i)
    BY <1>2, <1>11 DEF Done, NodeIds
  <2>2. Provisioned(i) /\ keystore[i] \in Key \cup {NoKey}
    BY <1>1, <1>11, <2>1 DEF Started, LocalTypes
  <2>3. keystore[i] # NoKey /\ keystore[i] \in Key /\ keystore[i][1] = i
    BY <1>1, <2>2 DEF Provisioned, InHand
  <2>4. ASSUME lost[keystore[i]] = 0, chain.port[keystore[i]] = AnnouncePort(i)
        PROVE  chain'.port[keystore[i]] = AnnouncePort(i)
    <3>1. CASE tx.kind = "announce" /\ tx.account = keystore[i]
      <4>1. awaited = tx
        BY <1>5, <2>4, <3>1
      <4>2. pc = "config" /\ key = keystore[i]
        BY <1>4, <3>1, <4>1 DEF Waits
      <4>3. id = i
        BY <1>1, <2>3, <4>2, InHandIs DEF Steps
      <4>4. ~Done(i)
        BY <1>1, <4>2, <4>3, IdsAre DEF Done
      <4>5. QED
        BY <2>1, <4>4
    <3>2. CASE ~(tx.kind = "announce" /\ tx.account = keystore[i])
      BY <1>1, <1>2, <2>3, <2>4, <3>2 DEF PoolTypes, ChainType
    <3>3. QED
      BY <3>1, <3>2
  <2>5. QED
    BY <1>1, <1>2, <1>7, <1>9, <1>10, <2>2, <2>4, ProvisionedStays
<1>12. /\ AnnouncePort(id)' = AnnouncePort(id) /\ FloatTarget(id)' = FloatTarget(id) /\ FloatTarget(id) \in Nat
  BY <1>2, Numbers DEF AnnouncePort, AnnouncedBase, Relayed, FloatTarget
<1>13. pc \in HasSafe => safe \in Safe /\ key \in Key
  BY <1>1, InHandIs DEF HasSafe, Steps
<1>14. awaited = NoTx => awaited' = NoTx
  BY <1>2
<1> DEFINE A == pc \in HasSafe \ {"grant"} /\ opts.grant => safe \in chain.scoped \/ Awaiting("float")
           B == pc \in {"bind", "announce", "config"} /\ opts.pix.on =>
                  chain.held[safe] + (IF Awaiting("bind") THEN awaited.amount ELSE 0) >= FloatTarget(id)
           C == pc \in {"announce", "config"} => chain.bound[key] # NoSafe \/ Awaiting("announce")
           D == pc = "config" => /\ AnnouncePort(id) <= PortMax
                                 /\ lost[key] = 0 => chain.port[key] = AnnouncePort(id) \/ Awaiting("config")
<1>15. A /\ B /\ C /\ D
  BY <1>1 DEF Started, UnderWay
<1>16. A'
  <2>1. CASE awaited = tx /\ pc = "float"
    <3>1. tx.kind = "grant" /\ tx.safe = safe
      BY <1>4, <2>1 DEF Waits, Wanted
    <3>2. QED
      BY <1>2, <3>1
  <2>2. CASE ~(awaited = tx /\ pc = "float")
    BY <1>2, <1>15, <2>2 DEF Awaiting, Calm
  <2>3. QED
    BY <2>1, <2>2
<1>17. ASSUME pc \in {"bind", "announce", "config"}, opts.pix.on
       PROVE  chain'.held[safe] + (IF Awaiting("bind")' THEN awaited'.amount ELSE 0) >= FloatTarget(id)
  <2>1. /\ safe \in Safe /\ chain.held[safe] \in Nat /\ chain'.held[safe] \in Nat
        /\ chain'.held[safe] >= chain.held[safe]
        /\ chain.held[safe] + (IF Awaiting("bind") THEN awaited.amount ELSE 0) >= FloatTarget(id)
    BY <1>7, <1>13, <1>15, <1>17 DEF HasSafe
  <2>2. CASE awaited = tx /\ pc = "bind"
    <3>1. tx.kind = "float" /\ tx.safe = safe
      BY <1>4, <2>2 DEF Waits, Wanted
    <3>2. chain'.held[safe] = chain.held[safe] + tx.amount
      BY <1>1, <1>2, <2>1, <3>1 DEF PoolTypes, ChainType
    <3>3. Awaiting("bind") /\ ~Awaiting("bind")'
      BY <1>2, <1>3, <2>2 DEF Awaiting, Calm
    <3>4. QED
      BY <2>1, <2>2, <3>2, <3>3
  <2>3. CASE ~(awaited = tx /\ pc = "bind")
    <3>1. Awaiting("bind")' <=> Awaiting("bind")
      BY <1>2, <2>3 DEF Awaiting, Calm
    <3>2. Awaiting("bind") => awaited' = awaited /\ awaited.amount \in Nat
      BY <1>1, <1>2, <2>3 DEF Awaiting, Calm, PoolTypes, Tx
    <3>3. CASE Awaiting("bind")
      BY <1>12, <2>1, <3>1, <3>2, <3>3
    <3>4. CASE ~Awaiting("bind")
      BY <1>12, <2>1, <3>1, <3>4
    <3>5. QED
      BY <3>3, <3>4
  <2>4. QED
    BY <2>2, <2>3
<1>18. B'
  BY <1>2, <1>12, <1>17
<1>19. C'
  <2>1. CASE awaited = tx /\ pc = "announce"
    <3>1. tx.kind = "bind" /\ tx.account = key /\ key \in Key
      BY <1>4, <1>13, <2>1 DEF Waits, HasSafe
    <3>2. chain'.bound[key] # NoSafe
      BY <1>1, <1>2, <1>8, <3>1 DEF PoolTypes, ChainType
    <3>3. QED
      BY <1>2, <3>2
  <2>2. CASE ~(awaited = tx /\ pc = "announce")
    BY <1>2, <1>9, <1>13, <1>15, <2>2 DEF Awaiting, Calm, HasSafe
  <2>3. QED
    BY <2>1, <2>2
<1>20. D'
  <2> SUFFICES ASSUME pc = "config", lost[key] = 0
               PROVE  chain'.port[key] = AnnouncePort(id) \/ Awaiting("config")'
    BY <1>2, <1>12, <1>15
  <2>1. key \in Key
    BY <1>13 DEF HasSafe
  <2>2. CASE tx.kind = "announce" /\ tx.account = key
    <3>1. awaited = tx /\ tx.port = AnnouncePort(id)
      BY <1>4, <1>5, <2>2 DEF Wanted
    <3>2. QED
      BY <1>1, <1>2, <2>1, <2>2, <3>1 DEF PoolTypes, ChainType
  <2>3. CASE ~(tx.kind = "announce" /\ tx.account = key)
    <3>1. chain'.port[key] = chain.port[key]
      BY <1>1, <1>2, <2>1, <2>3 DEF PoolTypes, ChainType
    <3>2. awaited # tx
      BY <1>4, <2>3 DEF Waits
    <3>3. QED
      BY <1>2, <1>15, <3>1, <3>2 DEF Awaiting, Calm
  <2>4. QED
    BY <2>2, <2>3
<1>21. UnderWay'
  BY <1>16, <1>18, <1>19, <1>20 DEF UnderWay
<1>22. NodeIds' = NodeIds
  BY <1>2 DEF NodeIds
<1>23. QED
  BY <1>1, <1>2, <1>11, <1>21, <1>22 DEF Started

LEMMA ElsewhereStarted ==
    ASSUME IInv, Elsewhere
    PROVE  Started'
<1>1. Typed /\ InHand /\ Traced /\ LocalTypes /\ PoolTypes /\ Started
  BY TypedParts DEF IInv
<1>2. /\ UNCHANGED <<run, opts, pc, id, key, safe, keystore, config, lost, members>>
      /\ chain' \in ChainType /\ chain.indexed \subseteq chain'.indexed
  BY <1>1, ElsewhereIs DEF disk, books, meshVars
<1>3. CASE \E n \in DOMAIN pool : Land(n)
  BY <1>3, LandStarted
<1>4. ASSUME UNCHANGED awaited,
             chain'.scoped = chain.scoped, chain'.bound = chain.bound,
             pc # "up" => chain'.port = chain.port,
             \A i \in NodeIds : pc = "up" /\ lost[keystore[i]] = 0 /\ chain.port[keystore[i]] = AnnouncePort(i) =>
                chain'.port[keystore[i]] = AnnouncePort(i),
             pc \in Steps => chain'.held = chain.held
      PROVE  Started'
  <2>1. pc = "up" \/ pc \in Steps \/ pc = "idle"
    BY <1>1 DEF LocalTypes
  <2>2. ASSUME NEW i \in Ids, Done(i)', pc \in Steps \cup {"up"}
        PROVE  Provisioned(i)'
    <3>1. Done(i) /\ i \in NodeIds
      BY <1>2, <2>2 DEF Done, NodeIds
    <3>2. Provisioned(i) /\ keystore[i] \in Key \cup {NoKey}
      BY <1>1, <2>2, <3>1 DEF Started, LocalTypes
    <3>3. \A s \in Safe : chain.held[s] >= chain.held[s]
      BY <1>1 DEF PoolTypes, ChainType
    <3>4. pc' # "up" => pc # "up" /\ \A s \in Safe : chain'.held[s] >= chain.held[s]
      BY <1>2, <1>4, <2>2, <3>3
    <3>5. lost[keystore[i]] = 0 /\ chain.port[keystore[i]] = AnnouncePort(i) => chain'.port[keystore[i]] = AnnouncePort(i)
      BY <1>4, <3>1
    <3>6. QED
      BY <1>1, <1>2, <1>4, <3>2, <3>4, <3>5, ProvisionedStays
  <2>3. UnderWay'
    <3>1. CASE pc \in HasSafe
      <4>1. UNCHANGED <<chain.scoped, chain.bound, chain.port, chain.held>>
        BY <1>4, <3>1 DEF HasSafe, Steps
      <4>2. /\ AnnouncePort(id)' = AnnouncePort(id) /\ FloatTarget(id)' = FloatTarget(id)
            /\ \A step : Awaiting(step)' = Awaiting(step)
        BY <1>2, <1>4 DEF AnnouncePort, AnnouncedBase, Relayed, FloatTarget, Awaiting, Calm
      <4>3. UnderWay
        BY <1>1 DEF Started
      <4>4. QED
        BY <1>2, <1>4, <4>1, <4>2, <4>3 DEF UnderWay
    <3>2. CASE pc \notin HasSafe
      BY <1>2, <3>2 DEF UnderWay, HasSafe
    <3>3. QED
      BY <3>1, <3>2
  <2>4. NodeIds' = NodeIds
    BY <1>2 DEF NodeIds
  <2>5. QED
    BY <1>1, <1>2, <2>2, <2>3, <2>4 DEF Started
<1>5. CASE \/ \E n \in DOMAIN pool : Forget(n)
           \/ \E s \in chain.safes : Index(s)
           \/ \E i \in Ids : Sweep(i)
  <2>1. UNCHANGED awaited /\ chain'.scoped = chain.scoped /\ chain'.bound = chain.bound /\ chain'.port = chain.port
        /\ (pc # "idle" => chain'.held = chain.held)
    BY <1>1, <1>5 DEF Forget, Index, Sweep, PoolTypes, ChainType
  <2>2. QED
    BY <1>4, <2>1 DEF Steps
<1>6. CASE \E i \in Ids : Spend(i)
  <2>1. UNCHANGED awaited /\ chain'.scoped = chain.scoped /\ chain'.bound = chain.bound /\ chain'.port = chain.port
        /\ pc = "up"
    BY <1>1, <1>6 DEF Spend, PoolTypes, ChainType
  <2>2. QED
    BY <1>4, <2>1 DEF Steps
<1>7. ASSUME NEW i \in Ids, NodeAnnounces(i)
      PROVE  Started'
  <2>1. /\ pc = "up" /\ i \in members /\ config[i].announce /\ UNCHANGED awaited
        /\ chain' = [chain EXCEPT !.port[keystore[i]] = opts.base + i]
    BY <1>7 DEF NodeAnnounces
  <2>2. i \in NodeIds /\ Done(i) /\ Provisioned(i)
    BY <1>1, <2>1 DEF Started, Done
  <2>3. AnnouncePort(i) = opts.base + i
    BY <2>1, <2>2 DEF Provisioned, AnnouncePort, AnnouncedBase
  <2>4. ASSUME NEW j \in NodeIds, chain.port[keystore[j]] = AnnouncePort(j)
        PROVE  chain'.port[keystore[j]] = AnnouncePort(j)
    <3>1. j \in Ids /\ Done(j)
      BY <1>1, <2>1, IdsAre DEF Done
    <3>2. Provisioned(j)
      BY <1>1, <2>1, <3>1 DEF Started
    <3>3. /\ keystore[i] \in Key /\ keystore[i][1] = i
          /\ keystore[j] \in Key /\ keystore[j][1] = j
      BY <1>1, <2>2, <3>1, <3>2 DEF Provisioned, InHand, LocalTypes
    <3>4. CASE j = i
      BY <1>1, <2>1, <2>3, <3>3, <3>4 DEF PoolTypes, ChainType
    <3>5. CASE j # i
      <4>1. keystore[j] # keystore[i]
        BY <3>3, <3>5
      <4>2. QED
        BY <1>1, <2>1, <2>4, <3>3, <4>1 DEF PoolTypes, ChainType
    <3>6. QED
      BY <3>4, <3>5
  <2>5. chain'.scoped = chain.scoped /\ chain'.bound = chain.bound
    BY <1>1, <2>1 DEF PoolTypes, ChainType
  <2>6. QED
    BY <1>4, <2>1, <2>4, <2>5 DEF Steps
<1>8. QED
  BY <1>3, <1>5, <1>6, <1>7 DEF Elsewhere

LEMMA StartedKept ==
    ASSUME IInv, Next
    PROVE  Started'
<1>1. Typed /\ InHand /\ Traced /\ LocalTypes /\ PoolTypes /\ Started /\ MeshInv
  BY TypedParts DEF IInv, MeshInv
<1>2. CASE End
  <2>1. pc' = "idle"
    BY <1>2 DEF End
  <2>2. QED
    BY <2>1 DEF Started, UnderWay, HasSafe, Steps
<1>3. CASE MeshStep
  <2>1. UNCHANGED <<run, opts, id, key, safe, keystore, config, chain, pool, awaited, lost>>
        /\ (pc' = pc \/ pc' = "idle") /\ members' = members
    BY <1>1, <1>3, MeshKept DEF MeshStep, disk, books
  <2>2. CASE pc' = "idle"
    BY <2>2 DEF Started, UnderWay, HasSafe, Steps
  <2>3. CASE pc' = pc
    <3>1. UnderWay'
      <4>1. /\ AnnouncePort(id)' = AnnouncePort(id) /\ FloatTarget(id)' = FloatTarget(id)
            /\ \A step : Awaiting(step)' = Awaiting(step)
        BY <2>1, <2>3 DEF AnnouncePort, AnnouncedBase, Relayed, FloatTarget, Awaiting, Calm
      <4>2. UnderWay
        BY <1>1 DEF Started
      <4>3. QED
        BY <2>1, <2>3, <4>1, <4>2 DEF UnderWay
    <3>2. ASSUME NEW i \in Ids, Done(i)', pc \in Steps \cup {"up"}
          PROVE  Provisioned(i)'
      <4>1. Done(i)
        BY <2>1, <2>3, <3>2 DEF Done, NodeIds
      <4>2. Provisioned(i)
        BY <1>1, <3>2, <4>1 DEF Started
      <4>3. QED
        BY <2>1, <2>3, <4>2 DEF Provisioned, PixOf, Relayed, Owned, AnnouncePort, AnnouncedBase, FloatTarget
    <3>3. NodeIds' = NodeIds
      BY <2>1 DEF NodeIds
    <3>4. QED
      BY <1>1, <2>1, <2>3, <3>1, <3>2, <3>3 DEF Started
  <2>4. QED
    BY <2>1, <2>2, <2>3
<1>4. ASSUME NEW o \in Settings, Begin(o)
      PROVE  Started'
  <2>1. opts' = o /\ pc' = "keys" /\ id' = 0 /\ (o.latency = NoLatency \/ Usable(o.latency)) /\ Readable(o.pix.file)
    BY <1>4 DEF Begin
  <2>2. \A i \in Ids : ~Done(i)'
    <3>1. Ids \subseteq Nat
      BY <1>1, IdsAre
    <3>2. QED
      BY <2>1, <3>1 DEF Done
  <2>3. UnderWay'
    BY <2>1 DEF UnderWay, HasSafe
  <2>4. QED
    BY <2>1, <2>2, <2>3 DEF Started
<1>5. QED
  BY <1>2, <1>3, <1>4, NextIs, SendingStarted, QuietStarted, ElsewhereStarted

-----------------------------------------------------------------------------
(* The invariant.                                                            *)

LEMMA InvInit ==
    ASSUME Init
    PROVE  IInv
<1>1. /\ run = 0 /\ opts \in Settings /\ pc = "idle" /\ id = 0 /\ key = NoKey /\ safe = NoSafe
      /\ keystore = [i \in Ids |-> NoKey] /\ config = [i \in Ids |-> NoConfig]
      /\ chain = Fresh /\ pool = << >> /\ awaited = NoTx
      /\ paid = [k \in Key |-> 0] /\ lost = [k \in Key |-> 0]
      /\ aside = NewChain /\ displaced = {}
  BY DEF Init
<1>2. Pending = {}
  BY <1>1 DEF Pending, TxsOf
<1>3. MeshInv /\ PhaseFits
  BY <1>1 DEF Init, MeshInit, MeshInv, MeshTypeOK, MeshSound, MeshOkMeansOpen, NoCall, PhaseFits, Managements, Pairs
<1>4. LocalTypes
  <2>1. 0 \in Ids /\ 0 \in 0 .. Runs
    BY Numbers DEF Ids
  <2>2. \A i \in Ids : ConfigFits(config[i])
    BY <1>1 DEF ConfigFits
  <2>3. QED
    BY <1>1, <2>1, <2>2 DEF LocalTypes
<1>5. PoolTypes
  <2>1. << >> \in Seq(Tx) /\ Distinct(<< >>)
    BY DEF Distinct
  <2>2. QED
    BY <1>1, <2>1, FreshIs DEF PoolTypes
<1>6. Typed
  BY <1>3, <1>4, <1>5, TypedParts DEF MeshInv
<1>7. InHand
  BY <1>1 DEF InHand, Steps, HasSafe
<1>8. Traced
  BY <1>1, <1>2 DEF Traced
<1>9. Funded
  <2>1. \A k \in Key : ~HasFunds(k)
    BY <1>1, <1>2, FundsAre DEF Fresh
  <2>2. \A k \in Key : ~AsideFunds(k)
    BY <1>1 DEF AsideFunds, Funds, NewChain, Fresh
  <2>3. QED
    BY <1>1, <2>1, <2>2, KeysBeforeFundsIs DEF Funded, Steps
<1>10. OneSafe
  <2>1. \A k : Deployed(k) = {}
    BY <1>1, <1>2 DEF Deployed, Fresh
  <2>2. \A k \in Key : chain.bound[k] = NoSafe
    BY <1>1 DEF Fresh
  <2>3. QED
    BY <2>1, <2>2 DEF OneSafe
<1>11. Covered
  <2> SUFFICES ASSUME NEW k \in Key
               PROVE  Balanced(k) /\ paid[k] <= Stake * (1 + lost[k])
    BY DEF Covered, PaidOnce
  <2>1. Stale(k) = {} /\ Coming(k) = 0 /\ chain.token[k] = 0 /\ paid[k] = 0 /\ lost[k] = 0 /\ Stake \in Nat
        /\ Owned(k) = {}
    BY <1>1, <1>2, Numbers DEF Stale, Coming, Fresh, Owned
  <2>2. Cardinality(Stale(k)) = 0
    BY <2>1, FS_EmptySet
  <2>3. ~Secured(k)
    BY <1>1, <2>1, SecuredIs
  <2>4. Stake * 0 = 0 /\ Stake * (1 + 0) = Stake
    BY <2>1
  <2>5. Assets(k) = 0
    BY <2>1, <2>3 DEF Assets
  <2>6. Balanced(k)
    BY <2>1, <2>2, <2>4, <2>5 DEF Balanced
  <2>7. QED
    BY <2>1, <2>4, <2>6
<1>12. Started
  BY <1>1 DEF Started, UnderWay, HasSafe, Steps
<1>13. Rested
  BY <1>1, NewRests DEF Rested
<1>14. QED
  BY <1>3, <1>6, <1>7, <1>8, <1>9, <1>10, <1>11, <1>12, <1>13 DEF IInv, MeshInv

LEMMA InvStutters ==
    ASSUME IInv, UNCHANGED vars
    PROVE  IInv'
<1>1. UNCHANGED <<run, opts, pc, id, key, safe, keystore, config, chain, pool, awaited, paid, lost,
                  aside, displaced, meshVars>>
  BY DEF vars
<1>2. UNCHANGED <<phase, members, managed, todo, missing, asked, late, channels, opening>>
  BY <1>1 DEF meshVars
<1>3. Typed'
  BY <1>1, <1>2 DEF IInv, Typed, TypeOK, MeshTypeOK, Distinct
<1>4. InHand'
  BY <1>1 DEF IInv, InHand, IsExtra, NodeIds, LastId, Owned
<1>5. Traced'
  BY <1>1 DEF IInv, Traced, Formed, Wanted, Pending, AnnouncePort, AnnouncedBase, Relayed
<1>6. Funded'
  BY <1>1 DEF IInv, Funded, KeysBeforeFunds, HasFunds, Funds, Recoverable
<1>7. OneSafe'
  BY <1>1 DEF IInv, OneSafe, Deployed, Owned, Pending
<1>8. Covered'
  BY <1>1 DEF IInv, Covered, PaidOnce, Balanced, Assets, Coming, Secured, Stale, Pending, Owned, Calm
<1>9. Started'
  BY <1>1, <1>2 DEF IInv, Started, UnderWay, Done, Provisioned, PixOf, Relayed, Owned, AnnouncePort, AnnouncedBase,
                    FloatTarget, Awaiting, Calm, NodeIds
<1>10. MeshSound'
  BY <1>2 DEF IInv, MeshSound, MeshOkMeansOpen
<1>11. Rested'
  BY <1>1 DEF IInv, Rested
<1>12. QED
  BY <1>3, <1>4, <1>5, <1>6, <1>7, <1>8, <1>9, <1>10, <1>11 DEF IInv

\* identity.rs `generate`, main() and sweep.rs, whatever the settings and however
\* many runs: what the directory, the chain and the transactions under way know
\* of an identity fits together in every state.
THEOREM Invariant == Spec => []IInv
<1>1. IInv /\ [Next]_vars => IInv'
  <2> SUFFICES ASSUME IInv, [Next]_vars PROVE IInv'
    OBVIOUS
  <2>1. CASE Next
    BY <2>1, TypedKept, InHandKept, TracedKept, FundedKept, OneSafeKept, CoveredKept, StartedKept,
       RestedKept DEF IInv
  <2>2. CASE UNCHANGED vars
    BY <2>2, InvStutters
  <2>3. QED
    BY <2>1, <2>2
<1>2. QED
  BY <1>1, InvInit, PTL DEF Spec

-----------------------------------------------------------------------------
(* What follows.                                                             *)

\* open_full_mesh_channels and the wait for channels (client_helper.rs:611-723):
\* whatever calls fail, are cut off or are answered late, a pass that ends well
\* and a cluster that is said to run have a channel for every pair of nodes.
THEOREM FullMesh == Spec => []MeshOkMeansOpen
<1>1. IInv => MeshOkMeansOpen
  BY DEF IInv, MeshSound
<1>2. QED
  BY <1>1, Invariant, PTL

\* node_keys and extra_identity (identity.rs:556-558, 724-741): however often a
\* bring-up is cut short, the keys of every account with funds, or with a payment
\* on its way, can be read back from the directory or are in the program, on the
\* chain in use and on an external one left for managed chains; unless a run on
\* one of these has written others over them.
THEOREM KeysSaved == Spec => []KeysBeforeFunds
<1>1. IInv => KeysBeforeFunds
  BY DEF IInv, Funded
<1>2. QED
  BY <1>1, Invariant, PTL

\* provision_safe (identity.rs:1058-1119): after any number of runs an account has
\* been sent no more than a stake, and another for every transaction given up on,
\* and without one of those it has a single Safe.
THEOREM PaidForOnce == Spec => []ProvisionedOnce
<1>1. IInv => ProvisionedOnce
  <2> SUFFICES ASSUME IInv PROVE ProvisionedOnce
    OBVIOUS
  <2>1. PaidOnce
    BY DEF IInv, Covered
  <2>2. OneSafePerAccount
    <3> SUFFICES ASSUME NEW k \in Key, lost[k] = 0, NEW s \in chain.safes, NEW t \in chain.safes, s[1] = k, t[1] = k
                 PROVE  s = t
      BY DEF OneSafePerAccount
    <3>1. s \in Deployed(k) /\ t \in Deployed(k)
      BY DEF Deployed
    <3>2. QED
      BY <3>1 DEF IInv, OneSafe
  <2>3. QED
    BY <2>1, <2>2 DEF ProvisionedOnce
<1>2. QED
  BY <1>1, Invariant, PTL

\* provision_node and start_nodes (identity.rs:743-895, 1138-1260): a node that is
\* started runs with the key its config was made for, is bound to the one Safe the
\* config names, granted, announced where its peers dial, and has its PIX float.
THEOREM NodesAsProvisioned == Spec => []StartedAsProvisioned
<1>1. IInv => StartedAsProvisioned
  <2> SUFFICES ASSUME IInv PROVE StartedAsProvisioned
    OBVIOUS
  <2>1. Typed /\ InHand /\ Traced /\ Started /\ OneSafe /\ LocalTypes /\ PoolTypes /\ TypeOK
    BY TypedParts DEF IInv, Typed
  <2>2. FloatOnTopOfStake
    <3> SUFFICES ASSUME pc = "start", opts.pix.on, NEW i \in opts.floats \cap NodeIds
                 PROVE  chain.held[config[i].safe] >= Stake + Float
      BY DEF FloatOnTopOfStake
    <3>1. i \in Ids /\ Done(i)
      BY <2>1, IdsAre DEF Done
    <3>2. Provisioned(i)
      BY <2>1, <3>1 DEF Started, Steps
    <3>3. chain.held[config[i].safe] >= FloatTarget(i)
      BY <3>2 DEF Provisioned
    <3>4. QED
      BY <3>3 DEF FloatTarget
  <2>3. ASSUME pc = "up", NEW i \in members
        PROVE  LET k == keystore[i] IN
               /\ config[i].keys = k
               /\ lost[k] = 0 =>
                    /\ chain.bound[k] = config[i].safe
                    /\ opts.grant => config[i].safe \in chain.scoped
                    /\ chain.port[k] = i + (IF Relayed THEN opts.relayBase ELSE opts.base)
    <3> DEFINE k == keystore[i]
    <3>1. i \in NodeIds /\ i \in Ids /\ Done(i) /\ i \in Nat
      BY <2>1, <2>3, IdsAre DEF Started, Done
    <3>2. Provisioned(i)
      BY <2>1, <2>3, <3>1 DEF Started
    <3>3. /\ k \in Key /\ config[i].keys = k /\ config[i].safe \in Owned(k) /\ chain.bound[k] # NoSafe
          /\ opts.grant => config[i].safe \in chain.scoped
          /\ lost[k] = 0 => chain.port[k] = AnnouncePort(i)
      BY <2>1, <3>1, <3>2 DEF Provisioned, LocalTypes
    <3> HIDE DEF k
    <3>4. config[i].safe \in Deployed(k) /\ chain.bound[k] \in Deployed(k)
      BY <2>1, <3>3 DEF OneSafe, Deployed, Owned, PoolTypes
    <3>5. lost[k] = 0 => chain.bound[k] = config[i].safe
      BY <2>1, <3>3, <3>4 DEF OneSafe
    <3>6. AnnouncePort(i) = i + (IF Relayed THEN opts.relayBase ELSE opts.base)
      <4>1. opts.relayBase \in Nat /\ opts.base \in Nat
        BY <2>1, IdsAre, Numbers
      <4>2. QED
        BY <3>1, <4>1 DEF AnnouncePort, AnnouncedBase
    <3>7. QED
      BY <3>3, <3>5, <3>6 DEF k
  <2>4. QED
    BY <2>1, <2>2, <2>3 DEF StartedAsProvisioned
<1>2. QED
  BY <1>1, Invariant, PTL

LEMMA DemoServed == ASSUME NEW file, DOMAIN file = {} PROVE Served(Merged(file))
<1> DEFINE set == Merged(file)
           quota == QuotaPerSsa(set)
           window == set.quotaMin .. set.quotaMax
<1>1. \A field \in DOMAIN Demo : set[field] = Demo[field]
  BY DEF Merged
<1>2. /\ Demo.parts = 8 /\ Demo.size = 2 /\ Demo.extra = 2 /\ Demo.quotaMin = 0 /\ Demo.quotaMax = 1024 * 1024
      /\ Demo.batch = 1 /\ Demo.cap = 2 /\ Demo.price = 715 /\ Demo.allocation = 100000000
  BY SMT DEF Demo
<1>3. Demo.dynamic = TRUE
  BY SMT DEF Demo
<1>4. {"parts", "size", "extra", "quotaMin", "quotaMax", "batch", "cap", "dynamic", "price", "allocation"}
        \subseteq DOMAIN Demo
  BY SMT DEF Demo
<1>5. /\ set.parts = 8 /\ set.size = 2 /\ set.extra = 2 /\ set.quotaMin = 0 /\ set.quotaMax = 1024 * 1024
      /\ set.batch = 1 /\ set.cap = 2 /\ set.price = 715 /\ set.allocation = 100000000
  BY SMT, <1>1, <1>2, <1>4
<1>6. set.dynamic
  <2>1. set.dynamic = Demo.dynamic
    BY SMT, <1>1, <1>4
  <2>2. QED
    BY Zenon, <1>3, <2>1
<1> HIDE DEF set
<1>7. quota = 46464
  BY SMT, <1>5 DEF QuotaPerSsa, BytesPerShare
<1> HIDE DEF quota
<1>8. Clamped(set.batch) = 1 /\ Clamped(set.cap) = 2
  BY SMT, <1>5 DEF Clamped, MaxBatch
<1>9. 1 * quota \in window
  <2>1. 1 * quota = quota /\ quota \in Int /\ 0 <= quota /\ quota <= 1024 * 1024 /\ 1024 * 1024 \in Int
    BY SMT, <1>7
  <2>2. set.quotaMin <= quota /\ quota <= set.quotaMax /\ set.quotaMin \in Int /\ set.quotaMax \in Int
    BY SMT, <1>5, <2>1
  <2>3. quota \in window
    BY SMT, <2>1, <2>2
  <2>4. QED
    BY <2>1, <2>3
<1> HIDE DEF window
<1>10. set.price * quota <= set.allocation
  <2>1. 715 * quota <= 100000000
    BY SMT, <1>7
  <2>2. QED
    BY SMT, <1>5, <2>1
<1>11. \E n \in 1 .. Clamped(set.batch) : n <= Clamped(set.cap) /\ n * quota \in window
  <2>1. 1 \in 1 .. Clamped(set.batch) /\ 1 <= Clamped(set.cap)
    BY SMT, <1>8
  <2>2. QED
    BY <1>9, <2>1
<1>12. QED
  BY <1>6, <1>10, <1>11 DEF Served, set, quota, window

LEMMA ClampedIs == ASSUME NEW n \in Nat PROVE Clamped(n) \in 1 .. MaxBatch
BY DEF Clamped, MaxBatch

\* Any fitting batch has a least one below it.
LEMMA LeastOf ==
    ASSUME NEW S \in SUBSET (1 .. MaxBatch), NEW n \in S
    PROVE  \E least \in S : least <= n /\ \A m \in S : least <= m
<1>1. S \subseteq 1 .. 9
  BY DEF MaxBatch
<1>2. PICK least \in {1, 2, 3, 4, 5, 6, 7, 8, 9} : least \in S /\ \A m \in {1, 2, 3, 4, 5, 6, 7, 8, 9} : m < least => m \notin S
  BY <1>1
<1>3. QED
  BY <1>1, <1>2

\* What is read from a file, or left at the default.
LEMMA MergedTypes ==
    ASSUME NEW o \in Settings, Readable(o.pix.file)
    PROVE  LET set == Merged(o.pix.file) IN
           set.batch \in Nat /\ set.cap \in Nat /\ set.dynamic \in BOOLEAN /\ QuotaPerSsa(set) \in Nat
<1> DEFINE file == o.pix.file
           set == Merged(file)
<1>1. \A field \in DOMAIN Demo : set[field] = IF field \in DOMAIN file THEN file[field] ELSE Demo[field]
  BY DEF Merged
<1>2. {"parts", "size", "extra", "batch", "cap", "dynamic"} \subseteq DOMAIN Demo
  BY SMT DEF Demo
<1>3. Demo.parts \in Nat /\ Demo.size \in Nat /\ Demo.extra \in Nat /\ Demo.batch \in Nat /\ Demo.cap \in Nat
  BY SMT DEF Demo
<1>4. Demo.dynamic \in BOOLEAN
  BY SMT DEF Demo
<1>5. \A field \in {"parts", "size", "extra", "batch", "cap"} : field \in DOMAIN file => file[field] \in Nat
  BY PixNumbers
<1>6. "dynamic" \in DOMAIN file => file.dynamic \in BOOLEAN
  BY PixNumbers
<1>7. set.parts \in Nat /\ set.size \in Nat /\ set.extra \in Nat /\ set.batch \in Nat /\ set.cap \in Nat
  BY <1>1, <1>2, <1>3, <1>5
<1>8. set.dynamic \in BOOLEAN
  BY <1>1, <1>2, <1>4, <1>6
<1> HIDE DEF set
<1>9. QuotaPerSsa(set) \in Nat
  BY <1>7 DEF QuotaPerSsa, BytesPerShare
<1>10. QED
  BY <1>7, <1>8, <1>9 DEF set

\* What an Exit configured by the settings asks for.
LEMMA AsksWhat ==
    ASSUME NEW set, NEW in, NEW quota \in Nat, set.batch \in Nat, set.cap \in Nat, set.dynamic \in BOOLEAN,
           in.quotaMin = set.quotaMin, in.quotaMax = set.quotaMax, in.batch = set.batch, in.dynamic = set.dynamic
    PROVE  LET window == set.quotaMin .. set.quotaMax IN
           /\ (\E n \in Asks(in, quota) : n <= Clamped(set.cap)) <=>
                IF set.dynamic
                THEN \E n \in 1 .. Clamped(set.batch) : n <= Clamped(set.cap) /\ n * quota \in window
                ELSE Clamped(set.batch) <= Clamped(set.cap) /\ quota \in window
           /\ set.dynamic /\ quota \in window => Asks(in, quota) = {1}
           /\ ~set.dynamic => Asks(in, quota) \subseteq {Clamped(set.batch)}
<1> DEFINE window == set.quotaMin .. set.quotaMax
           b == Clamped(set.batch)
           cap == Clamped(set.cap)
           F == {n \in 1 .. b : n * quota \in window}
<1>1. b \in 1 .. MaxBatch /\ cap \in 1 .. MaxBatch
  BY ClampedIs
<1>2. F = Fits(in, quota)
  BY DEF Fits
<1>3. Asks(in, quota) = IF set.dynamic THEN {n \in F : \A m \in F : n <= m} ELSE {n \in {b} : quota \in window}
  BY <1>2 DEF Asks
<1>4. \A n \in F : n \in 1 .. b /\ n * quota \in window
  OBVIOUS
<1>5. \A n \in 1 .. b : n * quota \in window => n \in F
  OBVIOUS
<1>6. F \subseteq 1 .. MaxBatch
  BY <1>1, <1>4 DEF MaxBatch
<1>7. quota \in window => 1 \in F
  <2>1. 1 * quota = quota /\ 1 \in 1 .. b
    BY <1>1 DEF MaxBatch
  <2>2. QED
    BY <1>5, <2>1
<1> HIDE DEF F, window, b, cap
<1>8. CASE set.dynamic
  <2>1. Asks(in, quota) = {n \in F : \A m \in F : n <= m}
    BY <1>3, <1>8
  <2>2. ASSUME NEW n \in 1 .. b, n <= cap, n * quota \in window
        PROVE  \E l \in Asks(in, quota) : l <= cap
    <3>1. PICK l \in F : l <= n /\ \A m \in F : l <= m
      BY <1>5, <1>6, <2>2, LeastOf
    <3>2. l \in Asks(in, quota) /\ l <= cap
      BY <1>1, <1>6, <2>1, <2>2, <3>1 DEF MaxBatch
    <3>3. QED
      BY <3>2
  <2>3. ASSUME NEW l \in Asks(in, quota), l <= cap
        PROVE  \E n \in 1 .. b : n <= cap /\ n * quota \in window
    BY <1>4, <2>1, <2>3
  <2>4. quota \in window => Asks(in, quota) = {1}
    <3> SUFFICES ASSUME quota \in window
                 PROVE  Asks(in, quota) = {1}
      OBVIOUS
    <3>1. 1 \in F /\ \A m \in F : m \in Nat /\ 1 <= m
      BY <1>6, <1>7 DEF MaxBatch
    <3>2. 1 \in Asks(in, quota)
      BY <2>1, <3>1
    <3>3. \A n \in Asks(in, quota) : n = 1
      BY <2>1, <3>1
    <3>4. QED
      BY <3>2, <3>3
  <2>5. QED
    BY <1>8, <2>2, <2>3, <2>4 DEF window, b, cap
<1>9. CASE ~set.dynamic
  <2>1. Asks(in, quota) = {n \in {b} : quota \in window}
    BY <1>3, <1>9
  <2>2. (\E n \in Asks(in, quota) : n <= cap) <=> (b <= cap /\ quota \in window)
    BY <2>1
  <2>3. Asks(in, quota) \subseteq {b}
    BY <2>1
  <2>4. QED
    BY <1>9, <2>2, <2>3 DEF window, b, cap
<1>10. QED
  BY <1>8, <1>9

\* pix_global_config, incoming_pix_config and the Pix stanza (identity.rs:150-176,
\* 278-294, 417-546): every pair of started nodes is served and paid for exactly
\* when the settings allow it, which the demo's do, and the batch an Exit asks
\* for is the one the settings mean.
THEOREM PixOnBothEnds == Spec => []PixHalvesAgree
<1>1. IInv => PixHalvesAgree
  <2> SUFFICES ASSUME IInv, pc = "up", opts.pix.on
               PROVE  LET set == Merged(opts.pix.file)  quota == QuotaPerSsa(set) IN
                      /\ DOMAIN opts.pix.file = {} => Served(set)
                      /\ \A e, x \in members : LET batch == Asks(config[x].pix.incoming, Emitted(config[e].pix.global)) IN
                           /\ Serves(config[e].pix, config[x].pix) <=> Served(set)
                           /\ set.dynamic /\ quota \in set.quotaMin .. set.quotaMax => batch = {1}
                           /\ ~set.dynamic => batch \subseteq {Clamped(set.batch)}
    BY DEF PixHalvesAgree
  <2> DEFINE set == Merged(opts.pix.file)
             quota == QuotaPerSsa(set)
  <2>1. Typed /\ InHand /\ Started
    BY DEF IInv
  <2>2. ASSUME NEW i \in members
        PROVE  config[i].pix = PixConfig(set, i)
    <3>1. i \in Ids /\ Done(i)
      BY <2>1, <2>2, IdsAre DEF Started, Done
    <3>2. Provisioned(i)
      BY <2>1, <3>1 DEF Started
    <3>3. QED
      BY <3>2 DEF Provisioned, PixOf
  <2>3. set.batch \in Nat /\ set.cap \in Nat /\ set.dynamic \in BOOLEAN /\ quota \in Nat
    <3>1. opts \in Settings /\ Readable(opts.pix.file)
      BY <2>1 DEF Typed, TypeOK, Started
    <3>2. QED
      BY <3>1, MergedTypes
  <2>4. DOMAIN opts.pix.file = {} => Served(set)
    BY DemoServed DEF set
  <2> HIDE DEF set
  <2>5. ASSUME NEW e \in members, NEW x \in members
        PROVE  LET batch == Asks(config[x].pix.incoming, Emitted(config[e].pix.global)) IN
               /\ Serves(config[e].pix, config[x].pix) <=> Served(set)
               /\ set.dynamic /\ quota \in set.quotaMin .. set.quotaMax => batch = {1}
               /\ ~set.dynamic => batch \subseteq {Clamped(set.batch)}
    <3> DEFINE entry == config[e].pix
               in == config[x].pix.incoming
    <3>1. ASSUME NEW i \in members
          PROVE  /\ config[i].pix.global = PixGlobal(set) /\ config[i].pix.incoming = IncomingPix(set, i)
                 /\ config[i].pix.stanza = PixStanza(set)
      <4>1. config[i].pix = [global |-> PixGlobal(set), incoming |-> IncomingPix(set, i), stanza |-> PixStanza(set)]
        BY <2>2, <3>1 DEF PixConfig
      <4>2. QED
        BY <4>1
    <3>2. entry.global.parts = set.parts /\ entry.global.size = set.size /\ entry.global.extra = set.extra
          /\ entry.global.cap = set.cap
      BY <3>1 DEF PixGlobal
    <3>3. entry.stanza.price = set.price /\ entry.stanza.allocation = set.allocation
      BY <3>1 DEF PixStanza
    <3>4. Emitted(entry.global) = quota
      BY <3>2 DEF Emitted, QuotaPerSsa
    <3>5. in.quotaMin = set.quotaMin /\ in.quotaMax = set.quotaMax /\ in.batch = set.batch /\ in.dynamic = set.dynamic
      <4> DEFINE b == x \in set.enforce
                 d == set.dynamic
      <4>1. in = [enforce |-> b, quotaMin |-> set.quotaMin, quotaMax |-> set.quotaMax, batch |-> set.batch,
                  dynamic |-> d]
        BY <3>1 DEF IncomingPix
      <4> HIDE DEF b, d, in
      <4>2. in.quotaMin = set.quotaMin /\ in.quotaMax = set.quotaMax /\ in.batch = set.batch /\ in.dynamic = d
        BY <4>1
      <4>3. QED
        BY <4>2 DEF in, d
    <3> HIDE DEF entry, in, quota
    <3> DEFINE window == set.quotaMin .. set.quotaMax
    <3>6. /\ (\E n \in Asks(in, quota) : n <= Clamped(set.cap)) <=>
                IF set.dynamic
                THEN \E n \in 1 .. Clamped(set.batch) : n <= Clamped(set.cap) /\ n * quota \in window
                ELSE Clamped(set.batch) <= Clamped(set.cap) /\ quota \in window
          /\ set.dynamic /\ quota \in window => Asks(in, quota) = {1}
          /\ ~set.dynamic => Asks(in, quota) \subseteq {Clamped(set.batch)}
      BY <2>3, <3>5, AsksWhat
    <3> DEFINE agreed == \E n \in Asks(in, quota) : n <= Clamped(set.cap)
               may == IF set.dynamic
                      THEN \E n \in 1 .. Clamped(set.batch) : n <= Clamped(set.cap) /\ n * quota \in window
                      ELSE Clamped(set.batch) <= Clamped(set.cap) /\ quota \in window
    <3>7. Serves(entry, config[x].pix) <=> agreed /\ set.price * quota <= set.allocation
      BY <3>2, <3>3, <3>4 DEF Serves, in
    <3>8. Served(set) <=> may /\ set.price * quota <= set.allocation
      BY DEF Served, quota
    <3>9. agreed <=> may
      BY <3>6
    <3> HIDE DEF agreed, may
    <3>10. Serves(entry, config[x].pix) <=> Served(set)
      BY <3>7, <3>8, <3>9
    <3>11. QED
      BY <3>4, <3>6, <3>10 DEF entry, in
  <2>6. QED
    BY <2>4, <2>5 DEF set
<1>2. QED
  BY <1>1, Invariant, PTL

LEMMA ResolveIs ==
    ASSUME NEW raw, NEW s, NEW d
    PROVE  Resolve(raw, s, d) = Unshaped \/ \E e \in Entries(raw) : Resolve(raw, s, d) = Parse(e)
<1> DEFINE link == LinkEntry(raw.links, s, d)
           node == NodeEntry(raw.nodes, d)
<1>1. link \subseteq Entries(raw) /\ node \subseteq Entries(raw) /\ raw.default \subseteq Entries(raw)
  BY DEF LinkEntry, NodeEntry, Entries
<1>2. Resolve(raw, s, d) \in {ParsedOrNot(link), ParsedOrNot(node), ParsedOrNot(raw.default)}
  BY DEF Resolve
<1> HIDE DEF link, node
<1>3. ASSUME NEW es \in SUBSET Entries(raw)
      PROVE  ParsedOrNot(es) = Unshaped \/ \E e \in Entries(raw) : ParsedOrNot(es) = Parse(e)
  <2>1. CASE es = {}
    BY <2>1 DEF ParsedOrNot
  <2>2. CASE es # {}
    <3>1. (CHOOSE e \in es : TRUE) \in es
      BY <2>2
    <3>2. QED
      BY <2>2, <3>1 DEF ParsedOrNot
  <2>3. QED
    BY <2>1, <2>2
<1>4. QED
  BY <1>1, <1>2, <1>3

LEMMA ParseSamples ==
    ASSUME NEW e \in Expression, Parse(e) # Bad, e.a <= LongestDelay, e.b <= LongestDelay,
           e.form = "jitter" => e.a + e.b <= LongestDelay
    PROVE  Sample(Parse(e)) # {} /\ Sample(Parse(e)) \subseteq 0 .. LongestDelay
<1>1. e.a \in Nat /\ e.b \in Nat /\ LongestDelay \in Nat /\ e.form \in {"fixed", "jitter", "uniform", "normal"}
  BY LongestDelayNat DEF Expression
<1> DEFINE dist == Parse(e)
<1>2. \/ dist.kind \in {"fixed", "normal"} /\ dist.a = e.a /\ dist.b \in Nat
      \/ /\ dist.kind = "uniform" /\ dist.a \in Nat /\ dist.b \in Nat
         /\ dist.a <= LongestDelay /\ dist.b <= LongestDelay
  <2>1. CASE e.form = "fixed"
    BY <1>1, <2>1 DEF Parse
  <2>2. CASE e.form = "jitter"
    BY <1>1, <2>2 DEF Parse, Minus
  <2>3. CASE e.form = "uniform"
    BY <1>1, <2>3 DEF Parse
  <2>4. CASE e.form = "normal"
    BY <1>1, <2>4 DEF Parse
  <2>5. QED
    BY <1>1, <2>1, <2>2, <2>3, <2>4
<1> HIDE DEF dist
<1>3. CASE dist.kind = "fixed"
  BY <1>1, <1>2, <1>3 DEF Sample, dist
<1>4. CASE dist.kind = "normal"
  BY <1>1, <1>2, <1>4 DEF Sample, dist
<1>5. CASE dist.kind = "uniform"
  BY <1>1, <1>2, <1>5 DEF Sample, dist
<1>6. QED
  BY <1>2, <1>3, <1>4, <1>5

\* The relay's DelayDist and the summary's describe_inbound (latency.rs:37-122,
\* 204-211): every link of a running cluster can draw its delays, and every node
\* is described by what its relay does.
THEOREM RelaysAsDescribed == Spec => []DelayedAsDescribed
<1>1. IInv => DelayedAsDescribed
  <2> SUFFICES ASSUME IInv, pc = "up"
               PROVE  DelayedAsDescribed
    BY DEF DelayedAsDescribed, DelaysDrawable
  <2> DEFINE raw == opts.latency
  <2>1. Typed /\ InHand /\ Started /\ members = NodeIds /\ NodeIds = 0 .. opts.size - 1 /\ opts \in Settings
    BY IdsAre DEF IInv, Started
  <2>2. raw = NoLatency \/ Usable(raw)
    BY <2>1 DEF Started
  <2>3. Sample(Unshaped) = {0}
    BY DEF Sample, Unshaped
  <2>4. ASSUME NEW s, NEW d
        PROVE  LET delays == Sample(Resolve(raw, s, d)) IN delays # {} /\ delays \subseteq 0 .. LongestDelay
    <3>1. CASE Resolve(raw, s, d) = Unshaped
      BY <2>3, <3>1, LongestDelayNat
    <3>2. CASE Resolve(raw, s, d) # Unshaped
      <4>1. PICK e \in Entries(raw) : Resolve(raw, s, d) = Parse(e)
        BY <3>2, ResolveIs
      <4>2. Entries(NoLatency) = {}
        BY DEF Entries, NoLatency
      <4>3. Parse(e) # Bad
        BY <2>2, <4>1, <4>2 DEF Usable
      <4>4. /\ e \in Expression /\ e.a <= LongestDelay /\ e.b <= LongestDelay
            /\ e.form = "jitter" => e.a + e.b <= LongestDelay
        BY <2>1, <4>1, DelaysInRange
      <4>5. QED
        BY <4>1, <4>3, <4>4, ParseSamples
    <3>3. QED
      BY <3>1, <3>2
  <2>5. ASSUME NEW d \in members, NEW s \in members \ {d}, Sample(Resolve(raw, s, d)) # {0}
        PROVE  LET said == DescribeInbound(raw, d, opts.size) IN
               Sample(Resolve(raw, s, d)) = Sample(IF said.kind = "one" THEN said.dist ELSE said.sources[s])
    <3> DEFINE sources == PerSource(raw, d, opts.size)
               said == Describe(sources)
    <3>1. s \in DOMAIN sources /\ sources[s] = Resolve(raw, s, d)
      <4>1. s \in Shaped(raw, d, opts.size)
        BY <2>1, <2>3, <2>5 DEF Shaped
      <4>2. QED
        BY <4>1 DEF PerSource
    <3> HIDE DEF sources
    <3>2. CASE \A t \in DOMAIN sources : sources[t] = First(sources)
      <4>1. said = Says("one", First(sources), sources)
        BY <3>1, <3>2 DEF Describe
      <4>2. said.kind = "one" /\ said.dist = First(sources)
        BY <4>1 DEF Says
      <4>3. QED
        BY <3>1, <3>2, <4>2 DEF DescribeInbound, sources
    <3>3. CASE ~ \A t \in DOMAIN sources : sources[t] = First(sources)
      <4>1. said = Says("each", Unshaped, sources)
        BY <3>1, <3>3 DEF Describe
      <4>2. said.kind = "each" /\ said.sources = sources
        BY <4>1 DEF Says
      <4>3. QED
        BY <3>1, <4>2 DEF DescribeInbound, sources
    <3>4. QED
      BY <3>2, <3>3
  <2>6. QED
    BY <2>4, <2>5 DEF DelayedAsDescribed, DelaysDrawable
<1>2. QED
  BY <1>1, Invariant, PTL

=============================================================================
