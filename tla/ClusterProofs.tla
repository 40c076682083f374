--------------------------- MODULE ClusterProofs ---------------------------
(***************************************************************************)
(* What the two locks of a cluster run guarantee, for any number of runs,  *)
(* directories, control bases and nodes, and whether or not runs are       *)
(* killed: one run per data directory, a control socket that is the live   *)
(* run's, and node directories free of the state of another chain.         *)
(*                                                                         *)
(* The first inductive invariant says which locks a run has at each of its *)
(* steps.  Everything else follows from them: what a run reads or writes   *)
(* under a lock no other run touches.  The second, Tidy, says which nodes, *)
(* processes and container a run has at each step: hence what it leaves,   *)
(* and whose nodes answer it.                                              *)
(***************************************************************************)
EXTENDS Cluster, TLAPS

\* The state the argument is about.
core == <<pc, args, holder, refused, sock, next, db>>

Shape ==
    /\ pc \in [Run -> Labels]
    /\ ctl \in [Run -> LockFile \union {None}]
    /\ dir \in [Run -> Dirs \union {None}]
    /\ \A r \in Run : pc[r] # "new" => ctl[r] \in LockFile /\ dir[r] \in Dirs
    /\ size \in [Run -> 1 .. MaxNodes]
    /\ base \in [Run -> Nat]
    /\ managed \in [Run -> BOOLEAN]
    /\ holder \in [LockFile -> Run \union {None}]
    /\ refused \in [Run -> LockFile \union {None}]
    /\ sock \in [LockFile -> Run \union {None}]
    /\ next \in [Run -> Node]
    /\ db \in [Dirs -> [Node -> Run \union {None, External}]]

\* Steps at which a run has its control lock, rejected for the data lock or not.
HasControl == Labels \ {"new", "lock control", "read pid", "off"}

LocksOf(r) ==
    /\ pc[r] \in HasControl => holder[ctl[r]] = r
    /\ pc[r] = "read pid" /\ refused[r] # ctl[r] => holder[ctl[r]] = r
    /\ pc[r] \in Owning => holder[dir[r]] = r

Locks == \A r \in Run : LocksOf(r)

\* Before the loop over the node directories, and after it.
Early == {"new", "lock control", "write control pid", "lock data", "write data pid", "read pid",
          "bind socket", "start chain"}

Cleared == {"generate", "spawn", "started", "ready", "mesh", "running"}

Fresh ==
    \A r \in Run :
        /\ pc[r] \in Early => next[r] = 0
        /\ managed[r] /\ pc[r] = "clear state" =>
             \A n \in Node : n < next[r] => db[dir[r]][n] \in {None, r}
        /\ managed[r] /\ pc[r] \in Cleared =>
             \A n \in Node : db[dir[r]][n] \in {None, r}

IInv == Shape /\ Locks /\ StatusIsLive /\ Fresh

-----------------------------------------------------------------------------
\* A step of run r that matters to none of this: only its pc moves, and to a
\* step at which it has the same locks.
Quiet(r) ==
    /\ UNCHANGED <<args, holder, refused, sock, next, db>>
    /\ \E l \in Labels :
        /\ pc' = [pc EXCEPT ![r] = l]
        /\ l \notin {"new", "read pid"} /\ pc[r] # "new"
        /\ l \in HasControl => pc[r] \in HasControl
        /\ l \in Owning => pc[r] \in Owning
        /\ l \in Serving => pc[r] \in Serving
        /\ l \in Early => pc[r] \in Early
        /\ l = "clear state" => pc[r] = "start chain"
        /\ l \in Cleared => pc[r] \in Cleared

Act(r) ==
    \/ Quiet(r)
    \/ \E c \in LockFile, d \in Dirs, n \in 1 .. MaxNodes, b \in PortBases, m \in BOOLEAN :
             Launch(r, c, d, n, b, m)
    \/ LockControl(r) \/ LockData(r) \/ Reject(r) \/ BindSocket(r)
    \/ ClearState(r) \/ Spawn(r)
    \/ RemoveSocket(r) \/ FreeData(r) \/ FreeControl(r) \/ Kill(r)

\* Every step of the model is one of these, or none of the argument's business.
LEMMA Steps ==
    ASSUME Shape, Next
    PROVE  UNCHANGED core \/ \E r \in Run : Act(r)
<1> USE DEF Shape, Quiet, core, args, locks, summary, cleanup, outside, Goto
<1>1. PICK r \in Run :
        \/ \E c \in LockFile, d \in Dirs, n \in 1 .. MaxNodes, b \in PortBases, m \in BOOLEAN :
             Launch(r, c, d, n, b, m)
        \/ Step(r) \/ Await(r)
        \/ \E n \in Node : Started(r, n) \/ Ready(r, n) \/ NodeServes(r, n) \/ NodeExits(r, n)
        \/ Mesh(r) \/ TimesOut(r) \/ Stop(r) \/ Kill(r)
  BY DEF Next
<1>2. WriteControlPid(r) => Quiet(r)
  BY DEF WriteControlPid, HasControl, Owning, Serving, Labels, Early, Cleared
<1>3. WriteDataPid(r) => Quiet(r)
  BY DEF WriteDataPid, HasControl, Owning, Serving, Labels, Early, Cleared
<1>4. StartChain(r) => Quiet(r)
  BY DEF StartChain, HasControl, Owning, Serving, Labels, Early, Cleared
<1>5. StartChainFails(r) => Quiet(r)
  BY DEF StartChainFails, HasControl, Owning, Serving, Labels, Early, Cleared
<1>6. Generate(r) => Quiet(r)
  BY DEF Generate, HasControl, Owning, Serving, Labels, Early, Cleared
<1>7. Fails(r) => Quiet(r)
  BY DEF Fails, Failed, HasControl, Owning, Serving, Labels, Early, Cleared
<1>8. KillNodes(r) => Quiet(r)
  BY DEF KillNodes, HasControl, Owning, Serving, Labels, Early, Cleared
<1>9. StopChain(r) => Quiet(r)
  BY DEF StopChain, HasControl, Owning, Serving, Labels, Early, Cleared
<1>10. ASSUME NEW n \in Node, Started(r, n) \/ Ready(r, n)
       PROVE  Quiet(r) \/ UNCHANGED core
  BY <1>10 DEF Started, Ready, Passes, HasControl, Owning, Serving, Labels, Early, Cleared
<1>11. ASSUME NEW n \in Node, NodeServes(r, n) \/ NodeExits(r, n)
       PROVE  UNCHANGED core
  BY <1>11 DEF NodeServes, NodeExits
<1>12. Mesh(r) => Quiet(r)
  BY DEF Mesh, HasControl, Owning, Serving, Labels, Early, Cleared
<1>13. TimesOut(r) => Quiet(r)
  BY DEF TimesOut, Failed, HasControl, Owning, Serving, Labels, Early, Cleared
<1>14. Stop(r) => Quiet(r)
  BY DEF Stop, HasControl, Owning, Serving, Labels, Early, Cleared
<1>15. QED
  BY <1>1, <1>2, <1>3, <1>4, <1>5, <1>6, <1>7, <1>8, <1>9, <1>10, <1>11, <1>12, <1>13, <1>14
  DEF Step, Await, Act

-----------------------------------------------------------------------------
\* Nodes are numbered from 0.
LEMMA NodeBounds == 0 \in Node /\ Node \subseteq Nat
BY ClusterConstants DEF Node

\* What comes before the first node, up to the next one, and up to the last.
LEMMA NodeOrder ==
    ASSUME NEW m \in Node, NEW n \in Node
    PROVE  /\ ~(n < 0)
           /\ n < m + 1 => n < m \/ n = m
           /\ ~(m < MaxNodes - 1) => n < m \/ n = m
<1>1. m \in 0 .. MaxNodes - 1 /\ n \in 0 .. MaxNodes - 1 /\ MaxNodes \in Nat
  BY ClusterConstants DEF Node
<1>2. QED
  BY <1>1

\* What the steps with alternatives do, one alternative at a time.
LEMMA LockControlEffect ==
    ASSUME NEW r \in Run, LockControl(r)
    PROVE  /\ UNCHANGED <<ctl, dir, size, base, managed, sock, next, db>>
           /\ pc[r] = "lock control"
           /\ \/ /\ holder[ctl[r]] = None
                 /\ holder' = [holder EXCEPT ![ctl[r]] = r]
                 /\ pc' = [pc EXCEPT ![r] = "write control pid"]
                 /\ refused' = refused
              \/ /\ holder' = holder
                 /\ pc' = [pc EXCEPT ![r] = "read pid"]
                 /\ refused' = [refused EXCEPT ![r] = ctl[r]]
BY DEF LockControl, TryLock, Goto, args, outside

LEMMA LockDataEffect ==
    ASSUME NEW r \in Run, LockData(r)
    PROVE  /\ UNCHANGED <<ctl, dir, size, base, managed, sock, next, db>>
           /\ pc[r] = "lock data"
           /\ \/ /\ ctl[r] = dir[r]
                 /\ UNCHANGED <<holder, refused>>
                 /\ pc' = [pc EXCEPT ![r] = "bind socket"]
              \/ /\ ctl[r] # dir[r]
                 /\ holder[dir[r]] = None
                 /\ holder' = [holder EXCEPT ![dir[r]] = r]
                 /\ pc' = [pc EXCEPT ![r] = "write data pid"]
                 /\ refused' = refused
              \/ /\ holder' = holder
                 /\ pc' = [pc EXCEPT ![r] = "read pid"]
                 /\ refused' = [refused EXCEPT ![r] = dir[r]]
BY DEF LockData, TryLock, Goto, args, outside

LEMMA ClearStateEffect ==
    ASSUME NEW r \in Run, ClearState(r)
    PROVE  /\ UNCHANGED <<ctl, dir, size, base, managed, holder, refused, sock>>
           /\ pc[r] = "clear state"
           /\ \/ /\ managed[r]
                 /\ db' = [db EXCEPT ![dir[r]][next[r]] = None]
                 /\ pc' = pc
                 /\ next[r] < MaxNodes - 1
                 /\ next' = [next EXCEPT ![r] = @ + 1]
              \/ /\ managed[r]
                 /\ db' = [db EXCEPT ![dir[r]][next[r]] = None]
                 /\ pc' = [pc EXCEPT ![r] = "generate"]
                 /\ ~(next[r] < MaxNodes - 1)
                 /\ next' = [next EXCEPT ![r] = 0]
              \/ /\ ~managed[r]
                 /\ UNCHANGED <<db, next>>
                 /\ pc' = [pc EXCEPT ![r] = "generate"]
BY DEF ClearState, Goto, args, locks

LEMMA SpawnEffect ==
    ASSUME Shape, NEW r \in Run, Spawn(r)
    PROVE  /\ UNCHANGED <<ctl, dir, size, base, managed, holder, refused, sock>>
           /\ pc[r] = "spawn"
           /\ \E v \in {db[dir[r]][next[r]], ChainOf(r)} : db' = [db EXCEPT ![dir[r]][next[r]] = v]
           /\ \/ /\ pc' = pc
                 /\ next[r] < size[r] - 1
                 /\ next' = [next EXCEPT ![r] = @ + 1]
              \/ /\ pc' = [pc EXCEPT ![r] = "started"]
                 /\ next' = [next EXCEPT ![r] = 0]
<1>1. /\ UNCHANGED <<ctl, dir, size, base, managed, holder, refused, sock>>
      /\ pc[r] = "spawn"
      /\ \/ /\ pc' = pc
            /\ next[r] < size[r] - 1
            /\ next' = [next EXCEPT ![r] = @ + 1]
         \/ /\ pc' = [pc EXCEPT ![r] = "started"]
            /\ next' = [next EXCEPT ![r] = 0]
  BY DEF Spawn, Goto, args, locks, LastNode
<1>2. db' = [db EXCEPT ![dir[r]][next[r]] = IF @ = None THEN ChainOf(r) ELSE @]
  BY DEF Spawn
<1>3. db' = [db EXCEPT ![dir[r]][next[r]] =
                IF db[dir[r]][next[r]] = None THEN ChainOf(r) ELSE db[dir[r]][next[r]]]
  BY <1>1, <1>2 DEF Shape
<1>4. QED
  BY <1>1, <1>3

\* A write of one cell of db.
LEMMA WriteCell ==
    ASSUME NEW S, NEW F \in [Dirs -> [Node -> S]], NEW d \in Dirs, NEW n \in Node, NEW v \in S,
           NEW G, G = [F EXCEPT ![d][n] = v]
    PROVE  /\ G \in [Dirs -> [Node -> S]]
           /\ \A e \in Dirs, m \in Node :
                G[e][m] = IF e = d /\ m = n THEN v ELSE F[e][m]
<1>1. F[d] \in [Node -> S]
  OBVIOUS
<1>2. G = [F EXCEPT ![d] = [F[d] EXCEPT ![n] = v]]
  OBVIOUS
<1>3. [F[d] EXCEPT ![n] = v] \in [Node -> S]
  BY <1>1
<1>4. G \in [Dirs -> [Node -> S]]
  BY <1>2, <1>3
<1>5. ASSUME NEW e \in Dirs, NEW m \in Node
      PROVE  G[e][m] = IF e = d /\ m = n THEN v ELSE F[e][m]
  BY <1>1, <1>2
<1>6. QED
  BY <1>4, <1>5

\* The loops stay within the nodes.
LEMMA NextNode ==
    ASSUME next \in [Run -> Node], NEW r \in Run,
           \/ next' = [next EXCEPT ![r] = 0]
           \/ next[r] < MaxNodes - 1 /\ next' = [next EXCEPT ![r] = @ + 1]
    PROVE  next' \in [Run -> Node]
<1>1. next[r] \in Nat /\ MaxNodes \in Nat
  BY NodeBounds, ClusterConstants
<1>2. next[r] < MaxNodes - 1 => next[r] + 1 \in Node
  BY <1>1 DEF Node
<1>3. QED
  BY <1>2, NodeBounds

\* The variables keep their types.
LEMMA ShapeStep ==
    ASSUME Shape, Next
    PROVE  Shape'
<1>1. ASSUME NEW r \in Run, Quiet(r)
      PROVE  Shape'
  <2>1. UNCHANGED <<ctl, dir, size, base, managed, holder, refused, sock, next, db>>
    BY <1>1 DEF Quiet, args
  <2>2. pc' \in [Run -> Labels]
    BY <1>1 DEF Shape, Quiet
  <2>3. ASSUME NEW q \in Run, pc'[q] # "new"
        PROVE  ctl'[q] \in LockFile /\ dir'[q] \in Dirs
    BY <1>1, <2>1, <2>3 DEF Shape, Quiet
  <2>4. QED
    BY <2>1, <2>2, <2>3 DEF Shape
<1>2. ASSUME UNCHANGED core
      PROVE  Shape'
  BY <1>2 DEF Shape, core, args
<1>3. ASSUME NEW r \in Run, NEW c \in LockFile, NEW d \in Dirs, NEW n \in 1 .. MaxNodes,
             NEW b \in PortBases, NEW m \in BOOLEAN, Launch(r, c, d, n, b, m)
      PROVE  Shape'
  <2>1. UNCHANGED <<holder, refused, sock, next, db>>
    BY <1>3 DEF Launch, locks, outside
  <2>2. pc' \in [Run -> Labels]
    BY <1>3 DEF Shape, Launch, Goto, Labels
  <2>3. /\ ctl' \in [Run -> LockFile \union {None}]
        /\ dir' \in [Run -> Dirs \union {None}]
        /\ size' \in [Run -> 1 .. MaxNodes]
        /\ base' \in [Run -> Nat]
        /\ managed' \in [Run -> BOOLEAN]
    BY <1>3, ClusterConstants DEF Shape, Launch
  <2>4. ASSUME NEW q \in Run, pc'[q] # "new"
        PROVE  ctl'[q] \in LockFile /\ dir'[q] \in Dirs
    BY <1>3, <2>4 DEF Shape, Launch, Goto
  <2>5. QED
    BY <2>1, <2>2, <2>3, <2>4 DEF Shape
<1>4. ASSUME NEW r \in Run, LockControl(r)
      PROVE  Shape'
  <2>1. UNCHANGED <<ctl, dir, size, base, managed, sock, next, db>>
    BY <1>4, LockControlEffect
  <2>2. pc[r] # "new" /\ ctl[r] \in LockFile /\ dir[r] \in Dirs
    BY <1>4, LockControlEffect DEF Shape
  <2>3. pc' \in [Run -> Labels]
    BY <1>4, LockControlEffect DEF Shape, Labels
  <2>4. /\ holder' \in [LockFile -> Run \union {None}]
        /\ refused' \in [Run -> LockFile \union {None}]
    BY <1>4, <2>2, LockControlEffect DEF Shape, LockFile
  <2>5. ASSUME NEW q \in Run, pc'[q] # "new"
        PROVE  ctl'[q] \in LockFile /\ dir'[q] \in Dirs
    BY <1>4, <2>1, <2>2, <2>5, LockControlEffect DEF Shape
  <2>6. QED
    BY <2>1, <2>2, <2>3, <2>4, <2>5 DEF Shape
<1>5. ASSUME NEW r \in Run, LockData(r)
      PROVE  Shape'
  <2>1. UNCHANGED <<ctl, dir, size, base, managed, sock, next, db>>
    BY <1>5, LockDataEffect
  <2>2. pc[r] # "new" /\ ctl[r] \in LockFile /\ dir[r] \in Dirs
    BY <1>5, LockDataEffect DEF Shape
  <2>3. pc' \in [Run -> Labels]
    BY <1>5, LockDataEffect DEF Shape, Labels
  <2>4. /\ holder' \in [LockFile -> Run \union {None}]
        /\ refused' \in [Run -> LockFile \union {None}]
    BY <1>5, <2>2, LockDataEffect DEF Shape, LockFile
  <2>5. ASSUME NEW q \in Run, pc'[q] # "new"
        PROVE  ctl'[q] \in LockFile /\ dir'[q] \in Dirs
    BY <1>5, <2>1, <2>2, <2>5, LockDataEffect DEF Shape
  <2>6. QED
    BY <2>1, <2>2, <2>3, <2>4, <2>5 DEF Shape
<1>6. ASSUME NEW r \in Run, Reject(r)
      PROVE  Shape'
  <2>1. UNCHANGED <<ctl, dir, size, base, managed, holder, refused, sock, next, db>>
    BY <1>6 DEF Reject, args, locks, outside
  <2>2. pc[r] # "new" /\ ctl[r] \in LockFile /\ dir[r] \in Dirs
    BY <1>6 DEF Shape, Reject
  <2>3. pc' \in [Run -> Labels]
    BY <1>6 DEF Shape, Reject, Goto, Labels
  <2>4. ASSUME NEW q \in Run, pc'[q] # "new"
        PROVE  ctl'[q] \in LockFile /\ dir'[q] \in Dirs
    BY <1>6, <2>1, <2>2, <2>4 DEF Shape, Reject, Goto
  <2>5. QED
    BY <2>1, <2>2, <2>3, <2>4 DEF Shape
<1>7. ASSUME NEW r \in Run, BindSocket(r)
      PROVE  Shape'
  <2>1. UNCHANGED <<ctl, dir, size, base, managed, holder, refused, next, db>>
    BY <1>7 DEF BindSocket, args, locks, outside
  <2>2. pc[r] # "new" /\ ctl[r] \in LockFile /\ dir[r] \in Dirs
    BY <1>7 DEF Shape, BindSocket
  <2>3. pc' \in [Run -> Labels]
    BY <1>7 DEF Shape, BindSocket, Goto, Labels
  <2>4. sock' \in [LockFile -> Run \union {None}]
    BY <1>7, <2>2 DEF Shape, BindSocket
  <2>5. ASSUME NEW q \in Run, pc'[q] # "new"
        PROVE  ctl'[q] \in LockFile /\ dir'[q] \in Dirs
    BY <1>7, <2>1, <2>2, <2>5 DEF Shape, BindSocket, Goto
  <2>6. QED
    BY <2>1, <2>2, <2>3, <2>4, <2>5 DEF Shape
<1>8. ASSUME NEW r \in Run, ClearState(r)
      PROVE  Shape'
  <2>1. UNCHANGED <<ctl, dir, size, base, managed, holder, refused, sock>>
    BY <1>8, ClearStateEffect
  <2>2. pc[r] # "new" /\ ctl[r] \in LockFile /\ dir[r] \in Dirs
    BY <1>8, ClearStateEffect DEF Shape
  <2>3. pc' \in [Run -> Labels]
    BY <1>8, ClearStateEffect DEF Shape, Labels
  <2>4. next' \in [Run -> Node]
    BY <1>8, ClearStateEffect, NextNode DEF Shape
  <2>5. db' \in [Dirs -> [Node -> Run \union {None, External}]]
    <3>1. next[r] \in Node /\ db \in [Dirs -> [Node -> Run \union {None, External}]]
      BY DEF Shape
    <3>2. None \in Run \union {None, External}
      OBVIOUS
    <3>3. db' = db \/ db' = [db EXCEPT ![dir[r]][next[r]] = None]
      BY <1>8, ClearStateEffect
    <3>4. QED
      BY <2>2, <3>1, <3>2, <3>3, WriteCell
  <2>6. ASSUME NEW q \in Run, pc'[q] # "new"
        PROVE  ctl'[q] \in LockFile /\ dir'[q] \in Dirs
    BY <1>8, <2>1, <2>2, <2>6, ClearStateEffect DEF Shape
  <2>7. QED
    BY <2>1, <2>2, <2>3, <2>4, <2>5, <2>6 DEF Shape
<1>9. ASSUME NEW r \in Run, Spawn(r)
      PROVE  Shape'
  <2>1. UNCHANGED <<ctl, dir, size, base, managed, holder, refused, sock>>
    BY <1>9, SpawnEffect
  <2>2. pc[r] # "new" /\ ctl[r] \in LockFile /\ dir[r] \in Dirs
    BY <1>9, SpawnEffect DEF Shape
  <2>3. pc' \in [Run -> Labels]
    BY <1>9, SpawnEffect DEF Shape, Labels
  <2>4. next' \in [Run -> Node]
    <3>1. size[r] \in 1 .. MaxNodes /\ next[r] \in Nat /\ MaxNodes \in Nat
      BY NodeBounds, ClusterConstants DEF Shape
    <3>2. next[r] < size[r] - 1 => next[r] < MaxNodes - 1
      BY <3>1
    <3>3. next \in [Run -> Node]
      BY DEF Shape
    <3>4. QED
      BY <1>9, <3>2, <3>3, SpawnEffect, NextNode
  <2>5. db' \in [Dirs -> [Node -> Run \union {None, External}]]
    <3>1. next[r] \in Node /\ db \in [Dirs -> [Node -> Run \union {None, External}]]
      BY DEF Shape
    <3>2. {db[dir[r]][next[r]], ChainOf(r)} \subseteq Run \union {None, External}
      BY <2>2, <3>1 DEF ChainOf
    <3>3. PICK v \in {db[dir[r]][next[r]], ChainOf(r)} : db' = [db EXCEPT ![dir[r]][next[r]] = v]
      BY <1>9, SpawnEffect
    <3>4. QED
      BY <2>2, <3>1, <3>2, <3>3, WriteCell
  <2>6. ASSUME NEW q \in Run, pc'[q] # "new"
        PROVE  ctl'[q] \in LockFile /\ dir'[q] \in Dirs
    BY <1>9, <2>1, <2>2, <2>6, SpawnEffect DEF Shape
  <2>7. QED
    BY <2>1, <2>2, <2>3, <2>4, <2>5, <2>6 DEF Shape
<1>10. ASSUME NEW r \in Run, RemoveSocket(r)
      PROVE  Shape'
  <2>1. UNCHANGED <<ctl, dir, size, base, managed, holder, refused, next, db>>
    BY <1>10 DEF RemoveSocket, args, locks, outside
  <2>2. pc[r] # "new" /\ ctl[r] \in LockFile /\ dir[r] \in Dirs
    BY <1>10 DEF Shape, RemoveSocket
  <2>3. pc' \in [Run -> Labels]
    BY <1>10 DEF Shape, RemoveSocket, Goto, Labels
  <2>4. sock' \in [LockFile -> Run \union {None}]
    BY <1>10, <2>2 DEF Shape, RemoveSocket
  <2>5. ASSUME NEW q \in Run, pc'[q] # "new"
        PROVE  ctl'[q] \in LockFile /\ dir'[q] \in Dirs
    BY <1>10, <2>1, <2>2, <2>5 DEF Shape, RemoveSocket, Goto
  <2>6. QED
    BY <2>1, <2>2, <2>3, <2>4, <2>5 DEF Shape
<1>11. ASSUME NEW r \in Run, FreeData(r)
      PROVE  Shape'
  <2>1. UNCHANGED <<ctl, dir, size, base, managed, refused, sock, next, db>>
    BY <1>11 DEF FreeData, Free, args, locks, outside
  <2>2. pc[r] # "new" /\ ctl[r] \in LockFile /\ dir[r] \in Dirs
    BY <1>11 DEF Shape, FreeData, Free
  <2>3. pc' \in [Run -> Labels]
    BY <1>11 DEF Shape, FreeData, Free, Goto, Labels
  <2>4. holder' \in [LockFile -> Run \union {None}]
    BY <1>11, <2>2 DEF Shape, FreeData, Free
  <2>5. ASSUME NEW q \in Run, pc'[q] # "new"
        PROVE  ctl'[q] \in LockFile /\ dir'[q] \in Dirs
    BY <1>11, <2>1, <2>2, <2>5 DEF Shape, FreeData, Free, Goto
  <2>6. QED
    BY <2>1, <2>2, <2>3, <2>4, <2>5 DEF Shape
<1>12. ASSUME NEW r \in Run, FreeControl(r)
      PROVE  Shape'
  <2>1. UNCHANGED <<ctl, dir, size, base, managed, refused, sock, next, db>>
    BY <1>12 DEF FreeControl, Free, args, locks, outside
  <2>2. pc[r] # "new" /\ ctl[r] \in LockFile /\ dir[r] \in Dirs
    BY <1>12 DEF Shape, FreeControl, Free
  <2>3. pc' \in [Run -> Labels]
    BY <1>12 DEF Shape, FreeControl, Free, Goto, Labels
  <2>4. holder' \in [LockFile -> Run \union {None}]
    BY <1>12, <2>2 DEF Shape, FreeControl, Free
  <2>5. ASSUME NEW q \in Run, pc'[q] # "new"
        PROVE  ctl'[q] \in LockFile /\ dir'[q] \in Dirs
    BY <1>12, <2>1, <2>2, <2>5 DEF Shape, FreeControl, Free, Goto
  <2>6. QED
    BY <2>1, <2>2, <2>3, <2>4, <2>5 DEF Shape
<1>13. ASSUME NEW r \in Run, Kill(r)
      PROVE  Shape'
  <2>1. UNCHANGED <<ctl, dir, size, base, managed, refused, sock, next, db>>
    BY <1>13 DEF Kill, args, locks, outside
  <2>2. pc[r] # "new" /\ ctl[r] \in LockFile /\ dir[r] \in Dirs
    BY <1>13 DEF Shape, Kill
  <2>3. pc' \in [Run -> Labels]
    BY <1>13 DEF Shape, Kill, Goto, Labels
  <2>4. holder' \in [LockFile -> Run \union {None}]
    BY <1>13, <2>2 DEF Shape, Kill
  <2>5. ASSUME NEW q \in Run, pc'[q] # "new"
        PROVE  ctl'[q] \in LockFile /\ dir'[q] \in Dirs
    BY <1>13, <2>1, <2>2, <2>5 DEF Shape, Kill, Goto
  <2>6. QED
    BY <2>1, <2>2, <2>3, <2>4, <2>5 DEF Shape
<1>14. QED
  BY Steps, <1>1, <1>2, <1>3, <1>4, <1>5, <1>6, <1>7, <1>8, <1>9, <1>10, <1>11, <1>12, <1>13 DEF Act

\* The steps at which locks change hands, and the others on the way.
LEMMA Classes ==
    /\ {"lock control", "lock data", "read pid", "write control pid", "free control", "off", "new"}
         \intersect Owning = {}
    /\ {"write data pid", "bind socket", "start chain", "clear state", "generate", "spawn", "started",
        "remove socket", "free data"} \subseteq Owning
    /\ {"new", "lock control", "read pid", "off"} \intersect HasControl = {}
    /\ {"write control pid", "lock data", "free control"} \union Owning \subseteq HasControl
    /\ {"write data pid", "bind socket", "free data"} \intersect Serving = {}
    /\ {"start chain", "clear state", "generate", "spawn", "started", "remove socket"} \subseteq Serving
    /\ Serving \subseteq Owning /\ Owning \subseteq HasControl /\ HasControl \subseteq Labels
BY DEF Owning, HasControl, Serving, Labels

\* A step of run r: everything of another run q is as it was, its locks included.
LEMMA OthersStep ==
    ASSUME Shape, Locks, NEW r \in Run, NEW q \in Run, q # r, Act(r)
    PROVE  /\ pc'[q] = pc[q] /\ ctl'[q] = ctl[q] /\ dir'[q] = dir[q]
           /\ refused'[q] = refused[q] /\ managed'[q] = managed[q]
           /\ \A f \in LockFile : holder[f] = q => holder'[f] = q
<1> DEFINE Same == /\ pc'[q] = pc[q] /\ ctl'[q] = ctl[q] /\ dir'[q] = dir[q]
                   /\ refused'[q] = refused[q] /\ managed'[q] = managed[q]
                   /\ \A f \in LockFile : holder[f] = q => holder'[f] = q
<1>a. /\ pc \in [Run -> Labels] /\ holder \in [LockFile -> Run \union {None}]
      /\ ctl \in [Run -> LockFile \union {None}] /\ dir \in [Run -> Dirs \union {None}]
      /\ refused \in [Run -> LockFile \union {None}] /\ managed \in [Run -> BOOLEAN]
  BY DEF Shape
<1>b. q # None
  BY DEF Run, None
<1>c. LocksOf(r)
  BY DEF Locks
<1>1. CASE Quiet(r)
  BY <1>1, <1>a DEF Quiet, args
<1>2. CASE \E c \in LockFile, d \in Dirs, n \in 1 .. MaxNodes, b \in PortBases, m \in BOOLEAN :
             Launch(r, c, d, n, b, m)
  BY <1>2, <1>a DEF Launch, Goto, locks
<1>3. CASE LockControl(r)
  <2>1. \/ holder' = holder
        \/ holder[ctl[r]] = None /\ holder' = [holder EXCEPT ![ctl[r]] = r]
    BY <1>3, LockControlEffect
  <2>2. \A f \in LockFile : holder[f] = q => holder'[f] = q
    BY <2>1, <1>a, <1>b
  <2>3. QED
    BY <1>3, <1>a, <2>2, LockControlEffect
<1>4. CASE LockData(r)
  <2>1. \/ holder' = holder
        \/ holder[dir[r]] = None /\ holder' = [holder EXCEPT ![dir[r]] = r]
    BY <1>4, LockDataEffect
  <2>2. \A f \in LockFile : holder[f] = q => holder'[f] = q
    BY <2>1, <1>a, <1>b
  <2>3. QED
    BY <1>4, <1>a, <2>2, LockDataEffect
<1>5. CASE Reject(r)
  BY <1>5, <1>a DEF Reject, Goto, args
<1>6. CASE BindSocket(r)
  BY <1>6, <1>a DEF BindSocket, Goto, args, locks
<1>7. CASE ClearState(r)
  BY <1>7, <1>a, ClearStateEffect
<1>8. CASE Spawn(r)
  BY <1>8, <1>a, SpawnEffect
<1>9. CASE RemoveSocket(r)
  BY <1>9, <1>a DEF RemoveSocket, Goto, args, locks
<1>10. CASE FreeData(r)
  <2>1. holder[dir[r]] = r
    BY <1>10, <1>c, Classes DEF FreeData, LocksOf
  <2>2. QED
    BY <1>10, <1>a, <2>1 DEF FreeData, Free, Goto, args
<1>11. CASE FreeControl(r)
  <2>1. holder[ctl[r]] = r
    BY <1>11, <1>c, Classes DEF FreeControl, LocksOf
  <2>2. QED
    BY <1>11, <1>a, <2>1 DEF FreeControl, Free, Goto, args
<1>12. CASE Kill(r)
  BY <1>12, <1>a DEF Kill, Goto, args
<1>13. QED
  BY <1>1, <1>2, <1>3, <1>4, <1>5, <1>6, <1>7, <1>8, <1>9, <1>10, <1>11, <1>12 DEF Act

\* The locks of a run are its own: another run takes only what is free and frees
\* only what it has.
LEMMA LocksStep ==
    ASSUME Shape, Locks, Next
    PROVE  Locks'
<1> SUFFICES ASSUME NEW q \in Run
             PROVE  LocksOf(q)'
  BY DEF Locks
<1>a. /\ pc \in [Run -> Labels] /\ holder \in [LockFile -> Run \union {None}]
      /\ refused \in [Run -> LockFile \union {None}]
      /\ LocksOf(q)
      /\ pc[q] # "new" => ctl[q] \in LockFile /\ dir[q] \in LockFile
  BY DEF Shape, Locks, LockFile
<1>b. "new" \notin HasControl /\ "new" \notin Owning /\ "new" # "read pid"
  BY Classes
<1>1. CASE UNCHANGED core
  BY <1>1, <1>a DEF core, args, LocksOf
<1>2. ASSUME NEW r \in Run, r # q, Act(r)
      PROVE  LocksOf(q)'
  <2>1. /\ pc'[q] = pc[q] /\ ctl'[q] = ctl[q] /\ dir'[q] = dir[q] /\ refused'[q] = refused[q]
        /\ \A f \in LockFile : holder[f] = q => holder'[f] = q
    BY <1>2, OthersStep
  <2>2. QED
    BY <2>1, <1>a, <1>b DEF LocksOf
<1>3. CASE Quiet(q)
  BY <1>3, <1>a DEF Quiet, args, LocksOf
<1>4. CASE \E c \in LockFile, d \in Dirs, n \in 1 .. MaxNodes, b \in PortBases,
            m \in BOOLEAN : Launch(q, c, d, n, b, m)
  <2>1. pc'[q] = "lock control"
    BY <1>4, <1>a DEF Launch, Goto
  <2>2. QED
    BY <2>1, Classes DEF LocksOf
<1>5. CASE LockControl(q)
  <2>1. /\ UNCHANGED <<ctl, dir>>
        /\ ctl[q] \in LockFile
        /\ \/ pc'[q] = "write control pid" /\ holder'[ctl[q]] = q
           \/ pc'[q] = "read pid" /\ refused'[q] = ctl[q]
    BY <1>5, <1>a, LockControlEffect
  <2>2. QED
    BY <2>1, Classes DEF LocksOf
<1>6. CASE LockData(q)
  <2>1. /\ UNCHANGED <<ctl, dir>>
        /\ holder[ctl[q]] = q
        /\ ctl[q] \in LockFile /\ dir[q] \in LockFile
    BY <1>6, <1>a, Classes, LockDataEffect DEF LocksOf
  <2>2. \/ pc'[q] = "bind socket" /\ ctl[q] = dir[q] /\ holder' = holder
        \/ pc'[q] = "write data pid" /\ holder'[dir[q]] = q /\ holder'[ctl[q]] = q
        \/ pc'[q] = "read pid" /\ holder' = holder
    BY <1>6, <1>a, <2>1, LockDataEffect
  <2>3. QED
    BY <2>1, <2>2, Classes DEF LocksOf
<1>7. CASE Reject(q)
  <2>1. /\ UNCHANGED <<ctl, dir, holder, refused>> /\ pc[q] = "read pid"
        /\ pc'[q] = IF refused[q] = ctl[q] THEN "off" ELSE "free control"
    BY <1>7, <1>a DEF Reject, Goto, args
  <2>2. QED
    BY <2>1, <1>a, Classes DEF LocksOf
<1>8. CASE BindSocket(q)
  <2>1. /\ UNCHANGED <<ctl, dir, holder, refused>> /\ pc[q] = "bind socket"
        /\ pc'[q] \in {"start chain", "free data"}
    BY <1>8, <1>a DEF BindSocket, Goto, args, locks
  <2>2. QED
    BY <2>1, <1>a, Classes DEF LocksOf
<1>9. CASE ClearState(q)
  <2>1. /\ UNCHANGED <<ctl, dir, holder, refused>> /\ pc[q] = "clear state"
        /\ pc'[q] \in {"clear state", "generate"}
    BY <1>9, <1>a, ClearStateEffect
  <2>2. QED
    BY <2>1, <1>a, Classes DEF LocksOf
<1>10. CASE Spawn(q)
  <2>1. /\ UNCHANGED <<ctl, dir, holder, refused>> /\ pc[q] = "spawn"
        /\ pc'[q] \in {"spawn", "started"}
    BY <1>10, <1>a, SpawnEffect
  <2>2. QED
    BY <2>1, <1>a, Classes DEF LocksOf
<1>11. CASE RemoveSocket(q)
  <2>1. /\ UNCHANGED <<ctl, dir, holder, refused>> /\ pc[q] = "remove socket"
        /\ pc'[q] = "free data"
    BY <1>11, <1>a DEF RemoveSocket, Goto, args, locks
  <2>2. QED
    BY <2>1, <1>a, Classes DEF LocksOf
<1>12. CASE FreeData(q)
  <2>1. /\ UNCHANGED <<ctl, dir>> /\ pc'[q] = "free control"
        /\ holder[ctl[q]] = q /\ ctl[q] \in LockFile /\ dir[q] \in LockFile
    BY <1>12, <1>a, Classes DEF FreeData, Goto, args, LocksOf
  <2>2. holder'[ctl[q]] = q
    BY <1>12, <1>a, <2>1 DEF FreeData, Free
  <2>3. QED
    BY <2>1, <2>2, Classes DEF LocksOf
<1>13. CASE FreeControl(q) \/ Kill(q)
  <2>1. pc'[q] = "off"
    BY <1>13, <1>a DEF FreeControl, Kill, Goto
  <2>2. QED
    BY <2>1, Classes DEF LocksOf
<1>14. QED
  BY Steps, <1>1, <1>2, <1>3, <1>4, <1>5, <1>6, <1>7, <1>8, <1>9, <1>10, <1>11, <1>12, <1>13 DEF Act

\* The steps before and after the loop over the node directories.
LEMMA Phases ==
    /\ {"new", "lock control", "write control pid", "lock data", "write data pid", "read pid",
        "bind socket", "start chain"} \subseteq Early
    /\ {"clear state", "generate", "spawn", "started", "remove socket", "free data", "free control",
        "off"} \intersect Early = {}
    /\ Early \intersect Cleared = {}
    /\ {"generate", "spawn", "started"} \subseteq Cleared
    /\ {"clear state", "remove socket", "free data", "free control", "off"} \intersect Cleared = {}
    /\ Cleared \subseteq Owning
    /\ "clear state" \notin Early
BY DEF Early, Cleared, Owning, Labels

\* Two runs that own their directories have different ones.
LEMMA OwnersDiffer ==
    ASSUME Locks, NEW r \in Run, NEW q \in Run, q # r, pc[r] \in Owning, pc[q] \in Owning
    PROVE  dir[r] # dir[q]
BY DEF Locks, LocksOf

\* The socket file of a serving run is touched by no other run: who binds or
\* removes the file of a control base has its lock.
LEMMA OthersSocket ==
    ASSUME Shape, Locks, NEW r \in Run, NEW q \in Run, q # r, Act(r), pc[q] \in Serving
    PROVE  sock'[ctl[q]] = sock[ctl[q]]
<1>a. sock \in [LockFile -> Run \union {None}]
  BY DEF Shape
<1>b. holder[ctl[q]] = q
  BY Classes DEF Locks, LocksOf
<1>1. CASE BindSocket(r)
  <2>1. holder[ctl[r]] = r
    BY <1>1, Classes DEF BindSocket, Locks, LocksOf
  <2>2. \E v \in {None, r} : sock' = [sock EXCEPT ![ctl[r]] = v]
    BY <1>1 DEF BindSocket
  <2>3. QED
    BY <2>1, <2>2, <1>a, <1>b
<1>2. CASE RemoveSocket(r)
  <2>1. holder[ctl[r]] = r
    BY <1>2, Classes DEF RemoveSocket, Locks, LocksOf
  <2>2. sock' = [sock EXCEPT ![ctl[r]] = None]
    BY <1>2 DEF RemoveSocket
  <2>3. QED
    BY <2>1, <2>2, <1>a, <1>b
<1>3. CASE ~BindSocket(r) /\ ~RemoveSocket(r)
  <2>1. sock' = sock
    BY <1>3, LockControlEffect, LockDataEffect, ClearStateEffect, SpawnEffect
    DEF Act, Quiet, Launch, Reject, FreeData, FreeControl, Kill
  <2>2. QED
    BY <2>1
<1>4. QED
  BY <1>1, <1>2, <1>3

\* A control socket stays the live run's.
LEMMA SocketStep ==
    ASSUME Shape, Locks, StatusIsLive, Next
    PROVE  StatusIsLive'
<1> SUFFICES ASSUME NEW q \in Run, pc'[q] \in Serving
             PROVE  sock'[ctl'[q]] = q
  BY DEF StatusIsLive
<1>a. /\ pc \in [Run -> Labels] /\ sock \in [LockFile -> Run \union {None}]
      /\ pc[q] \in Serving => sock[ctl[q]] = q
      /\ pc[q] # "new" => ctl[q] \in LockFile
  BY DEF Shape, StatusIsLive
<1>1. CASE UNCHANGED core
  BY <1>1, <1>a DEF core, args
<1>2. ASSUME NEW r \in Run, r # q, Act(r)
      PROVE  sock'[ctl'[q]] = q
  BY <1>2, <1>a, OthersStep, OthersSocket
<1>3. CASE Quiet(q)
  BY <1>3, <1>a DEF Quiet, args
<1>4. CASE \E c \in LockFile, d \in Dirs, n \in 1 .. MaxNodes, b \in PortBases,
            m \in BOOLEAN : Launch(q, c, d, n, b, m)
  <2>1. pc'[q] = "lock control"
    BY <1>4, <1>a DEF Launch, Goto
  <2>2. QED
    BY <2>1, Classes
<1>5. CASE LockControl(q)
  <2>1. pc'[q] \in {"write control pid", "read pid"}
    BY <1>5, <1>a, LockControlEffect
  <2>2. {"write control pid", "read pid"} \intersect Serving = {}
    BY Classes
  <2>3. QED
    BY <2>1, <2>2
<1>6. CASE LockData(q)
  <2>1. pc'[q] \in {"bind socket", "write data pid", "read pid"}
    BY <1>6, <1>a, LockDataEffect
  <2>2. {"bind socket", "write data pid", "read pid"} \intersect Serving = {}
    BY Classes
  <2>3. QED
    BY <2>1, <2>2
<1>7. CASE Reject(q)
  <2>1. pc'[q] \in {"off", "free control"}
    BY <1>7, <1>a DEF Reject, Goto
  <2>2. {"off", "free control"} \intersect Serving = {}
    BY Classes
  <2>3. QED
    BY <2>1, <2>2
<1>8. CASE BindSocket(q)
  <2>1. /\ ctl[q] \in LockFile /\ ctl' = ctl
        /\ \/ sock' = [sock EXCEPT ![ctl[q]] = q]
           \/ pc'[q] = "free data"
    BY <1>8, <1>a DEF BindSocket, Goto, args
  <2>2. QED
    BY <2>1, <1>a, Classes
<1>9. CASE ClearState(q)
  BY <1>9, <1>a, Classes, ClearStateEffect
<1>10. CASE Spawn(q)
  BY <1>10, <1>a, Classes, SpawnEffect
<1>11. CASE RemoveSocket(q) \/ FreeData(q) \/ FreeControl(q) \/ Kill(q)
  <2>1. pc'[q] \in {"free data", "free control", "off"}
    BY <1>11, <1>a DEF RemoveSocket, FreeData, FreeControl, Kill, Goto
  <2>2. {"free data", "free control", "off"} \intersect Serving = {}
    BY Classes
  <2>3. QED
    BY <2>1, <2>2
<1>12. QED
  BY Steps, <1>1, <1>2, <1>3, <1>4, <1>5, <1>6, <1>7, <1>8, <1>9, <1>10, <1>11 DEF Act

FreshOf(q) ==
    /\ pc[q] \in Early => next[q] = 0
    /\ managed[q] /\ pc[q] = "clear state" =>
         \A n \in Node : n < next[q] => db[dir[q]][n] \in {None, q}
    /\ managed[q] /\ pc[q] \in Cleared =>
         \A n \in Node : db[dir[q]][n] \in {None, q}

\* What a run has cleared stays so: another run writes node directories only
\* where it owns the data directory.
LEMMA OthersFresh ==
    ASSUME Shape, Locks, NEW r \in Run, NEW q \in Run, q # r, Act(r)
    PROVE  /\ next'[q] = next[q]
           /\ pc[q] \in Owning => db'[dir[q]] = db[dir[q]]
<1>a. /\ next \in [Run -> Node] /\ db \in [Dirs -> [Node -> Run \union {None, External}]]
      /\ pc[q] \in Owning => dir[q] \in Dirs
  BY Classes DEF Shape
<1>1. CASE ClearState(r)
  <2>1. next'[q] = next[q]
    BY <1>1, <1>a, ClearStateEffect
  <2>2. db' = db \/ db' = [db EXCEPT ![dir[r]][next[r]] = None]
    BY <1>1, ClearStateEffect
  <2>3. pc[q] \in Owning => dir[r] # dir[q]
    BY <1>1, Classes, OwnersDiffer, ClearStateEffect
  <2>4. QED
    BY <2>1, <2>2, <2>3, <1>a
<1>2. CASE Spawn(r)
  <2>1. next'[q] = next[q]
    BY <1>2, <1>a, SpawnEffect
  <2>2. \E v \in {db[dir[r]][next[r]], ChainOf(r)} : db' = [db EXCEPT ![dir[r]][next[r]] = v]
    BY <1>2, SpawnEffect
  <2>3. pc[q] \in Owning => dir[r] # dir[q]
    BY <1>2, Classes, OwnersDiffer, SpawnEffect
  <2>4. QED
    BY <2>1, <2>2, <2>3, <1>a
<1>3. CASE ~ClearState(r) /\ ~Spawn(r)
  <2>1. UNCHANGED <<next, db>>
    BY <1>3, LockControlEffect, LockDataEffect
    DEF Act, Quiet, Launch, Reject, BindSocket, RemoveSocket, FreeData, FreeControl, Kill, outside
  <2>2. QED
    BY <2>1
<1>4. QED
  BY <1>1, <1>2, <1>3

\* Node directories stay free of another chain's state.
LEMMA FreshStep ==
    ASSUME Shape, Locks, Fresh, Next
    PROVE  Fresh'
<1> SUFFICES ASSUME NEW q \in Run
             PROVE  FreshOf(q)'
  BY DEF Fresh, FreshOf
<1>a. /\ pc \in [Run -> Labels] /\ next \in [Run -> Node]
      /\ managed \in [Run -> BOOLEAN]
      /\ db \in [Dirs -> [Node -> Run \union {None, External}]]
      /\ pc[q] # "new" => dir[q] \in Dirs
      /\ FreshOf(q)
  BY DEF Shape, Fresh, FreshOf
<1>b. ASSUME pc'[q] \in Early, next'[q] = 0
      PROVE  FreshOf(q)'
  BY <1>b, Phases DEF FreshOf
<1>c. ASSUME pc'[q] \in {"free control", "free data", "off"}
      PROVE  FreshOf(q)'
  BY <1>c, Phases DEF FreshOf
<1>1. CASE UNCHANGED core
  BY <1>1, <1>a DEF core, args, FreshOf
<1>2. ASSUME NEW r \in Run, r # q, Act(r)
      PROVE  FreshOf(q)'
  <2>1. /\ pc'[q] = pc[q] /\ dir'[q] = dir[q] /\ managed'[q] = managed[q] /\ next'[q] = next[q]
        /\ pc[q] \in Owning => db'[dir[q]] = db[dir[q]]
    BY <1>2, OthersStep, OthersFresh
  <2>2. "clear state" \in Owning /\ Cleared \subseteq Owning
    BY Classes, Phases
  <2>3. QED
    BY <2>1, <2>2, <1>a DEF FreshOf
<1>3. CASE Quiet(q)
  <2>1. UNCHANGED <<dir, managed, next, db>>
    BY <1>3 DEF Quiet, args
  <2>2. /\ pc'[q] \in Early => pc[q] \in Early
        /\ pc'[q] = "clear state" => pc[q] = "start chain"
        /\ pc'[q] \in Cleared => pc[q] \in Cleared
    BY <1>3, <1>a DEF Quiet
  <2>3. pc'[q] = "clear state" => \A n \in Node : ~(n < next[q])
    BY <2>2, <1>a, Phases, NodeOrder, NodeBounds DEF FreshOf
  <2>4. QED
    BY <2>1, <2>2, <2>3, <1>a DEF FreshOf
<1>4. CASE \E c \in LockFile, d \in Dirs, n \in 1 .. MaxNodes, b \in PortBases,
            m \in BOOLEAN : Launch(q, c, d, n, b, m)
  <2>1. pc[q] = "new" /\ pc'[q] = "lock control" /\ next' = next
    BY <1>4, <1>a DEF Launch, Goto
  <2>2. QED
    BY <2>1, <1>a, <1>b, Phases DEF FreshOf
<1>5. CASE LockControl(q)
  <2>1. /\ pc[q] = "lock control" /\ next' = next
        /\ pc'[q] \in {"write control pid", "read pid"}
    BY <1>5, <1>a, LockControlEffect
  <2>2. QED
    BY <2>1, <1>a, <1>b, Phases DEF FreshOf
<1>6. CASE LockData(q)
  <2>1. /\ pc[q] = "lock data" /\ next' = next
        /\ pc'[q] \in {"bind socket", "write data pid", "read pid"}
    BY <1>6, <1>a, LockDataEffect
  <2>2. QED
    BY <2>1, <1>a, <1>b, Phases DEF FreshOf
<1>7. CASE Reject(q)
  BY <1>7, <1>a, <1>c DEF Reject, Goto
<1>8. CASE BindSocket(q)
  <2>1. /\ pc[q] = "bind socket" /\ next' = next
        /\ pc'[q] \in {"start chain", "free data"}
    BY <1>8, <1>a DEF BindSocket, Goto
  <2>2. QED
    BY <2>1, <1>a, <1>b, <1>c, Phases DEF FreshOf
<1>9. CASE ClearState(q)
  <2>1. /\ pc[q] = "clear state" /\ dir[q] \in Dirs /\ dir' = dir /\ managed' = managed
        /\ next[q] \in Node
    BY <1>9, <1>a, ClearStateEffect
  <2>2. CASE ~managed[q]
    <3>1. pc'[q] = "generate" /\ ~managed'[q]
      BY <1>9, <1>a, <2>1, <2>2, ClearStateEffect
    <3>2. QED
      BY <3>1, Phases DEF FreshOf
  <2>3. CASE managed[q]
    <3>1. db' = [db EXCEPT ![dir[q]][next[q]] = None]
      BY <1>9, <2>3, ClearStateEffect
    <3>2. \A n \in Node : n < next[q] \/ n = next[q] => db'[dir[q]][n] \in {None, q}
      <4>1. \A n \in Node : n < next[q] => db[dir[q]][n] \in {None, q}
        BY <1>a, <2>1, <2>3 DEF FreshOf
      <4>2. /\ db \in [Dirs -> [Node -> Run \union {None, External}]]
            /\ None \in Run \union {None, External}
            /\ dir[q] \in Dirs /\ next[q] \in Node
        BY <1>a, <2>1
      <4>3. \A d \in Dirs, m \in Node :
              db'[d][m] = IF d = dir[q] /\ m = next[q] THEN None ELSE db[d][m]
        BY <3>1, <4>2, WriteCell
      <4>4. QED
        BY <4>1, <4>2, <4>3
    <3>3. CASE pc' = pc /\ next' = [next EXCEPT ![q] = @ + 1]
      <4>1. pc'[q] = "clear state" /\ next'[q] = next[q] + 1
        BY <3>3, <2>1, <1>a
      <4>2. \A n \in Node : n < next[q] + 1 => n < next[q] \/ n = next[q]
        BY <2>1, NodeOrder
      <4>3. QED
        BY <4>1, <4>2, <3>2, <2>1, Phases DEF FreshOf
    <3>4. CASE pc' = [pc EXCEPT ![q] = "generate"] /\ ~(next[q] < MaxNodes - 1)
      <4>1. pc'[q] = "generate"
        BY <3>4, <1>a
      <4>2. \A n \in Node : n < next[q] \/ n = next[q]
        BY <3>4, <2>1, NodeOrder
      <4>3. QED
        BY <4>1, <4>2, <3>2, <2>1, Phases DEF FreshOf
    <3>5. QED
      BY <1>9, <2>3, <3>3, <3>4, ClearStateEffect
  <2>4. QED
    BY <2>2, <2>3
<1>10. CASE Spawn(q)
  <2>1. /\ pc[q] = "spawn" /\ dir[q] \in Dirs /\ dir' = dir /\ managed' = managed
        /\ pc'[q] \in {"spawn", "started"} /\ next[q] \in Node
    BY <1>10, <1>a, SpawnEffect
  <2>2. ASSUME managed[q]
        PROVE  \A n \in Node : db'[dir[q]][n] \in {None, q}
    <3>1. \A n \in Node : db[dir[q]][n] \in {None, q}
      BY <1>a, <2>1, <2>2, Phases DEF FreshOf
    <3>2. PICK v \in {None, q} : db' = [db EXCEPT ![dir[q]][next[q]] = v]
      BY <1>10, <2>1, <2>2, <3>1, SpawnEffect DEF ChainOf
    <3>3. v \in Run \union {None, External}
      OBVIOUS
    <3>4. \A m \in Node : db'[dir[q]][m] = IF m = next[q] THEN v ELSE db[dir[q]][m]
      BY <3>2, <3>3, <1>a, <2>1, WriteCell
    <3>5. QED
      BY <3>1, <3>4
  <2>3. QED
    BY <2>1, <2>2, Phases DEF FreshOf
<1>11. CASE RemoveSocket(q) \/ FreeData(q) \/ FreeControl(q) \/ Kill(q)
  BY <1>11, <1>a, <1>c DEF RemoveSocket, FreeData, FreeControl, Kill, Goto
<1>12. QED
  BY Steps, <1>1, <1>2, <1>3, <1>4, <1>5, <1>6, <1>7, <1>8, <1>9, <1>10, <1>11 DEF Act

-----------------------------------------------------------------------------
\* The invariant holds at first ...
LEMMA IInvInit == Init => IInv
<1> SUFFICES ASSUME Init
             PROVE  IInv
  OBVIOUS
<1>1. \A r \in Run : pc[r] = "new"
  BY DEF Init
<1>2. Shape
  <2>1. MaxNodes \in 1 .. MaxNodes /\ 0 \in Node
    BY ClusterConstants DEF Node
  <2>2. QED
    BY <2>1 DEF Init, Shape, Labels
<1>3. Locks
  BY <1>1, Classes DEF Locks, LocksOf
<1>4. StatusIsLive
  BY <1>1, Classes DEF StatusIsLive
<1>5. Fresh
  BY <1>1, Phases DEF Init, Fresh
<1>6. QED
  BY <1>2, <1>3, <1>4, <1>5 DEF IInv

\* ... and no step breaks it.
LEMMA IInvStep == IInv /\ [Next]_vars => IInv'
<1> SUFFICES ASSUME IInv, [Next]_vars
             PROVE  IInv'
  OBVIOUS
<1>1. CASE Next
  BY <1>1, ShapeStep, LocksStep, SocketStep, FreshStep DEF IInv
<1>2. CASE UNCHANGED vars
  BY <1>2 DEF vars, args, locks, summary, cleanup, outside, IInv, Shape, Locks, LocksOf,
              StatusIsLive, Fresh
<1>3. QED
  BY <1>1, <1>2

\* Which locks a run has at each step, whatever the other runs do, and what
\* follows from them is an invariant of the model.
THEOREM LocksInvariant == Spec => []IInv
BY IInvInit, IInvStep, PTL DEF Spec

\* ClusterLock::acquire on <dir>/data keeps two runs off one data directory, the
\* control bases they were started with notwithstanding.
THEOREM DirHasOneOwner == Spec => []OneRunPerDir
<1>1. IInv => OneRunPerDir
  BY DEF IInv, Locks, LocksOf, OneRunPerDir
<1>2. QED
  BY <1>1, LocksInvariant, PTL

\* ControlServer::start, its Drop and a rejected run leave alone the socket file
\* of a live run: a status query on a control base reaches the run that has it.
THEOREM QueriesReachLiveRun == Spec => []StatusIsLive
BY LocksInvariant, PTL DEF IInv

\* prepare_node_state rids a managed chain's nodes of any earlier chain's state,
\* and no other run brings some back before the cluster is stopped.
THEOREM NodesKnowOneChain == Spec => []StateOfThisChain
<1>1. IInv => StateOfThisChain
  BY Phases DEF IInv, Fresh, StateOfThisChain, Cleared
<1>2. QED
  BY <1>1, LocksInvariant, PTL

-----------------------------------------------------------------------------
\* The pid files.  Nobody writes one but the run that has just locked it.
PidTyped == written \in [LockFile -> Run \union {None}]

LEMMA PidWrites ==
    ASSUME Next
    PROVE  UNCHANGED written \/ \E r \in Run : WriteControlPid(r) \/ WriteDataPid(r)
<1> USE DEF args, locks, summary, cleanup, outside, Goto
<1>1. PICK r \in Run :
        \/ \E c \in LockFile, d \in Dirs, n \in 1 .. MaxNodes, b \in PortBases, m \in BOOLEAN :
             Launch(r, c, d, n, b, m)
        \/ Step(r) \/ Await(r)
        \/ \E n \in Node : Started(r, n) \/ Ready(r, n) \/ NodeServes(r, n) \/ NodeExits(r, n)
        \/ Mesh(r) \/ TimesOut(r) \/ Stop(r) \/ Kill(r)
  BY DEF Next
<1>2. CASE \E c \in LockFile, d \in Dirs, n \in 1 .. MaxNodes, b \in PortBases, m \in BOOLEAN :
             Launch(r, c, d, n, b, m)
  BY <1>2 DEF Launch
<1>3. CASE LockControl(r) \/ LockData(r) \/ Reject(r) \/ BindSocket(r) \/ StartChain(r)
  BY <1>3 DEF LockControl, LockData, TryLock, Reject, BindSocket, StartChain
<1>4. CASE StartChainFails(r) \/ ClearState(r) \/ Generate(r) \/ Spawn(r) \/ Fails(r)
  BY <1>4 DEF StartChainFails, ClearState, Generate, Spawn, Fails, Failed
<1>5. CASE KillNodes(r) \/ StopChain(r) \/ RemoveSocket(r) \/ FreeData(r) \/ FreeControl(r)
  BY <1>5 DEF KillNodes, Exit, StopChain, RemoveSocket, FreeData, FreeControl, Free
<1>6. CASE \E n \in Node : Started(r, n) \/ Ready(r, n) \/ NodeServes(r, n) \/ NodeExits(r, n)
  BY <1>6 DEF Started, Ready, Passes, NodeServes, NodeExits, Exit
<1>7. CASE Mesh(r) \/ TimesOut(r) \/ Stop(r) \/ Kill(r)
  BY <1>7 DEF Mesh, TimesOut, Stop, Kill, Failed
<1>8. QED
  BY <1>1, <1>2, <1>3, <1>4, <1>5, <1>6, <1>7 DEF Step, Await

LEMMA RunIsNot0 == \A r \in Run : r # None
BY ClusterConstants DEF Run, None

\* What is written is the holder's pid, or nothing.
LEMMA PidStep ==
    ASSUME IInv, PidTyped, [Next]_vars
    PROVE  /\ PidTyped'
           /\ \A f \in LockFile : written'[f] # written[f] =>
                holder[f] # None /\ written'[f] \in {holder[f], None}
<1>1. CASE \E r \in Run : WriteControlPid(r)
  <2>1. PICK r \in Run : WriteControlPid(r)
    BY <1>1
  <2>2. PICK pid \in {r, None, written[ctl[r]]} : written' = [written EXCEPT ![ctl[r]] = pid]
    BY <2>1 DEF WriteControlPid, Goto
  <2>3. pc[r] = "write control pid"
    BY <2>1 DEF WriteControlPid
  <2>4. ctl[r] \in LockFile /\ holder[ctl[r]] = r
    BY <2>3, Classes DEF IInv, Shape, Locks, LocksOf
  <2>5. QED
    BY <2>2, <2>4, RunIsNot0 DEF PidTyped
<1>2. CASE \E r \in Run : WriteDataPid(r)
  <2>1. PICK r \in Run : WriteDataPid(r)
    BY <1>2
  <2>2. PICK pid \in {r, None, written[dir[r]]} : written' = [written EXCEPT ![dir[r]] = pid]
    BY <2>1 DEF WriteDataPid, Goto
  <2>3. pc[r] = "write data pid"
    BY <2>1 DEF WriteDataPid
  <2>4. dir[r] \in LockFile /\ holder[dir[r]] = r
    BY <2>3, Classes DEF IInv, Shape, Locks, LocksOf, LockFile
  <2>5. QED
    BY <2>2, <2>4, RunIsNot0 DEF PidTyped
<1>3. CASE UNCHANGED written
  BY <1>3 DEF PidTyped
<1>4. CASE UNCHANGED vars
  BY <1>4, <1>3 DEF vars
<1>5. QED
  BY PidWrites, <1>1, <1>2, <1>3, <1>4

\* ClusterLock::acquire writes a pid file under the lock only, its own pid, and
\* the runs it turns away leave what is there alone: lock.rs's "contents are only
\* ever read while the lock is held (by a live holder)", as far as it goes.
THEOREM PidFilesAreHolders == Spec => PidIsHolders
<1>1. Init => PidTyped
  BY DEF Init, PidTyped
<1>2. IInv /\ PidTyped /\ [Next]_vars => PidTyped'
  BY PidStep
<1>3. IInv /\ PidTyped /\ [Next]_vars =>
        [\A f \in LockFile : written'[f] # written[f] =>
           holder[f] # None /\ written'[f] \in {holder[f], None}]_vars
  BY PidStep
<1>4. QED
  BY <1>1, <1>2, <1>3, LocksInvariant, PTL DEF Spec, PidIsHolders
-----------------------------------------------------------------------------
(***************************************************************************)
(* What a run leaves behind.                                               *)
(***************************************************************************)
\* Before a run has spawned its first node; while its nodes may be up; and once
\* it has killed them, or never had any.
Unspawned == Early \union {"clear state", "generate"}
Holding == {"spawn", "started", "ready", "mesh", "running", "kill nodes"}
Left == {"stop chain", "remove socket", "free data", "free control", "off"}

\* While a managed run has its container.
Chained == {"clear state"} \union {"generate"} \union Holding \union {"stop chain"}

NoProcs(r) == \A n \in Node : <<r, n>> \notin procs

Outcome ==
    /\ told \in [Run -> Run \union {None}]
    /\ status \in [Run -> {"not_running", "initializing", "starting", "running", "shutting_down", "failed"}]
    /\ nodeState \in [Run -> [Node -> {"pending", "spawned", "started", "ready", "channels_open"}]]
    /\ kids \in [Run -> SUBSET Node]
    /\ hasChain \in [Run -> BOOLEAN]
    /\ procs \subseteq Run \X Node
    /\ chain \in Run \union {None}
    /\ killed \subseteq Run
    /\ ~Abrupt => killed = {}

\* Whoever answers on a port of the host is a live process, and alone there.
Answering ==
    /\ api \subseteq procs
    /\ \A p, q \in api : ApiPort(p) = ApiPort(q) => p = q
    /\ \A r \in Run : pc[r] # "new" => base[r] \in PortBases

\* A run has processes for its own nodes only, all of them known to its cleanup
\* once it is past spawning, unless starting one failed; and what it has left it
\* has cleaned up, unless it was killed.
TidyOf(r) ==
    /\ refused[r] \in {None, ctl[r], dir[r]}
    /\ pc[r] = "new" => refused[r] = None
    /\ pc[r] = "read pid" => refused[r] \in LockFile
    /\ kids[r] \in {{}, NodesOf(r)}
    /\ \A n \in Node : <<r, n>> \in procs => n \in NodesOf(r)
    /\ pc[r] = "clear state" /\ ~managed[r] => next[r] = 0
    /\ pc[r] = "generate" => next[r] = 0
    /\ pc[r] = "spawn" => next[r] \in NodesOf(r)
    /\ pc[r] \in Unspawned => kids[r] = {} /\ NoProcs(r)
    /\ pc[r] = "spawn" => kids[r] = {}
    /\ pc[r] \in {"started", "ready", "mesh", "running"} => kids[r] = NodesOf(r)
    /\ pc[r] = "kill nodes" => kids[r] = NodesOf(r) \/ NoProcs(r) \/ (Abrupt /\ kids[r] = {})
    /\ pc[r] \in Left /\ r \notin killed => NoProcs(r) \/ (Abrupt /\ kids[r] = {})
    /\ chain = r => r \in killed \/ (hasChain[r] /\ pc[r] \in Chained)

Tidy == Outcome /\ PidTyped /\ Answering /\ \A r \in Run : TidyOf(r)

\* A step that starts and ends nothing: only the pc of r moves.
Passage(r) ==
    /\ UNCHANGED <<ctl, dir, size, base, managed, refused, next, kids, hasChain, procs, api, chain, db, killed>>
    /\ \E l \in Labels :
        /\ pc' = [pc EXCEPT ![r] = l]
        /\ l \notin {"new", "read pid", "clear state", "generate"} /\ pc[r] # "new"
        /\ l \in Unspawned => pc[r] \in Unspawned
        /\ l = "spawn" => pc[r] = "generate"
        /\ l \in {"started", "ready", "mesh", "running"} => pc[r] \in {"started", "ready", "mesh", "running"}
        /\ l = "kill nodes" => \/ pc[r] \in {"clear state", "generate", "started", "ready", "mesh", "running"}
                               \/ Abrupt /\ pc[r] = "spawn"
        /\ l \in Left => pc[r] \in Left \union Unspawned
        /\ pc[r] \in Chained => l \in Chained

\* The steps that do start or end something.
Deed(r) ==
    \/ \E c \in LockFile, d \in Dirs, n \in 1 .. MaxNodes, b \in PortBases, m \in BOOLEAN :
             Launch(r, c, d, n, b, m)
    \/ LockControl(r) \/ LockData(r) \/ Reject(r) \/ StartChain(r) \/ StartChainFails(r) \/ ClearState(r)
    \/ Spawn(r) \/ KillNodes(r) \/ StopChain(r) \/ Kill(r)
    \/ \E n \in Node : NodeServes(r, n) \/ NodeExits(r, n)

LEMMA Deeds ==
    ASSUME Shape, Next
    PROVE  \E r \in Run : Passage(r) \/ Deed(r)
<1> USE DEF Passage, args, locks, summary, cleanup, outside, Goto, Labels, Unspawned, Early, Left, Chained, Holding
<1>1. PICK r \in Run :
        \/ \E c \in LockFile, d \in Dirs, n \in 1 .. MaxNodes, b \in PortBases, m \in BOOLEAN :
             Launch(r, c, d, n, b, m)
        \/ Step(r) \/ Await(r)
        \/ \E n \in Node : Started(r, n) \/ Ready(r, n) \/ NodeServes(r, n) \/ NodeExits(r, n)
        \/ Mesh(r) \/ TimesOut(r) \/ Stop(r) \/ Kill(r)
  BY DEF Next
<1>2. WriteControlPid(r) => Passage(r)
  BY DEF WriteControlPid
<1>3. WriteDataPid(r) => Passage(r)
  BY DEF WriteDataPid
<1>4. BindSocket(r) => Passage(r)
  BY DEF BindSocket
<1>5. Generate(r) => Passage(r)
  BY DEF Generate
<1>6. Fails(r) => Passage(r)
  BY DEF Fails, Failed
<1>7. RemoveSocket(r) => Passage(r)
  BY DEF RemoveSocket
<1>8. FreeData(r) => Passage(r)
  BY DEF FreeData, Free
<1>9. FreeControl(r) => Passage(r)
  BY DEF FreeControl, Free
<1>10. ASSUME NEW n \in Node, Started(r, n) \/ Ready(r, n)
       PROVE  Passage(r)
  <2>1. CASE Started(r, n)
    <3>1. /\ pc[r] = "started" /\ (pc' = [pc EXCEPT ![r] = "ready"] \/ pc' = pc)
          /\ UNCHANGED <<ctl, dir, size, base, managed, refused, next, kids, hasChain, procs, api, chain, db, killed>>
      BY <2>1 DEF Started, Passes
    <3>2. pc' = [pc EXCEPT ![r] = "ready"] \/ pc' = [pc EXCEPT ![r] = "started"]
      BY <3>1 DEF Shape
    <3>3. QED
      BY <3>1, <3>2
  <2>2. CASE Ready(r, n)
    <3>1. /\ pc[r] = "ready" /\ (pc' = [pc EXCEPT ![r] = "mesh"] \/ pc' = pc)
          /\ UNCHANGED <<ctl, dir, size, base, managed, refused, next, kids, hasChain, procs, api, chain, db, killed>>
      BY <2>2 DEF Ready, Passes
    <3>2. pc' = [pc EXCEPT ![r] = "mesh"] \/ pc' = [pc EXCEPT ![r] = "ready"]
      BY <3>1 DEF Shape
    <3>3. QED
      BY <3>1, <3>2
  <2>3. QED
    BY <1>10, <2>1, <2>2
<1>11. Mesh(r) => Passage(r)
  BY DEF Mesh
<1>12. TimesOut(r) => Passage(r)
  BY DEF TimesOut, Failed
<1>13. Stop(r) => Passage(r)
  BY DEF Stop
<1>14. QED
  BY <1>1, <1>2, <1>3, <1>4, <1>5, <1>6, <1>7, <1>8, <1>9, <1>10, <1>11, <1>12, <1>13 DEF Step, Await, Deed

\* The nodes of a run are nodes.
LEMMA NodesOfNode ==
    ASSUME Shape, NEW r \in Run
    PROVE  NodesOf(r) \subseteq Node /\ 0 \in NodesOf(r)
<1>1. size[r] \in 1 .. MaxNodes /\ MaxNodes \in Nat
  BY ClusterConstants DEF Shape
<1>2. QED
  BY <1>1 DEF NodesOf, Node

-----------------------------------------------------------------------------
\* What becomes of the rest: each variable by the steps that change it.
LEMMA OutcomeStep ==
    ASSUME Shape, Tidy, Next
    PROVE  Outcome'
<1> USE DEF Outcome, args, locks, summary, cleanup, outside, Goto
<1>0. Outcome /\ PidTyped
  BY DEF Tidy
<1>1. PICK r \in Run :
        \/ \E c \in LockFile, d \in Dirs, n \in 1 .. MaxNodes, b \in PortBases, m \in BOOLEAN :
             Launch(r, c, d, n, b, m)
        \/ Step(r) \/ Await(r)
        \/ \E n \in Node : Started(r, n) \/ Ready(r, n) \/ NodeServes(r, n) \/ NodeExits(r, n)
        \/ Mesh(r) \/ TimesOut(r) \/ Stop(r) \/ Kill(r)
  BY DEF Next
<1>2. CASE \E c \in LockFile, d \in Dirs, n \in 1 .. MaxNodes, b \in PortBases, m \in BOOLEAN :
             Launch(r, c, d, n, b, m)
  BY <1>0, <1>2 DEF Launch
<1>3. CASE LockControl(r) \/ LockData(r) \/ WriteControlPid(r) \/ WriteDataPid(r)
  BY <1>0, <1>3 DEF LockControl, LockData, TryLock, WriteControlPid, WriteDataPid
<1>4. CASE Reject(r)
  <2>1. refused[r] \in LockFile
    BY <1>0, <1>4 DEF Reject, Tidy, TidyOf
  <2>2. written[refused[r]] \in Run \union {None}
    BY <1>0, <2>1 DEF PidTyped
  <2>3. QED
    BY <1>0, <1>4, <2>2 DEF Reject
<1>5. CASE BindSocket(r)
  BY <1>0, <1>5 DEF BindSocket
<1>6. CASE StartChain(r)
  BY <1>0, <1>6 DEF StartChain, Shape
<1>7. CASE StartChainFails(r)
  BY <1>0, <1>7 DEF StartChainFails
<1>8. CASE ClearState(r) \/ Generate(r)
  BY <1>0, <1>8 DEF ClearState, Generate
<1>9. CASE Spawn(r)
  <2>1. NodesOf(r) \subseteq Node /\ next[r] \in Node
    BY <1>0, NodesOfNode DEF Shape
  <2>2. /\ procs' = procs \union {<<r, next[r]>>}
        /\ kids' \in {kids, [kids EXCEPT ![r] = NodesOf(r)]}
        /\ status' \in {status, [status EXCEPT ![r] = "starting"]}
        /\ \/ nodeState' = nodeState
           \/ nodeState' = [nodeState EXCEPT ![r] =
                             [n \in Node |-> IF n \in NodesOf(r) THEN "spawned" ELSE nodeState[r][n]]]
        /\ UNCHANGED <<told, hasChain, chain, killed>>
    BY <1>0, <1>9 DEF Spawn
  <2>3. [n \in Node |-> IF n \in NodesOf(r) THEN "spawned" ELSE nodeState[r][n]]
           \in [Node -> {"pending", "spawned", "started", "ready", "channels_open"}]
    BY <1>0
  <2>4. nodeState' \in [Run -> [Node -> {"pending", "spawned", "started", "ready", "channels_open"}]]
    BY <1>0, <2>2, <2>3
  <2>5. kids' \in [Run -> SUBSET Node]
    BY <1>0, <2>1, <2>2
  <2>6. procs' \subseteq Run \X Node
    BY <1>0, <2>1, <2>2
  <2>7. QED
    BY <1>0, <2>2, <2>4, <2>5, <2>6
<1>10. CASE Fails(r) \/ TimesOut(r)
  BY <1>0, <1>10 DEF Fails, TimesOut, Failed
<1>11. CASE KillNodes(r) \/ RemoveSocket(r) \/ FreeData(r) \/ FreeControl(r)
  BY <1>0, <1>11 DEF KillNodes, Exit, RemoveSocket, FreeData, FreeControl, Free
<1>12. CASE StopChain(r)
  BY <1>0, <1>12 DEF StopChain
<1>13. ASSUME NEW n \in Node, NEW reached \in {"started", "ready"}, NEW wait, NEW then,
              Passes(r, n, wait, reached, then)
       PROVE  Outcome'
  <2>1. /\ nodeState' = [nodeState EXCEPT ![r][n] = reached]
        /\ UNCHANGED <<told, status, kids, hasChain, procs, chain, killed>>
    BY <1>0, <1>13 DEF Passes
  <2>2. [nodeState[r] EXCEPT ![n] = reached] \in [Node -> {"pending", "spawned", "started", "ready", "channels_open"}]
    BY <1>0
  <2>3. nodeState' = [nodeState EXCEPT ![r] = [nodeState[r] EXCEPT ![n] = reached]]
    BY <1>0, <2>1
  <2>4. nodeState' \in [Run -> [Node -> {"pending", "spawned", "started", "ready", "channels_open"}]]
    BY <1>0, <2>2, <2>3
  <2>5. QED
    BY <1>0, <2>1, <2>4
<1>14. CASE \E n \in Node : Started(r, n) \/ Ready(r, n) \/ NodeServes(r, n) \/ NodeExits(r, n)
  <2>1. CASE \E n \in Node : Started(r, n) \/ Ready(r, n)
    BY <1>13, <2>1 DEF Started, Ready
  <2>2. CASE \E n \in Node : NodeServes(r, n) \/ NodeExits(r, n)
    BY <1>0, <2>2 DEF NodeServes, NodeExits, Exit
  <2>3. QED
    BY <1>14, <2>1, <2>2
<1>15. CASE Mesh(r)
  <2>1. /\ status' = [status EXCEPT ![r] = "running"]
        /\ \/ nodeState' = nodeState
           \/ nodeState' = [nodeState EXCEPT ![r] =
                             [n \in Node |-> IF n \in NodesOf(r) THEN "channels_open" ELSE nodeState[r][n]]]
        /\ UNCHANGED <<told, kids, hasChain, procs, chain, killed>>
    BY <1>0, <1>15 DEF Mesh
  <2>2. [n \in Node |-> IF n \in NodesOf(r) THEN "channels_open" ELSE nodeState[r][n]]
           \in [Node -> {"pending", "spawned", "started", "ready", "channels_open"}]
    BY <1>0
  <2>3. nodeState' \in [Run -> [Node -> {"pending", "spawned", "started", "ready", "channels_open"}]]
    BY <1>0, <2>1, <2>2
  <2>4. QED
    BY <1>0, <2>1, <2>3
<1>16. CASE Stop(r) \/ Kill(r)
  BY <1>0, <1>16 DEF Stop, Kill
<1>17. QED
  BY <1>1, <1>2, <1>3, <1>4, <1>5, <1>6, <1>7, <1>8, <1>9, <1>10, <1>11, <1>12, <1>14, <1>15, <1>16 DEF Step, Await


-----------------------------------------------------------------------------
\* What a run is left alone with stays tidy.
LEMMA OthersTidy ==
    ASSUME NEW q \in Run, TidyOf(q), pc'[q] = pc[q],
           ctl'[q] = ctl[q], dir'[q] = dir[q], size'[q] = size[q], managed'[q] = managed[q],
           refused'[q] = refused[q], next'[q] = next[q], kids'[q] = kids[q], hasChain'[q] = hasChain[q],
           \A n \in Node : <<q, n>> \in procs' => <<q, n>> \in procs,
           chain' = q => chain = q, killed \subseteq killed'
    PROVE  TidyOf(q)'
<1>1. NodesOf(q)' = NodesOf(q)
  BY DEF NodesOf
<1>2. NoProcs(q) => NoProcs(q)'
  BY DEF NoProcs
<1> HIDE DEF NoProcs, NodesOf
<1>3. QED
  BY <1>1, <1>2 DEF TidyOf

\* The labels of a run, by what it has.
LEMMA Stages ==
    /\ {"new", "lock control", "write control pid", "lock data", "write data pid", "read pid",
        "bind socket", "start chain", "clear state", "generate"} \subseteq Unspawned
    /\ {"spawn", "started", "ready", "mesh", "running", "kill nodes"} \intersect Unspawned = {}
    /\ {"stop chain", "remove socket", "free data", "free control", "off"} = Left
    /\ Left \intersect Unspawned = {} /\ Left \intersect Holding = {}
    /\ Unspawned \intersect Chained = {"clear state", "generate"}
    /\ Left \intersect Chained = {"stop chain"}
    /\ Holding \subseteq Chained
BY DEF Unspawned, Early, Holding, Left, Chained

LEMMA PassageTidy ==
    ASSUME Shape, \A q \in Run : TidyOf(q), NEW r \in Run, Passage(r)
    PROVE  \A q \in Run : TidyOf(q)'
<1>1. ASSUME NEW q \in Run, q # r
      PROVE  TidyOf(q)'
  BY <1>1, OthersTidy DEF Shape, Passage
<1>2. TidyOf(r)'
  <2>1. NodesOf(r)' = NodesOf(r) /\ NoProcs(r)' = NoProcs(r)
    BY DEF NodesOf, NoProcs, Passage
  <2>2. PICK l \in Labels :
            /\ pc' = [pc EXCEPT ![r] = l]
            /\ l \notin {"new", "read pid", "clear state", "generate"} /\ pc[r] # "new"
            /\ l \in Unspawned => pc[r] \in Unspawned
            /\ l = "spawn" => pc[r] = "generate"
            /\ l \in {"started", "ready", "mesh", "running"} => pc[r] \in {"started", "ready", "mesh", "running"}
            /\ l = "kill nodes" => \/ pc[r] \in {"clear state", "generate", "started", "ready", "mesh", "running"}
                                   \/ Abrupt /\ pc[r] = "spawn"
            /\ l \in Left => pc[r] \in Left \union Unspawned
            /\ pc[r] \in Chained => l \in Chained
    BY DEF Passage
  <2>3. /\ pc'[r] = l
        /\ UNCHANGED <<ctl, dir, size, base, managed, refused, next, kids, hasChain, procs, chain, killed>>
    BY <2>2 DEF Passage, Shape
  <2>4. 0 \in NodesOf(r)
    BY NodesOfNode
  <2>5. TidyOf(r)
    OBVIOUS
  <2> HIDE DEF NodesOf, NoProcs
  <2>6. /\ pc[r] = "generate" => pc[r] \in Unspawned
        /\ pc[r] = "clear state" => pc[r] \in Unspawned
    BY Stages
  <2>7. /\ refused'[r] \in {None, ctl'[r], dir'[r]}
        /\ pc'[r] = "new" => refused'[r] = None
        /\ pc'[r] = "read pid" => refused'[r] \in LockFile
        /\ kids'[r] \in {{}, NodesOf(r)'}
        /\ \A n \in Node : <<r, n>> \in procs' => n \in NodesOf(r)'
        /\ pc'[r] = "clear state" /\ ~managed'[r] => next'[r] = 0
        /\ pc'[r] = "generate" => next'[r] = 0
        /\ pc'[r] = "spawn" => next'[r] \in NodesOf(r)'
    BY <2>1, <2>2, <2>3, <2>4, <2>5 DEF TidyOf
  <2>8. /\ pc'[r] \in Unspawned => kids'[r] = {} /\ NoProcs(r)'
        /\ pc'[r] = "spawn" => kids'[r] = {}
        /\ pc'[r] \in {"started", "ready", "mesh", "running"} => kids'[r] = NodesOf(r)'
    BY <2>1, <2>2, <2>3, <2>5, <2>6 DEF TidyOf
  <2>9. pc'[r] = "kill nodes" => kids'[r] = NodesOf(r)' \/ NoProcs(r)' \/ (Abrupt /\ kids'[r] = {})
    BY <2>1, <2>2, <2>3, <2>5, <2>6 DEF TidyOf
  <2>10. pc'[r] \in Left /\ r \notin killed' => NoProcs(r)' \/ (Abrupt /\ kids'[r] = {})
    BY <2>1, <2>2, <2>3, <2>5 DEF TidyOf
  <2>11. chain' = r => r \in killed' \/ (hasChain'[r] /\ pc'[r] \in Chained)
    BY <2>2, <2>3, <2>5 DEF TidyOf
  <2>12. QED
    BY <2>7, <2>8, <2>9, <2>10, <2>11 DEF TidyOf
<1>3. QED
  BY <1>1, <1>2


\* A run without nodes is tidy if what it was refused and its container are.
LEMMA IdleTidy ==
    ASSUME NEW r \in Run, kids'[r] = {}, NoProcs(r)',
           pc'[r] \notin {"spawn", "started", "ready", "mesh", "running"},
           refused'[r] \in {None, ctl'[r], dir'[r]},
           pc'[r] = "new" => refused'[r] = None,
           pc'[r] = "read pid" => refused'[r] \in LockFile,
           pc'[r] = "clear state" /\ ~managed'[r] => next'[r] = 0,
           pc'[r] = "generate" => next'[r] = 0,
           chain' = r => r \in killed' \/ (hasChain'[r] /\ pc'[r] \in Chained)
    PROVE  TidyOf(r)'
<1>1. \A n \in Node : <<r, n>> \in procs' => n \in NodesOf(r)'
  BY DEF NoProcs
<1> HIDE DEF NoProcs, NodesOf
<1>2. QED
  BY <1>1 DEF TidyOf

\* A run that is launched has nothing yet.
LEMMA LaunchTidy ==
    ASSUME IInv, \A q \in Run : TidyOf(q), NEW r \in Run, NEW c \in LockFile, NEW d \in Dirs, NEW n \in 1 .. MaxNodes,
           NEW b \in PortBases, NEW m \in BOOLEAN, Launch(r, c, d, n, b, m)
    PROVE  \A q \in Run : TidyOf(q)'
<1>0. Shape
  BY DEF IInv
<1>1. /\ pc[r] = "new" /\ pc' = [pc EXCEPT ![r] = "lock control"]
      /\ ctl' = [ctl EXCEPT ![r] = c] /\ dir' = [dir EXCEPT ![r] = d]
      /\ size' = [size EXCEPT ![r] = n] /\ managed' = [managed EXCEPT ![r] = m]
      /\ UNCHANGED <<refused, next, kids, hasChain, procs, chain, killed>>
  BY <1>0 DEF Launch, Goto, locks, cleanup, outside
<1>2. ASSUME NEW q \in Run, q # r
      PROVE  TidyOf(q)'
  BY <1>0, <1>1, <1>2, OthersTidy DEF Shape
<1>3. TidyOf(r)'
  <2>1. pc'[r] = "lock control"
    BY <1>0, <1>1 DEF Shape
  <2>2. TidyOf(r) /\ pc[r] = "new"
    BY <1>1
  <2>3. NoProcs(r)' = NoProcs(r)
    BY <1>1 DEF NoProcs
  <2>4. refused[r] = None /\ kids[r] = {} /\ NoProcs(r)
    BY <2>2, Stages DEF TidyOf
  <2>5. \A k \in Node : <<r, k>> \notin procs'
    BY <1>1, <2>4 DEF NoProcs
  <2>6. chain' = r => r \in killed'
    BY <1>1, <2>2, Stages DEF TidyOf
  <2>7. /\ kids'[r] = {} /\ NoProcs(r)' /\ refused'[r] = None
    BY <1>1, <2>3, <2>4
  <2>8. QED
    BY <2>1, <2>3, <2>4, <2>6, <2>7, IdleTidy
<1>4. QED
  BY <1>2, <1>3

\* The winner goes on, the loser knows which lock it was refused.
LEMMA LockControlTidy ==
    ASSUME IInv, \A q \in Run : TidyOf(q), NEW r \in Run, LockControl(r)
    PROVE  \A q \in Run : TidyOf(q)'
<1>0. Shape
  BY DEF IInv
<1>1. /\ pc[r] = "lock control"
      /\ \/ /\ \E l \in {"write control pid"} : pc' = [pc EXCEPT ![r] = l]
            /\ refused' = refused
         \/ /\ pc' = [pc EXCEPT ![r] = "read pid"]
            /\ refused' = [refused EXCEPT ![r] = ctl[r]]
      /\ UNCHANGED <<ctl, dir, size, base, managed, next, kids, hasChain, procs, chain, killed>>
  BY <1>0 DEF LockControl, TryLock, Goto, args, cleanup, outside
<1>2. ASSUME NEW q \in Run, q # r
      PROVE  TidyOf(q)'
  BY <1>0, <1>1, <1>2, OthersTidy DEF Shape
<1>3. TidyOf(r)'
  <2>1. NodesOf(r)' = NodesOf(r) /\ NoProcs(r)' = NoProcs(r)
    BY <1>1 DEF NodesOf, NoProcs
  <2>2. TidyOf(r)
    OBVIOUS
  <2>3. pc[r] \in Unspawned /\ pc'[r] \in {"write control pid", "read pid"}
    BY <1>0, <1>1, Stages DEF Shape
  <2>4. ctl[r] \in LockFile
    BY <1>0, <1>1 DEF Shape, LockFile
  <2>5. /\ refused'[r] \in {None, ctl'[r], dir'[r]}
        /\ pc'[r] = "read pid" => refused'[r] \in LockFile
    BY <1>0, <1>1, <2>2, <2>4 DEF Shape, TidyOf
  <2>6. kids[r] = {} /\ NoProcs(r) /\ (chain = r => r \in killed)
    BY <1>1, <2>2, <2>3, Stages DEF TidyOf
  <2>7. kids'[r] = {} /\ NoProcs(r)' /\ (chain' = r => r \in killed')
    BY <1>1, <2>1, <2>6
  <2>8. QED
    BY <2>1, <2>3, <2>5, <2>6, <2>7, IdleTidy
<1>4. QED
  BY <1>2, <1>3

\* So for the lock of the data directory.
LEMMA LockDataTidy ==
    ASSUME IInv, \A q \in Run : TidyOf(q), NEW r \in Run, LockData(r)
    PROVE  \A q \in Run : TidyOf(q)'
<1>0. Shape
  BY DEF IInv
<1>1. /\ pc[r] = "lock data"
      /\ \/ /\ \E l \in {"bind socket", "write data pid"} : pc' = [pc EXCEPT ![r] = l]
            /\ refused' = refused
         \/ /\ pc' = [pc EXCEPT ![r] = "read pid"]
            /\ refused' = [refused EXCEPT ![r] = dir[r]]
      /\ UNCHANGED <<ctl, dir, size, base, managed, next, kids, hasChain, procs, chain, killed>>
  BY <1>0 DEF LockData, TryLock, Goto, args, cleanup, outside
<1>2. ASSUME NEW q \in Run, q # r
      PROVE  TidyOf(q)'
  BY <1>0, <1>1, <1>2, OthersTidy DEF Shape
<1>3. TidyOf(r)'
  <2>1. NodesOf(r)' = NodesOf(r) /\ NoProcs(r)' = NoProcs(r)
    BY <1>1 DEF NodesOf, NoProcs
  <2>2. TidyOf(r)
    OBVIOUS
  <2>3. pc[r] \in Unspawned /\ pc'[r] \in {"bind socket", "write data pid", "read pid"}
    BY <1>0, <1>1, Stages DEF Shape
  <2>4. dir[r] \in LockFile
    BY <1>0, <1>1 DEF Shape, LockFile
  <2>5. /\ refused'[r] \in {None, ctl'[r], dir'[r]}
        /\ pc'[r] = "read pid" => refused'[r] \in LockFile
    BY <1>0, <1>1, <2>2, <2>4 DEF Shape, TidyOf
  <2>6. kids[r] = {} /\ NoProcs(r) /\ (chain = r => r \in killed)
    BY <1>1, <2>2, <2>3, Stages DEF TidyOf
  <2>7. kids'[r] = {} /\ NoProcs(r)' /\ (chain' = r => r \in killed')
    BY <1>1, <2>1, <2>6
  <2>8. QED
    BY <2>1, <2>3, <2>5, <2>6, <2>7, IdleTidy
<1>4. QED
  BY <1>2, <1>3

\* A run that is turned away has nothing to leave.
LEMMA RejectTidy ==
    ASSUME IInv, \A q \in Run : TidyOf(q), NEW r \in Run, Reject(r)
    PROVE  \A q \in Run : TidyOf(q)'
<1>0. Shape
  BY DEF IInv
<1>1. /\ pc[r] = "read pid" /\ \E l \in {"off", "free control"} : pc' = [pc EXCEPT ![r] = l]
      /\ UNCHANGED <<ctl, dir, size, base, managed, refused, next, kids, hasChain, procs, chain, killed>>
  BY <1>0 DEF Reject, Goto, args, cleanup, outside
<1>2. ASSUME NEW q \in Run, q # r
      PROVE  TidyOf(q)'
  BY <1>0, <1>1, <1>2, OthersTidy DEF Shape
<1>3. TidyOf(r)'
  <2>1. NodesOf(r)' = NodesOf(r) /\ NoProcs(r)' = NoProcs(r)
    BY <1>1 DEF NodesOf, NoProcs
  <2>2. TidyOf(r)
    OBVIOUS
  <2>3. pc[r] \in Unspawned /\ pc'[r] \in {"off", "free control"}
    BY <1>0, <1>1, Stages DEF Shape
  <2>4. kids[r] = {} /\ NoProcs(r) /\ (chain = r => r \in killed)
    BY <1>1, <2>2, <2>3, Stages DEF TidyOf
  <2>5. kids'[r] = {} /\ NoProcs(r)' /\ (chain' = r => r \in killed') /\ refused'[r] \in {None, ctl'[r], dir'[r]}
    BY <1>1, <2>1, <2>2, <2>4 DEF TidyOf
  <2>6. QED
    BY <2>1, <2>3, <2>4, <2>5, IdleTidy
<1>4. QED
  BY <1>2, <1>3

\* The container a run has started is the one it will remove.
LEMMA StartChainTidy ==
    ASSUME IInv, Outcome, \A q \in Run : TidyOf(q), NEW r \in Run, StartChain(r)
    PROVE  \A q \in Run : TidyOf(q)'
<1>0. Shape
  BY DEF IInv
<1>h. hasChain \in [Run -> BOOLEAN] /\ kids \in [Run -> SUBSET Node]
  BY DEF Outcome
<1>1. /\ pc[r] = "start chain" /\ pc' = [pc EXCEPT ![r] = "clear state"]
      /\ chain' = IF managed[r] THEN r ELSE chain
      /\ hasChain' = [hasChain EXCEPT ![r] = managed[r]]
      /\ UNCHANGED <<ctl, dir, size, base, managed, refused, next, kids, procs, killed>>
  BY <1>0 DEF StartChain, Goto, args, locks
<1>2. ASSUME NEW q \in Run, q # r
      PROVE  TidyOf(q)'
  BY <1>0, <1>1, <1>2, <1>h, OthersTidy DEF Shape
<1>3. TidyOf(r)'
  <2>1. NodesOf(r)' = NodesOf(r) /\ NoProcs(r)' = NoProcs(r)
    BY <1>1 DEF NodesOf, NoProcs
  <2>2. TidyOf(r)
    OBVIOUS
  <2>3. pc[r] \in Unspawned /\ pc'[r] = "clear state"
    BY <1>0, <1>1, Stages DEF Shape
  <2>4. kids[r] = {} /\ NoProcs(r) /\ (chain = r => r \in killed)
    BY <1>1, <2>2, <2>3, Stages DEF TidyOf
  <2>5. next'[r] = 0
    BY <1>1 DEF IInv, Fresh, Early
  <2>6. chain' = r => r \in killed' \/ hasChain'[r]
    BY <1>1, <2>4, <1>h
  <2>7. /\ kids'[r] = {} /\ NoProcs(r)' /\ refused'[r] \in {None, ctl'[r], dir'[r]}
        /\ chain' = r => r \in killed' \/ (hasChain'[r] /\ pc'[r] \in Chained)
    BY <1>1, <2>1, <2>2, <2>3, <2>4, <2>6, Stages DEF TidyOf
  <2>8. QED
    BY <2>1, <2>3, <2>4, <2>5, <2>6, <2>7, IdleTidy
<1>4. QED
  BY <1>2, <1>3

\* Without a container of its own there is none in its name.
LEMMA StartChainFailsTidy ==
    ASSUME IInv, \A q \in Run : TidyOf(q), NEW r \in Run, StartChainFails(r)
    PROVE  \A q \in Run : TidyOf(q)'
<1>0. Shape
  BY DEF IInv
<1>1. /\ pc[r] = "start chain" /\ pc' = [pc EXCEPT ![r] = "kill nodes"]
      /\ chain' \in {None, chain}
      /\ UNCHANGED <<ctl, dir, size, base, managed, refused, next, kids, hasChain, procs, killed>>
  BY <1>0 DEF StartChainFails, Goto, args, locks, cleanup
<1>2. ASSUME NEW q \in Run, q # r
      PROVE  TidyOf(q)'
  BY <1>0, <1>1, <1>2, OthersTidy, RunIsNot0 DEF Shape
<1>3. TidyOf(r)'
  <2>1. NodesOf(r)' = NodesOf(r) /\ NoProcs(r)' = NoProcs(r)
    BY <1>1 DEF NodesOf, NoProcs
  <2>2. TidyOf(r)
    OBVIOUS
  <2>3. pc[r] \in Unspawned /\ pc'[r] = "kill nodes"
    BY <1>0, <1>1, Stages DEF Shape
  <2>4. kids[r] = {} /\ NoProcs(r) /\ (chain' = r => r \in killed)
    BY <1>1, <2>2, <2>3, Stages, RunIsNot0 DEF TidyOf
  <2>5. kids'[r] = {} /\ NoProcs(r)' /\ (chain' = r => r \in killed') /\ refused'[r] \in {None, ctl'[r], dir'[r]}
    BY <1>1, <2>1, <2>2, <2>4 DEF TidyOf
  <2>6. QED
    BY <2>1, <2>3, <2>4, <2>5, IdleTidy
<1>4. QED
  BY <1>2, <1>3

\* The loop over the node directories ends at the first node.
LEMMA ClearStateTidy ==
    ASSUME IInv, \A q \in Run : TidyOf(q), NEW r \in Run, ClearState(r)
    PROVE  \A q \in Run : TidyOf(q)'
<1>0. Shape
  BY DEF IInv
<1>1. /\ pc[r] = "clear state"
      /\ \/ managed[r] /\ pc' = pc /\ next' = [next EXCEPT ![r] = @ + 1]
         \/ pc' = [pc EXCEPT ![r] = "generate"] /\ next' = [next EXCEPT ![r] = 0]
         \/ ~managed[r] /\ pc' = [pc EXCEPT ![r] = "generate"] /\ next' = next
      /\ UNCHANGED <<ctl, dir, size, base, managed, refused, kids, hasChain, procs, chain, killed>>
  BY <1>0 DEF ClearState, Goto, args, locks, cleanup
<1>2. ASSUME NEW q \in Run, q # r
      PROVE  TidyOf(q)'
  BY <1>0, <1>1, <1>2, OthersTidy DEF Shape
<1>3. TidyOf(r)'
  <2>1. NodesOf(r)' = NodesOf(r) /\ NoProcs(r)' = NoProcs(r)
    BY <1>1 DEF NodesOf, NoProcs
  <2>2. TidyOf(r)
    OBVIOUS
  <2>3. pc[r] \in Unspawned /\ pc'[r] \in {"clear state", "generate"}
    BY <1>0, <1>1, Stages DEF Shape
  <2>4. kids[r] = {} /\ NoProcs(r) /\ (chain = r => r \in killed \/ hasChain[r])
    BY <1>1, <2>2, <2>3, Stages DEF TidyOf
  <2>5. /\ pc'[r] = "clear state" /\ ~managed'[r] => next'[r] = 0
        /\ pc'[r] = "generate" => next'[r] = 0
    BY <1>0, <1>1, <2>2 DEF Shape, TidyOf
  <2>6. /\ kids'[r] = {} /\ NoProcs(r)' /\ refused'[r] \in {None, ctl'[r], dir'[r]}
        /\ chain' = r => r \in killed' \/ (hasChain'[r] /\ pc'[r] \in Chained)
    BY <1>1, <2>1, <2>2, <2>3, <2>4, Stages DEF TidyOf
  <2>7. QED
    BY <2>1, <2>3, <2>4, <2>5, <2>6, IdleTidy
<1>4. QED
  BY <1>2, <1>3

\* Once all processes are spawned, cleanup knows of all of them.
LEMMA SpawnTidy ==
    ASSUME IInv, Outcome, \A q \in Run : TidyOf(q), NEW r \in Run, Spawn(r)
    PROVE  \A q \in Run : TidyOf(q)'
<1>0. Shape
  BY DEF IInv
<1>h. hasChain \in [Run -> BOOLEAN] /\ kids \in [Run -> SUBSET Node]
  BY DEF Outcome
<1>1. /\ pc[r] = "spawn"
      /\ procs' = procs \union {<<r, next[r]>>}
      /\ \/ /\ next[r] < LastNode(r)
            /\ pc' = pc /\ kids' = kids /\ next' = [next EXCEPT ![r] = @ + 1]
         \/ /\ pc' = [pc EXCEPT ![r] = "started"] /\ kids' = [kids EXCEPT ![r] = NodesOf(r)]
            /\ next' = [next EXCEPT ![r] = 0]
      /\ UNCHANGED <<ctl, dir, size, base, managed, refused, hasChain, chain, killed>>
  BY <1>0 DEF Spawn, Goto, args, locks
<1>2. ASSUME NEW q \in Run, q # r
      PROVE  TidyOf(q)'
  BY <1>0, <1>1, <1>2, <1>h, OthersTidy DEF Shape
<1>3. TidyOf(r)'
  <2>1. NodesOf(r)' = NodesOf(r)
    BY <1>1 DEF NodesOf
  <2>2. TidyOf(r)
    OBVIOUS
  <2>3. pc[r] = "spawn" /\ pc'[r] \in {"spawn", "started"} /\ pc[r] \in Holding
    BY <1>0, <1>1 DEF Shape, Holding
  <2>4. next[r] \in NodesOf(r) /\ kids[r] = {}
    BY <2>2, <2>3 DEF TidyOf
  <2>5. pc'[r] = "spawn" => next'[r] \in NodesOf(r) /\ kids'[r] = {}
    <3>1. next[r] < LastNode(r) => next[r] + 1 \in NodesOf(r)
      <4>1. size[r] \in Nat /\ next[r] \in Nat
        <5>1. size[r] \in 1 .. MaxNodes /\ next[r] \in Node
          BY <1>0 DEF Shape
        <5>2. next[r] \in Nat
          BY <5>1, NodeBounds
        <5>3. MaxNodes \in Nat
          BY ClusterConstants
        <5>4. QED
          BY <5>1, <5>2, <5>3
      <4>2. QED
        BY <4>1 DEF NodesOf, LastNode
    <3>2. ASSUME pc'[r] = "spawn"
          PROVE  next'[r] = next[r] + 1 /\ next[r] < LastNode(r) /\ kids' = kids
      BY <1>0, <1>1, <3>2 DEF Shape
    <3>3. QED
      BY <2>4, <3>1, <3>2
  <2>6. pc'[r] = "started" => kids'[r] = NodesOf(r)
    BY <1>1, <2>3, <1>h
  <2>7. \A n \in Node : <<r, n>> \in procs' => n \in NodesOf(r)'
    BY <1>1, <2>1, <2>2, <2>4 DEF TidyOf
  <2> HIDE DEF NodesOf, NoProcs
  <2>8. pc'[r] \notin Unspawned \union Left \union {"kill nodes"} /\ pc'[r] \in Chained
    BY <2>3 DEF Unspawned, Early, Left, Chained, Holding
  <2>9. refused'[r] \in {None, ctl'[r], dir'[r]} /\ kids'[r] \in {{}, NodesOf(r)'}
    BY <1>1, <2>1, <2>2, <2>3, <2>5, <2>6 DEF TidyOf
  <2>10. chain' = r => r \in killed' \/ hasChain'[r]
    BY <1>1, <2>2 DEF TidyOf
  <2>11. QED
    BY <2>1, <2>3, <2>5, <2>6, <2>7, <2>8, <2>9, <2>10 DEF TidyOf
<1>4. QED
  BY <1>2, <1>3

\* Cleanup kills every child, and all processes are children.
LEMMA KillNodesTidy ==
    ASSUME IInv, \A q \in Run : TidyOf(q), NEW r \in Run, KillNodes(r)
    PROVE  \A q \in Run : TidyOf(q)'
<1>0. Shape
  BY DEF IInv
<1>1. /\ pc[r] = "kill nodes" /\ pc' = [pc EXCEPT ![r] = "stop chain"]
      /\ procs' = procs \ ({r} \X kids[r])
      /\ UNCHANGED <<ctl, dir, size, base, managed, refused, next, kids, hasChain, chain, killed>>
  BY <1>0 DEF KillNodes, Exit, Goto, args, locks, cleanup
<1>2. ASSUME NEW q \in Run, q # r
      PROVE  TidyOf(q)'
  BY <1>0, <1>1, <1>2, OthersTidy DEF Shape
<1>3. TidyOf(r)'
  <2>1. NodesOf(r)' = NodesOf(r)
    BY <1>1 DEF NodesOf
  <2>2. TidyOf(r) /\ pc[r] = "kill nodes" /\ pc'[r] = "stop chain"
    BY <1>0, <1>1 DEF Shape
  <2>3. kids[r] = NodesOf(r) \/ NoProcs(r) \/ (Abrupt /\ kids[r] = {})
    BY <2>2 DEF TidyOf
  <2>4. \A n \in Node : <<r, n>> \in procs => n \in NodesOf(r)
    BY <2>2 DEF TidyOf
  <2>5. NoProcs(r)' \/ (Abrupt /\ kids[r] = {})
    BY <1>1, <2>3, <2>4 DEF NoProcs
  <2>6. \A n \in Node : <<r, n>> \in procs' => n \in NodesOf(r)'
    BY <1>1, <2>1, <2>4
  <2> HIDE DEF NodesOf, NoProcs
  <2>7. QED
    BY <1>1, <2>1, <2>2, <2>5, <2>6, Stages DEF TidyOf
<1>4. QED
  BY <1>2, <1>3

\* The container goes, whoever's it is, if the run has started one.
LEMMA StopChainTidy ==
    ASSUME IInv, \A q \in Run : TidyOf(q), NEW r \in Run, StopChain(r)
    PROVE  \A q \in Run : TidyOf(q)'
<1>0. Shape
  BY DEF IInv
<1>1. /\ pc[r] = "stop chain" /\ pc' = [pc EXCEPT ![r] = "remove socket"]
      /\ chain' = IF hasChain[r] THEN None ELSE chain
      /\ UNCHANGED <<ctl, dir, size, base, managed, refused, next, kids, hasChain, procs, killed>>
  BY <1>0 DEF StopChain, Goto, args, locks, cleanup
<1>2. ASSUME NEW q \in Run, q # r
      PROVE  TidyOf(q)'
  BY <1>0, <1>1, <1>2, OthersTidy, RunIsNot0 DEF Shape
<1>3. TidyOf(r)'
  <2>1. NodesOf(r)' = NodesOf(r) /\ NoProcs(r)' = NoProcs(r)
    BY <1>1 DEF NodesOf, NoProcs
  <2>2. TidyOf(r)
    OBVIOUS
  <2>3. pc[r] = "stop chain" /\ pc'[r] = "remove socket"
    BY <1>0, <1>1 DEF Shape
  <2>4. chain' = r => r \in killed
    BY <1>1, <2>2, RunIsNot0 DEF TidyOf
  <2> HIDE DEF NodesOf, NoProcs
  <2>5. /\ refused'[r] \in {None, ctl'[r], dir'[r]} /\ kids'[r] \in {{}, NodesOf(r)'}
        /\ \A n \in Node : <<r, n>> \in procs' => n \in NodesOf(r)'
    BY <1>1, <2>1, <2>2 DEF TidyOf
  <2>6. r \notin killed => NoProcs(r) \/ (Abrupt /\ kids[r] = {})
    <3>1. pc[r] \in Left
      BY <2>3, Stages
    <3>2. QED
      BY <2>2, <3>1 DEF TidyOf
  <2>7. pc'[r] \notin Unspawned
    BY <2>3, Stages
  <2>8. QED
    BY <1>1, <2>1, <2>3, <2>4, <2>5, <2>6, <2>7 DEF TidyOf
<1>4. QED
  BY <1>2, <1>3

\* A run that is killed leaves what it has.
LEMMA KillTidy ==
    ASSUME IInv, \A q \in Run : TidyOf(q), NEW r \in Run, Kill(r)
    PROVE  \A q \in Run : TidyOf(q)'
<1>0. Shape
  BY DEF IInv
<1>1. /\ pc' = [pc EXCEPT ![r] = "off"] /\ killed' = killed \union {r}
      /\ UNCHANGED <<ctl, dir, size, base, managed, refused, next, kids, hasChain, procs, chain>>
  BY <1>0 DEF Kill, Goto, args, cleanup, outside
<1>2. ASSUME NEW q \in Run, q # r
      PROVE  TidyOf(q)'
  BY <1>0, <1>1, <1>2, OthersTidy DEF Shape
<1>3. TidyOf(r)'
  <2>1. NodesOf(r)' = NodesOf(r) /\ NoProcs(r)' = NoProcs(r)
    BY <1>1 DEF NodesOf, NoProcs
  <2>2. TidyOf(r)
    OBVIOUS
  <2>3. pc'[r] = "off" /\ r \in killed'
    BY <1>0, <1>1 DEF Shape
  <2> HIDE DEF NodesOf, NoProcs
  <2>4. /\ refused'[r] \in {None, ctl'[r], dir'[r]} /\ kids'[r] \in {{}, NodesOf(r)'}
        /\ \A n \in Node : <<r, n>> \in procs' => n \in NodesOf(r)'
    BY <1>1, <2>1, <2>2 DEF TidyOf
  <2>5. pc'[r] \notin Unspawned
    BY <2>3, Stages
  <2>6. QED
    BY <2>3, <2>4, <2>5 DEF TidyOf
<1>4. QED
  BY <1>2, <1>3

\* What nodes do adds no process.
LEMMA NodesTidy ==
    ASSUME IInv, \A q \in Run : TidyOf(q), NEW r \in Run, NEW n \in Node, NodeServes(r, n) \/ NodeExits(r, n)
    PROVE  \A q \in Run : TidyOf(q)'
<1>1. /\ procs' \subseteq procs
      /\ UNCHANGED <<pc, ctl, dir, size, base, managed, refused, next, kids, hasChain, chain, killed>>
  BY DEF NodeServes, NodeExits, Exit, args, locks, cleanup
<1>2. QED
  BY <1>1, OthersTidy


-----------------------------------------------------------------------------
\* A port is let go when its process ends, and taken when nobody has it; a run
\* that is launched has no process yet whose port its base could move.
LEMMA AnsweringStep ==
    ASSUME IInv, Tidy, Next
    PROVE  Answering'
<1>0. Shape /\ Answering /\ Outcome
  BY DEF IInv, Tidy
<1>1. PICK r \in Run : Passage(r) \/ Deed(r)
  BY <1>0, Deeds
<1>2. ASSUME UNCHANGED <<base, api>>, procs \subseteq procs',
             \A q \in Run : pc'[q] # "new" => pc[q] # "new"
      PROVE  Answering'
  BY <1>0, <1>2 DEF Answering, ApiPort
<1>3. ASSUME NEW P, Exit(P), UNCHANGED base, \A q \in Run : pc'[q] # "new" => pc[q] # "new"
      PROVE  Answering'
  BY <1>0, <1>3 DEF Answering, ApiPort, Exit
<1>4. CASE Passage(r)
  <2>1. UNCHANGED <<base, api, procs>> /\ \A q \in Run : pc'[q] # "new" => pc[q] # "new"
    BY <1>0, <1>4 DEF Passage, Shape
  <2>2. QED
    BY <1>2, <2>1
<1>5. ASSUME NEW c \in LockFile, NEW d \in Dirs, NEW n \in 1 .. MaxNodes,
             NEW b \in PortBases, NEW m \in BOOLEAN, Launch(r, c, d, n, b, m)
      PROVE  Answering'
  <2>1. /\ UNCHANGED <<procs, api>> /\ base' = [base EXCEPT ![r] = b] /\ pc[r] = "new"
        /\ \A q \in Run : q # r /\ pc'[q] # "new" => pc[q] # "new"
    BY <1>0, <1>5 DEF Launch, Goto, outside, Shape
  <2>2. NoProcs(r)
    BY <2>1, Stages DEF Tidy, TidyOf
  <2>3. ASSUME NEW p \in api
        PROVE  ApiPort(p)' = ApiPort(p)
    <3>1. p \in Run \X Node /\ p \in procs
      BY <1>0 DEF Answering, Outcome
    <3>2. PICK q \in Run, k \in Node : p = <<q, k>>
      BY <3>1
    <3>3. q # r
      BY <2>2, <3>1, <3>2 DEF NoProcs
    <3>4. base'[q] = base[q]
      BY <1>0, <2>1, <3>3 DEF Shape
    <3>5. QED
      BY <3>2, <3>4 DEF ApiPort
  <2>4. ASSUME NEW q \in Run, pc'[q] # "new"
        PROVE  base'[q] \in PortBases
    BY <1>0, <2>1, <2>4 DEF Answering, Shape
  <2>5. \A p, q \in api' : ApiPort(p)' = ApiPort(q)' => p = q
    BY <1>0, <2>1, <2>3 DEF Answering
  <2>6. QED
    BY <1>0, <2>1, <2>4, <2>5 DEF Answering
<1>6. CASE LockControl(r) \/ LockData(r) \/ Reject(r)
  <2>1. /\ UNCHANGED <<base, api, procs>>
        /\ pc[r] \in {"lock control", "lock data", "read pid"}
        /\ \E l \in Labels : pc' = [pc EXCEPT ![r] = l]
    BY <1>6 DEF LockControl, LockData, Reject, TryLock, Goto, args, outside, Labels
  <2>2. QED
    BY <1>0, <1>2, <2>1 DEF Shape
<1>7. CASE StartChain(r) \/ StartChainFails(r) \/ StopChain(r)
  <2>1. /\ UNCHANGED <<base, api, procs>>
        /\ pc[r] \in {"start chain", "stop chain"}
        /\ \E l \in Labels : pc' = [pc EXCEPT ![r] = l]
    BY <1>7 DEF StartChain, StartChainFails, StopChain, Goto, args, Labels
  <2>2. QED
    BY <1>0, <1>2, <2>1 DEF Shape
<1>8. CASE ClearState(r) \/ Spawn(r)
  <2>1. /\ UNCHANGED <<base, api>> /\ procs \subseteq procs'
        /\ pc[r] \in {"clear state", "spawn"}
        /\ pc' = pc \/ \E l \in Labels : pc' = [pc EXCEPT ![r] = l]
    BY <1>8 DEF ClearState, Spawn, Goto, args, Labels
  <2>2. QED
    BY <1>0, <1>2, <2>1 DEF Shape
<1>9. CASE KillNodes(r)
  <2>1. /\ UNCHANGED base /\ pc[r] = "kill nodes" /\ pc' = [pc EXCEPT ![r] = "stop chain"]
        /\ Exit({r} \X kids[r])
    BY <1>9 DEF KillNodes, Goto, args
  <2>2. QED
    BY <1>0, <1>3, <2>1 DEF Shape
<1>10. CASE Kill(r)
  <2>1. UNCHANGED <<base, api, procs>> /\ pc[r] # "new" /\ pc' = [pc EXCEPT ![r] = "off"]
    BY <1>10 DEF Kill, Goto, args, outside
  <2>2. QED
    BY <1>0, <1>2, <2>1 DEF Shape
<1>11. ASSUME NEW n \in Node, NodeServes(r, n)
       PROVE  Answering'
  <2>1. /\ <<r, n>> \in procs /\ api' = api \union {<<r, n>>}
        /\ UNCHANGED <<base, procs, pc>>
        /\ \A p \in api : ApiPort(p) # ApiPort(<<r, n>>)
    BY <1>11 DEF NodeServes, args, Answers
  <2>2. \A p : ApiPort(p)' = ApiPort(p)
    BY <2>1 DEF ApiPort
  <2>3. QED
    BY <1>0, <2>1, <2>2 DEF Answering
<1>12. ASSUME NEW n \in Node, NodeExits(r, n)
       PROVE  Answering'
  BY <1>3, <1>12 DEF NodeExits, args
<1>13. QED
  BY <1>1, <1>4, <1>5, <1>6, <1>7, <1>8, <1>9, <1>10, <1>11, <1>12 DEF Deed

LEMMA TidyInit == Init => Tidy
<1> SUFFICES ASSUME Init
             PROVE  Tidy
  OBVIOUS
<1>1. Outcome
  BY DEF Init, Outcome
<1>2. PidTyped
  BY DEF Init, PidTyped
<1>3. Answering
  BY DEF Init, Answering
<1>4. ASSUME NEW r \in Run
      PROVE  TidyOf(r)
  BY RunIsNot0 DEF Init, TidyOf, NoProcs, Unspawned, Early, Left
<1>5. QED
  BY <1>1, <1>2, <1>3, <1>4 DEF Tidy

LEMMA TidyStep ==
    ASSUME IInv, Tidy, [Next]_vars
    PROVE  Tidy'
<1>1. CASE UNCHANGED vars
  <2>1. UNCHANGED <<base, api, procs, pc>>
    BY <1>1 DEF vars
  <2>2. Answering'
    BY <2>1 DEF Tidy, Answering, ApiPort
  <2>3. Outcome' /\ PidTyped'
    BY <1>1 DEF vars, Tidy, Outcome, PidTyped
  <2>4. \A r \in Run : TidyOf(r)'
    BY <1>1 DEF vars, Tidy, TidyOf, NoProcs, NodesOf
  <2>5. QED
    BY <2>2, <2>3, <2>4 DEF Tidy
<1>2. CASE Next
  <2>1. Shape /\ Outcome /\ \A q \in Run : TidyOf(q)
    BY DEF IInv, Tidy
  <2>2. Outcome'
    BY <1>2, <2>1, OutcomeStep
  <2>3. PidTyped'
    BY PidStep DEF Tidy
  <2>4. Answering'
    BY <1>2, AnsweringStep
  <2>5. PICK r \in Run : Passage(r) \/ Deed(r)
    BY <1>2, <2>1, Deeds
  <2>6. CASE Passage(r)
    BY <2>1, <2>2, <2>3, <2>4, <2>6, PassageTidy DEF Tidy
  <2>7. CASE Deed(r)
    <3>1. \A q \in Run : TidyOf(q)'
      BY <2>1, <2>7, LaunchTidy, LockControlTidy, LockDataTidy, RejectTidy, StartChainTidy,
         StartChainFailsTidy, ClearStateTidy, SpawnTidy, KillNodesTidy, StopChainTidy, KillTidy, NodesTidy
      DEF Deed
    <3>2. QED
      BY <2>2, <2>3, <2>4, <3>1 DEF Tidy
  <2>8. QED
    BY <2>5, <2>6, <2>7
<1>3. QED
  BY <1>1, <1>2

\* What runs leave behind, beside the locks they hold.
THEOREM TidyInvariant == Spec => []Tidy
BY TidyInit, TidyStep, LocksInvariant, PTL DEF Spec

\* Cleanup::shutdown kills all children of a run whose nodes were all spawned, and
\* `rm -f hopr-chain` removes its container, unless the run itself was killed.
THEOREM ExitsAreClean == Spec => []CleanExit
<1>1. ASSUME IInv, Tidy
      PROVE  CleanExit
  <2>1. TypeOK
    BY <1>1 DEF TypeOK, IInv, Shape, Tidy, Outcome, PidTyped, Answering, TidyOf
  <2>2. ASSUME NEW r \in Run, pc[r] = "off", r \notin killed
        PROVE  /\ kids[r] # {} => procs \intersect ({r} \X Node) = {}
               /\ chain # r
    <3>1. TidyOf(r) /\ pc[r] \in Left /\ pc[r] \notin Chained
      BY <1>1, <2>2, Stages DEF Tidy
    <3>2. kids[r] # {} => NoProcs(r)
      BY <2>2, <3>1 DEF TidyOf
    <3>3. chain # r
      BY <2>2, <3>1 DEF TidyOf
    <3>4. QED
      BY <3>2, <3>3 DEF NoProcs
  <2>3. QED
    BY <2>1, <2>2 DEF CleanExit
<1>2. QED
  BY <1>1, TidyInvariant, LocksInvariant, PTL

-----------------------------------------------------------------------------
\* The state of a node is written for all nodes at once, or when one has answered.
LEMMA NodeStateWrites ==
    ASSUME Next
    PROVE  \/ UNCHANGED nodeState
           \/ \E r \in Run : Spawn(r) \/ Mesh(r) \/ \E n \in Node : Started(r, n) \/ Ready(r, n)
<1> USE DEF args, locks, summary, cleanup, outside
<1>1. PICK r \in Run :
        \/ \E c \in LockFile, d \in Dirs, n \in 1 .. MaxNodes, b \in PortBases, m \in BOOLEAN :
             Launch(r, c, d, n, b, m)
        \/ Step(r) \/ Await(r)
        \/ \E n \in Node : Started(r, n) \/ Ready(r, n) \/ NodeServes(r, n) \/ NodeExits(r, n)
        \/ Mesh(r) \/ TimesOut(r) \/ Stop(r) \/ Kill(r)
  BY DEF Next
<1>2. CASE \E c \in LockFile, d \in Dirs, n \in 1 .. MaxNodes, b \in PortBases, m \in BOOLEAN :
             Launch(r, c, d, n, b, m)
  BY <1>2 DEF Launch
<1>3. CASE Step(r) \/ Await(r)
  <2>1. LockControl(r) \/ LockData(r) \/ WriteControlPid(r) \/ WriteDataPid(r) => UNCHANGED nodeState
    BY DEF LockControl, LockData, WriteControlPid, WriteDataPid
  <2>2. Reject(r) \/ BindSocket(r) \/ StartChain(r) \/ StartChainFails(r) => UNCHANGED nodeState
    BY DEF Reject, BindSocket, StartChain, StartChainFails
  <2>3. ClearState(r) \/ Generate(r) \/ Fails(r) => UNCHANGED nodeState
    BY DEF ClearState, Generate, Fails, Failed
  <2>4. KillNodes(r) \/ StopChain(r) \/ RemoveSocket(r) \/ FreeData(r) \/ FreeControl(r) => UNCHANGED nodeState
    BY DEF KillNodes, StopChain, RemoveSocket, FreeData, FreeControl
  <2>5. QED
    BY <1>3, <2>1, <2>2, <2>3, <2>4 DEF Step, Await
<1>4. CASE \E n \in Node : Started(r, n) \/ Ready(r, n) \/ NodeServes(r, n) \/ NodeExits(r, n)
  BY <1>4 DEF NodeServes, NodeExits
<1>5. CASE Mesh(r) \/ TimesOut(r) \/ Stop(r) \/ Kill(r)
  BY <1>5 DEF TimesOut, Failed, Stop, Kill
<1>6. QED
  BY <1>1, <1>2, <1>3, <1>4, <1>5

\* Only "started" and "ready" are written for what a node has answered.
LEMMA AnswersAreWaitedFor ==
    ASSUME Shape, Outcome, Next, NEW r \in Run, NEW n \in Node,
           nodeState'[r][n] # nodeState[r][n], nodeState'[r][n] \in {"started", "ready"}
    PROVE  pc[r] \in {"started", "ready"}
<1>1. PICK q \in Run : Spawn(q) \/ Mesh(q) \/ \E m \in Node : Started(q, m) \/ Ready(q, m)
  BY NodeStateWrites
<1>2. ASSUME NEW w \in {"spawned", "channels_open"},
             nodeState' = [nodeState EXCEPT ![q] = [m \in Node |-> IF m \in NodesOf(q) THEN w ELSE nodeState[q][m]]]
      PROVE  FALSE
  <2>1. CASE q = r
    BY <1>2, <2>1 DEF Outcome
  <2>2. CASE q # r
    BY <1>2, <2>2 DEF Outcome
  <2>3. QED
    BY <2>1, <2>2
<1>3. nodeState' # nodeState
  OBVIOUS
<1>4. ~Spawn(q)
  <2>1. Spawn(q) => nodeState' = [nodeState EXCEPT ![q] =
                                   [m \in Node |-> IF m \in NodesOf(q) THEN "spawned" ELSE nodeState[q][m]]]
    BY <1>3 DEF Spawn, summary, Outcome
  <2>2. QED
    BY <1>2, <2>1
<1>5. ~Mesh(q)
  <2>1. Mesh(q) => nodeState' = [nodeState EXCEPT ![q] =
                                   [m \in Node |-> IF m \in NodesOf(q) THEN "channels_open" ELSE nodeState[q][m]]]
    BY <1>3 DEF Mesh, Outcome
  <2>2. QED
    BY <1>2, <2>1
<1>6. PICK m \in Node : Started(q, m) \/ Ready(q, m)
  BY <1>1, <1>4, <1>5
<1>7. /\ pc[q] \in {"started", "ready"}
      /\ \E w \in {"started", "ready"} : nodeState' = [nodeState EXCEPT ![q][m] = w]
  BY <1>6 DEF Started, Ready, Passes
<1>8. q = r /\ m = n
  BY <1>7 DEF Outcome
<1>9. QED
  BY <1>7, <1>8

\* On one port of the host a run's own nodes have different numbers, so another
\* process that answers there is another run's; and one whose run is off was left
\* by a run that was killed or that failed before it knew its nodes.
THEOREM OwnNodesAnswer == Spec => AnswersAreOurs
<1>1. ASSUME IInv, Tidy, [Next]_vars, NEW r \in Run, NEW n \in Node,
             nodeState'[r][n] # nodeState[r][n], nodeState'[r][n] \in {"started", "ready"},
             NEW p \in Answers(r, n)
      PROVE  \/ p = <<r, n>>
             \/ /\ p[1] # r
                /\ pc[p[1]] # "off" \/ p[1] \in killed \/ kids[p[1]] = {}
  <2>1. Shape /\ Outcome /\ Answering
    BY <1>1 DEF IInv, Tidy
  <2>2. Next
    BY <1>1 DEF vars
  <2>3. pc[r] \in {"started", "ready"}
    BY <1>1, <2>1, <2>2, AnswersAreWaitedFor
  <2>4. base[r] \in Nat
    BY <2>1, <2>3, ClusterConstants DEF Answering
  <2>5. p \in procs /\ p \in Run \X Node
    BY <2>1 DEF Answers, Answering, Outcome
  <2>6. PICK q \in Run, m \in Node : p = <<q, m>>
    BY <2>5
  <2>7. base[q] + m = base[r] + n
    BY <2>6 DEF Answers, ApiPort
  <2>8. CASE q = r
    BY <2>4, <2>6, <2>7, <2>8 DEF Node
  <2>9. CASE q # r
    <3>1. TidyOf(q) /\ ~NoProcs(q)
      BY <1>1, <2>5, <2>6 DEF Tidy, NoProcs
    <3>2. pc[q] = "off" /\ q \notin killed => kids[q] = {}
      BY <3>1 DEF TidyOf, Left
    <3>3. QED
      BY <2>6, <2>9, <3>2
  <2>10. QED
    BY <2>8, <2>9
<1>2. IInv /\ Tidy /\ [Next]_vars =>
        [\A r \in Run, n \in Node :
           nodeState'[r][n] # nodeState[r][n] /\ nodeState'[r][n] \in {"started", "ready"}
           => \A p \in Answers(r, n) :
                \/ p = <<r, n>>
                \/ /\ p[1] # r
                   /\ pc[p[1]] # "off" \/ p[1] \in killed \/ kids[p[1]] = {}]_vars
  BY <1>1
<1>3. QED
  BY <1>2, TidyInvariant, LocksInvariant, PTL DEF Spec, AnswersAreOurs

=============================================================================
