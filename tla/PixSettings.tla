---------------------------- MODULE PixSettings -----------------------------
(* The PIX settings of a cluster and what they become in its nodes' configs    *)
(* (localcluster/src/identity.rs). Shares are sold by an Exit and paid by an   *)
(* Entry: the two halves of a configuration are read by different nodes and    *)
(* nothing of them is negotiated but the quota. Deadlines and fill rates are   *)
(* copied and left out; prices are in 10^-7 wxHOPR.                            *)
EXTENDS Naturals, FiniteSets

BytesPerShare == 1452           \* external: PIX_QUOTA_BYTES_PER_SHARE
MaxBatch == 9                   \* external: MAX_SSA_BATCH_SIZE

\* PixSettings::default.
Demo == [parts |-> 8, size |-> 2, extra |-> 2,          \* the share generator
         quotaMin |-> 0, quotaMax |-> 1024 * 1024,      \* what an Exit accepts
         batch |-> 1, cap |-> 2,        \* SSAs an Exit asks for, an Entry agrees to, at once
         dynamic |-> TRUE,              \* allow_dynamic_ssa_batches
         enforce |-> {}, price |-> 715, allocation |-> 100000000]

\* from_yaml: every field is optional, an unknown one is an error.
Readable(file) == DOMAIN file \subseteq DOMAIN Demo
Merged(file) == [field \in DOMAIN Demo |-> IF field \in DOMAIN file THEN file[field] ELSE Demo[field]]

\* quota_per_ssa, which counts the surplus as well.
QuotaPerSsa(set) == set.parts * (set.size + set.extra) * BytesPerShare

\* pix_global_config, the same on every node.
PixGlobal(set) ==
  [parts |-> set.parts, size |-> set.size, extra |-> set.extra, cap |-> set.cap]

\* A plausible bug: what the batch means is left at the node's default.
IncomingPixDefaulted(set, id) ==
  [enforce |-> id \in set.enforce, quotaMin |-> set.quotaMin, quotaMax |-> set.quotaMax,
   batch |-> set.batch, dynamic |-> TRUE]

\* incoming_pix_config, which only differs in who insists on PIX.
IncomingPix(set, id) ==
  [enforce |-> id \in set.enforce, quotaMin |-> set.quotaMin, quotaMax |-> set.quotaMax,
   batch |-> set.batch, dynamic |-> set.dynamic]

\* The Pix stanza of the strategies.
PixStanza(set) == [price |-> set.price, allocation |-> set.allocation]

PixConfig(set, id) ==
  [global |-> PixGlobal(set), incoming |-> IncomingPix(set, id), stanza |-> PixStanza(set)]
None == [none |-> TRUE]
NoPixConfig == [global |-> None, incoming |-> None, stanza |-> None]

-----------------------------------------------------------------------------
(* External: what two nodes make of their configurations.                      *)

\* What an Entry emits for one SSA.
Emitted(global) == global.parts * (global.size + global.extra) * BytesPerShare

Clamped(n) == IF n < 1 THEN 1 ELSE IF n > MaxBatch THEN MaxBatch ELSE n

\* The batch an Exit asks for: none, the one it was told, or the least whose
\* total quota it accepts.
Fits(incoming, quota) ==
  {n \in 1 .. Clamped(incoming.batch) : n * quota \in incoming.quotaMin .. incoming.quotaMax}
Asks(incoming, quota) ==
  IF incoming.dynamic
  THEN {n \in Fits(incoming, quota) : \A m \in Fits(incoming, quota) : n <= m}
  ELSE {n \in {Clamped(incoming.batch)} : quota \in incoming.quotaMin .. incoming.quotaMax}

\* Whether a Session from one node to another is served and paid for.
Serves(entry, exit) ==
  LET quota == Emitted(entry.global)
  IN /\ \E n \in Asks(exit.incoming, quota) : n <= Clamped(entry.global.cap)
     /\ entry.stanza.price * quota <= entry.stanza.allocation
=============================================================================
