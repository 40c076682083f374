--------------------------- MODULE SessionSettings --------------------------
(***************************************************************************)
(* The settings of a client Session between the units of the API and those *)
(* of the protocol: rest-api/src/session.rs, SessionConfig.  A buffer is   *)
(* in bytes and becomes a number of SURBs, each good for a payload of Mtu  *)
(* bytes; a bandwidth is in bits and becomes SURBs per second.  In JSON a  *)
(* buffer is a text with one decimal of its unit, a bandwidth is exact.    *)
(***************************************************************************)
EXTENDS Integers

CONSTANTS Mtu,        \* SESSION_MTU
          SurbBits,   \* 8 * SURB_SIZE
          NoSession,  \* no client Session of the id
          Nothing     \* Option::None

ASSUME UnitsArePositive == Mtu \in Nat \ {0} /\ SurbBits \in Nat \ {0}

\* Option::None is none of the numbers a configuration can give, nor its Some.
ASSUME NothingIsNoNumber == Nothing \notin Nat /\ Nothing \notin [target : Nat, rate : Nat]

\* A SessionConfig: either setting may be missing.
IsConfig(config) == config.buffer \in Nat \cup {Nothing} /\ config.upstream \in Nat \cup {Nothing}

DefaultSurbs == [target |-> 7000, rate |-> 5000]   \* SurbBalancerConfig::default

SmallestBuffer == 2 * Mtu

\* Option<SurbBalancerConfig>::from(SessionConfig): a buffer too small asks
\* for no SURBs to be kept.
ToSurbs(config) ==
    IF config.buffer = Nothing THEN DefaultSurbs
    ELSE IF config.buffer >= SmallestBuffer
         THEN [target |-> config.buffer \div Mtu,
               rate |-> IF config.upstream = Nothing THEN DefaultSurbs.rate ELSE config.upstream \div SurbBits]
         ELSE Nothing

\* ByteSize written and read back, as serde does: bytes as they are, else the
\* nearest tenth of the largest unit that fits (of two the even one), from which
\* the fraction of a byte is cut off.  Units past GiB are left out.
KiB == 1024
MiB == 1024 * KiB
GiB == 1024 * MiB
UnitOf(bytes) == IF bytes < KiB THEN 1 ELSE IF bytes < MiB THEN KiB ELSE IF bytes < GiB THEN MiB ELSE GiB
Tenths(bytes, u) ==
    LET up == (20 * bytes + u) \div (2 * u)
    IN  IF (20 * bytes + u) % (2 * u) = 0 /\ up % 2 = 1 THEN up - 1 ELSE up
Displayed(bytes) ==
    LET u == UnitOf(bytes) IN IF u = 1 THEN bytes ELSE (Tenths(bytes, u) * u) \div 10

ToConfigMixed(surbs) ==      \* a mutant: the payload's size for the SURB's, and the reverse
    [buffer |-> Displayed(surbs.target * (SurbBits \div 8)), upstream |-> surbs.rate * 8 * Mtu]

\* SessionConfig::from(SurbBalancerConfig), and its JSON.
ToConfig(surbs) == [buffer |-> Displayed(surbs.target * Mtu), upstream |-> surbs.rate * SurbBits]
=============================================================================
