------------------------------ MODULE MCRelay ------------------------------
(***************************************************************************)
(* Relay for TLC: peers are model values that only their sessions tell     *)
(* apart, so permuting them is a symmetry of the safety runs.              *)
(***************************************************************************)
EXTENDS Relay, TLC

PeerSymmetry == Permutations(Peers)
=============================================================================
