-------------------------- MODULE MCRelayHandshake --------------------------
(***************************************************************************)
(* RelayHandshake for TLC. The keys are interchangeable: every attempt     *)
(* draws one of those left. The runs with liveness do not use the symmetry.*)
(***************************************************************************)
EXTENDS RelayHandshake, TLC

Symmetry == Permutations(Keys)
=============================================================================
