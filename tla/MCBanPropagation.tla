-------------------------- MODULE MCBanPropagation --------------------------
(***************************************************************************)
(* Model checking of BanPropagation.  Callers and handlers are             *)
(* interchangeable in the specification and in the invariants.             *)
(***************************************************************************)
EXTENDS BanPropagation, TLC

Symmetry == Permutations(Callers) \cup Permutations(Handlers)

=============================================================================
