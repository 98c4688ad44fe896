---------------------------- MODULE MCBanChecker ----------------------------
(***************************************************************************)
(* Model checking of BanChecker.  Tenants and handlers are interchangeable *)
(* in the specification and in the properties.                             *)
(***************************************************************************)
EXTENDS BanChecker, TLC

Symmetry == Permutations(Tenants) \cup Permutations(Handlers)

=============================================================================
