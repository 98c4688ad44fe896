------------------------- MODULE MCReferenceServer -------------------------
(***************************************************************************)
(* Model checking of ReferenceServer: a few requests.  Liveness is checked *)
(* as well, hence no symmetry.                                             *)
(***************************************************************************)
EXTENDS ReferenceServer

=============================================================================
