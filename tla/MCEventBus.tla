----------------------------- MODULE MCEventBus -----------------------------
(***************************************************************************)
(* Model checking of the event buses, whichever backend is configured.     *)
(* Liveness is checked as well, hence no symmetry.                         *)
(***************************************************************************)
EXTENDS EventBuses

=============================================================================
