------------------------------ MODULE Callers ------------------------------
(***************************************************************************)
(* Who calls the services of one process, and about whom.                  *)
(***************************************************************************)
EXTENDS FiniteSets

CONSTANTS
    Goroutines,
    Tenants,
    Nil          \* no goroutine, no call, no entry

ASSUME CallersAssumption == Nil \notin Goroutines /\ IsFiniteSet(Goroutines)

=============================================================================
