---------------------------- MODULE MCRetryQueue ----------------------------
(***************************************************************************)
(* Model checking of RetryQueue: small queues, few retries.                *)
(***************************************************************************)
EXTENDS RetryQueue

=============================================================================
