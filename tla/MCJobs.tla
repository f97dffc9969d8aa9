------------------------------- MODULE MCJobs -------------------------------
(* The permits of notifier.rs, one toast and two lookups, and how often a row is claimed.  *)
EXTENDS Jobs, TLC

CONSTANTS f, t, w
MCMaxClaims == (f :> 1) @@ (t :> 2) @@ (w :> 3)
MCPermits == [toast |-> 1, web |-> 2]
=============================================================================
