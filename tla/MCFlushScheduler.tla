-------------------------- MODULE MCFlushScheduler --------------------------
(******************************************************************************)
(* One block, one outage and every caller of the breaker; the scenarios pair  *)
(* the callers that share flush_lock with what disturbs them.                 *)
(******************************************************************************)
EXTENDS FlushScheduler, TLC
=============================================================================
