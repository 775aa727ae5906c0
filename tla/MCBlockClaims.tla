---------------------------- MODULE MCBlockClaims ----------------------------
(*****************************************************************************)
(* Two requests in flight on a block of two pages, a sub-block and a         *)
(* full-block one, two writes and one flush cycle: a request meets every     *)
(* step of the other one and of the flush.                                   *)
(*****************************************************************************)
EXTENDS BlockClaims

Orders == {{"fetch_error", "upload_error"},
           {"bypassed_claim", "drop_in_promote", "fetch_error"}}
==============================================================================
