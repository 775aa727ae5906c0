----------------------------- MODULE MCPackStore -----------------------------
(******************************************************************************)
(* Two volumes, two layers and a grace period of three ticks (an operation    *)
(* takes one): three flushes and two operations are enough for a pack to be   *)
(* marked, referenced again, dropped and collected.                           *)
(******************************************************************************)
EXTENDS PackStore

OwnPool == [v \in Vols |-> v]

\* Two values at one offset, one value at another, and a hole punched.
Contents == {0 :> "a", 0 :> "b", (0 :> "a") @@ (1 :> "a"), 0 :> Zero}
=============================================================================
