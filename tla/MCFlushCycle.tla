---------------------------- MODULE MCFlushCycle ----------------------------
(***************************************************************************)
(* Two blocks, one content besides zero, three writes, two rotations and   *)
(* two passes are enough for a write racing each step of a pass, a retry   *)
(* of a skipped block and a second pass over what a first one left.  A     *)
(* third rotation, for a content that a block had before, is explored      *)
(* while one block only has been written.                                  *)
(***************************************************************************)
EXTENDS FlushCycle, TLC

Failures == {{"zc", "flush_error", "rotate_error"},
             {"crash_marked", "timer"},
             {"manifest_error", "save_error", "crash_marked"}}

ThirdRotation == cycles <= 2 \/ \E b \in Blocks : last[b] = {Zero} /\ state[b] = "NOT_PRESENT"

\* Blocks and contents are each interchangeable.
Symmetric == Permutations(Contents) \cup Permutations(Blocks)
=============================================================================
