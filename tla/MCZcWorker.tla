----------------------------- MODULE MCZcWorker -----------------------------
(***************************************************************************)
(* Two queues with two tags that share one slot of the worker's ring, two  *)
(* requests and one rotation of the data file.                             *)
(***************************************************************************)
EXTENDS ZcWorker

ZcCombos ==
    {{"write", "flush", "rotate"}, {"read", "chunks", "error", "rotate"},
     {"write", "error", "evict"}, {"write", "zeroes", "panic", "rotate"},
     {"write", "stop", "drop", "second"}, {"noop", "stop", "second", "error"},
     {"write", "shutdown", "rotate"}, {"no_ring", "shutdown", "second", "drop"},
     {"noop", "stop", "drop", "refused"}}

\* A transfer that ends before its length.
ShortTransfer == {{"write", "short"}}
=============================================================================
