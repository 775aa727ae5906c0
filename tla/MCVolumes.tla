----------------------------- MODULE MCVolumes -----------------------------
(***************************************************************************)
(* A volume: what is on its local disk, what a read finds there or in S3,  *)
(* and the requests that create, fork, resize, snapshot and delete it.     *)
(*                                                                         *)
(* Checkpoint: one block and two sequence numbers, so that the block is    *)
(* written, flushed and written again.  A writer without the block's lock  *)
(* runs beside checkpoints that fail, one with it beside everything else   *)
(* that is rare.                                                           *)
(*                                                                         *)
(* ReadPath: two blocks, two writes and three packs, and one read that     *)
(* meets whatever the scenario allows; in the scenario of a run of its own *)
(* the index cache is under pressure while a look-up refills it.           *)
(*                                                                         *)
(* Exports: two volumes, one of them served over nbd, and two requests in  *)
(* flight of three, beside a failing call and a crash; a second write      *)
(* beside snapshots.  The request slots are interchangeable, the volumes   *)
(* are not.                                                                *)
(***************************************************************************)
EXTENDS Checkpoint, ReadPath, Exports, TLC

VARIABLE part

RequestSymmetry == Permutations(Reqs)

WriterScenes ==
    {[events |-> {"save_error"}, unlocked |-> Writers]}
    \cup {[events |-> {e}, unlocked |-> {}] : e \in {"handoff", "save_metadata", "wal_error"}}

ReadScenes ==
    {{"evict", "get"}, {"evict", "zero"}, {"compact", "gc", "evict"}, {"prefetch", "evict"}}

SecondWrite == writes <= 1 \/ "snapshot" \in events

IndexPressure == {{"evict", "pressure"}}

-----------------------------------------------------------------------------
(* A behaviour is one of the three parts; the others stay where they start.*)

MCInit ==
    /\ part \in {"checkpoint", "read", "exports"}
    /\ Init /\ RInit /\ ExportsInit
    /\ part # "checkpoint" => scene = CHOOSE s \in Scenarios : TRUE
    /\ part # "read" => rMay = CHOOSE s \in RScenarios : TRUE
    /\ part # "exports" => events = CHOOSE s \in ExScenarios : TRUE
    /\ part # "exports" \/ "resize" \notin events => objects[BaseKey(Base)].size = 1

MCNext ==
    \/ part = "checkpoint" /\ Next /\ UNCHANGED <<rVars, exportsVars, part>>
    \/ part = "read" /\ RNext /\ UNCHANGED <<vars, exportsVars, part>>
    \/ part = "exports" /\ ExportsNext /\ UNCHANGED <<vars, rVars, part>>

MCSpec == MCInit /\ [][MCNext]_<<vars, rVars, exportsVars, part>>
=============================================================================
