------------------------------ MODULE Metadata ------------------------------
(***************************************************************************)
(* What WriteCache::open computes from the two files a crash leaves        *)
(* behind: the metadata file m = [states, maxSeq, rot], with the sequence  *)
(* number the snapshot covers and rotation_seq, and the write-ahead log, a *)
(* set of <<block, sequence>> pairs.                                       *)
(***************************************************************************)
EXTENDS Naturals, FiniteSets

States == {"NOT_PRESENT", "CLEAN", "DIRTY", "SYNCING"}
Unsaved == {"DIRTY", "SYNCING"}     \* has_local_data: the SSD holds the only copy

\* wal_min_seq: from the rotation point if the metadata was saved after one.
ReplayFrom(m) == IF m.rot > 0 /\ m.rot < m.maxSeq THEN m.rot ELSE m.maxSeq

Replayed(m, log) == {e \in log : e[2] > ReplayFrom(m)}

ReplayedBlocks(m, log) == {e[1] : e \in Replayed(m, log)}

\* The states open() ends with.
RecoveredState(m, log, b) ==
    IF b \in ReplayedBlocks(m, log) \/ m.states[b] \in Unsaved THEN "DIRTY" ELSE "NOT_PRESENT"

\* load_metadata counts DIRTY and SYNCING, replay adds one for every block
\* it finds not DIRTY, the CLEAN sweep takes one off for every block.
RecoveredCount(m, log) ==
    LET blocks == DOMAIN m.states
        replayed == ReplayedBlocks(m, log)
        counted == Cardinality({b \in blocks : m.states[b] \in Unsaved})
        added == Cardinality({b \in replayed : m.states[b] # "DIRTY"})
        swept == Cardinality({b \in blocks \ replayed : m.states[b] = "CLEAN"})
    IN IF counted + added < swept THEN 0 ELSE (counted + added) - swept

\* The blocks whose data open() takes from the active file although a flushing
\* file exists: the "post-rotation" blocks.
PostRotation(m, log) ==
    ReplayedBlocks(m, log)
        \cup (IF m.rot > 0 THEN {b \in DOMAIN m.states : m.states[b] = "DIRTY"} ELSE {})

\* The highest number in either file: where the sequence counter resumes.
IsResumePoint(m, log, n) ==
    /\ n \in {m.maxSeq} \cup {e[2] : e \in Replayed(m, log)}
    /\ n >= m.maxSeq /\ \A e \in Replayed(m, log) : n >= e[2]
=============================================================================
