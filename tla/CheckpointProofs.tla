-------------------------- MODULE CheckpointProofs --------------------------
(***************************************************************************)
(* Proofs about Checkpoint, for any device, any number of writers and any  *)
(* set of rare events: the type invariant, and that a logged dirty mark    *)
(* survives a crash at any moment.                                         *)
(*                                                                         *)
(* LoggedMarkSurvives is not inductive.  The strengthening says what the   *)
(* comments of wal_append_and_mark_dirty and save_block_states argue: a    *)
(* block is marked before it takes its number (PendingMarked, BatchOpen),  *)
(* and a snapshot that saw a block unmarked reads a sequence number below  *)
(* every entry that block can still have or get (SnapshotCovers).          *)
(***************************************************************************)
EXTENDS Checkpoint, FiniteSetTheorems, TLAPS

\* A leaf goes to Zenon; the leaves with arithmetic or sequences go to the SMT solver.
USE ZenonT(60)

\* Nothing runs while the cache is down or being recovered.
Quiet ==
    phase # "up" =>
        /\ ckPc = "idle" /\ flusher = "idle"
        /\ \A w \in Writers : pc[w] = "idle"

\* Only a writer that holds the data_file lock has a batch.
BatchInGate ==
    \A w \in Writers : batch[w] # {} => pc[w] \in {"mark", "seq", "append"}

\* A logged block is still DIRTY or SYNCING in memory.
LoggedMarked == phase # "down" => \A b \in logged : state[b] \in Unsaved

\* No entry is above the counter.
BelowCounter ==
    phase # "down" =>
        /\ meta.maxSeq <= seq
        /\ \A e \in wal : e[2] <= seq

\* A block that is about to take its number is already marked.
PendingMarked ==
    \A w \in Writers : pc[w] = "seq" =>
        \A b \in Blocks : IsFirst(b, todo[w]) => state[b] \in Unsaved

\* An entry on its way to the log will count when it gets there.
BatchOpen ==
    \A w \in Writers : \A e \in batch[w] :
        /\ state[e[1]] \in Unsaved
        /\ e[2] <= seq
        /\ meta.states[e[1]] \in Unsaved \/ e[2] > meta.maxSeq

Snapshotting == ckPc \in {"snapshot", "trailer", "rename"}

\* What the snapshot saw unmarked was logged later than the number it covers.
SnapshotCovers ==
    Snapshotting =>
        /\ ckSeq <= seq
        /\ ckPc # "snapshot" => ckTodo = {}
        /\ \A b \in Blocks \ ckTodo : ckStates[b] \notin Unsaved =>
              /\ b \in logged => /\ ckMode # "exclusive"
                                 /\ \E e \in wal : e[1] = b /\ e[2] > ckSeq
              /\ \A w \in Writers : \A e \in batch[w] : e[1] = b => e[2] > ckSeq

\* The metadata the truncation relies on is the one just renamed in place.
TruncateSafe ==
    ckPc = "truncate" =>
        /\ ckSeq = meta.maxSeq
        /\ ckMode = "exclusive" => \A b \in logged : meta.states[b] \in Unsaved

\* A checkpoint that may skip its truncation has a skip left.
SkipsLeft ==
    /\ ckPc # "idle" /\ ckMode = "plain" => skips < MaxSkips
    /\ ckPc = "truncate" => ckMode # "save"

Strengthening ==
    /\ Quiet /\ BatchInGate /\ LoggedMarked /\ BelowCounter /\ PendingMarked
    /\ BatchOpen /\ SnapshotCovers /\ TruncateSafe /\ LoggedMarkSurvives

IInv == TypeOK /\ SkipsLeft /\ Strengthening

-----------------------------------------------------------------------------
(* Type correctness.                                                       *)

\* Walking to the next block keeps the shape of the writers' variables.
LEMMA AdvanceTypeOK ==
    ASSUME TypeOK, NEW w \in Writers, NEW b \in Blocks,
           NEW from \in {"promote", "mark"}, NEW next \in {"mark", "append"},
           Advance(w, b, from, next)
    PROVE  /\ todo' \in [Writers -> SUBSET Blocks]
           /\ pc' \in [Writers -> {"idle", "gate", "promote", "mark", "seq", "append"}]
<1>1. CASE todo[w] = {b}
    BY <1>1 DEF Advance, TypeOK, WriterTypeOK
<1>2. CASE todo[w] # {b}
    BY <1>2 DEF Advance, TypeOK, WriterTypeOK
<1> QED BY <1>1, <1>2

\* open() computes a natural number: the sets it counts are finite.
LEMMA RecoveredCountType ==
    ASSUME TypeOK
    PROVE  RecoveredCount(meta, wal) \in Nat
<1> DEFINE replayed == ReplayedBlocks(meta, wal)
           A == {b \in Blocks : meta.states[b] \in Unsaved}
           B == {b \in replayed : meta.states[b] # "DIRTY"}
           C == {b \in Blocks \ replayed : meta.states[b] = "CLEAN"}
<1>1. A \subseteq Blocks /\ B \subseteq Blocks /\ C \subseteq Blocks
    BY DEF TypeOK, CacheTypeOK, ReplayedBlocks, Replayed, Entries
<1>2. IsFiniteSet(A) /\ IsFiniteSet(B) /\ IsFiniteSet(C)
    BY <1>1, FS_Subset, BlocksAssumption
<1>3. Cardinality(A) \in Nat /\ Cardinality(B) \in Nat /\ Cardinality(C) \in Nat
    BY <1>2, FS_CardinalityType
<1> HIDE DEF A, B, C
<1>4. (IF Cardinality(A) + Cardinality(B) < Cardinality(C) THEN 0
       ELSE (Cardinality(A) + Cardinality(B)) - Cardinality(C)) \in Nat
    BY SMTT(60), <1>3
<1>5. DOMAIN meta.states = Blocks
    BY DEF TypeOK, CacheTypeOK
<1> QED BY <1>4, <1>5 DEF RecoveredCount, A, B, C

\* Every step keeps the types; the bound on skips needs SkipsLeft.
LEMMA TypeStep ==
    ASSUME TypeOK, SkipsLeft, [Next]_vars
    PROVE  TypeOK' /\ SkipsLeft'
<1> USE BlocksAssumption, BoundsAssumption
<1> USE DEF TypeOK, States, Unsaved, writerVars, ckVars, diskVars, history
<1>1. ASSUME NEW w \in Writers, BeginLocal(w) PROVE TypeOK' /\ SkipsLeft'
    BY SMTT(60), <1>1 DEF BeginLocal, FlagTypeOK, CacheTypeOK, WriterTypeOK,
               CheckpointTypeOK, SkipsLeft
<1>2. ASSUME NEW w \in Writers, BeginAbsent(w) PROVE TypeOK' /\ SkipsLeft'
    BY SMTT(60), <1>2 DEF BeginAbsent, FlagTypeOK, CacheTypeOK, WriterTypeOK,
               CheckpointTypeOK, SkipsLeft
<1>3. ASSUME NEW w \in Writers, Promote(w) PROVE TypeOK' /\ SkipsLeft'
    <2>1. PICK b \in Blocks : /\ IsFirst(b, todo[w])
                             /\ \E s \in PromotedTo(b, req[w]) : state' = [state EXCEPT ![b] = s]
                             /\ Advance(w, b, "promote", "mark")
        BY <1>3 DEF Promote
    <2>2. PromotedTo(b, req[w]) \subseteq States
        BY DEF PromotedTo, CacheTypeOK
    <2>3. CacheTypeOK'
        BY <1>3, <2>1, <2>2 DEF Promote, CacheTypeOK
    <2>4. WriterTypeOK'
        BY <1>3, <2>1, AdvanceTypeOK DEF Promote, WriterTypeOK
    <2>5. FlagTypeOK' /\ CheckpointTypeOK' /\ SkipsLeft'
        BY <1>3 DEF Promote, FlagTypeOK, CheckpointTypeOK, SkipsLeft
    <2> QED BY <2>3, <2>4, <2>5
<1>4. ASSUME NEW w \in Writers, Evicted(w) PROVE TypeOK' /\ SkipsLeft'
    BY SMTT(60), <1>4 DEF Evicted, Finish, FlagTypeOK, CacheTypeOK, WriterTypeOK,
               CheckpointTypeOK, SkipsLeft
<1>5. ASSUME NEW w \in Writers, Mark(w) PROVE TypeOK' /\ SkipsLeft'
    <2>1. PICK b \in Blocks : IF state[b] = "DIRTY"
                             THEN Advance(w, b, "mark", "append") /\ UNCHANGED state
                             ELSE /\ state' = [state EXCEPT ![b] = "DIRTY"]
                                  /\ pc' = [pc EXCEPT ![w] = "seq"]
                                  /\ UNCHANGED todo
        BY <1>5 DEF Mark
    <2>2. CacheTypeOK'
        BY <1>5, <2>1 DEF Mark, CacheTypeOK
    <2>3. WriterTypeOK'
        BY <1>5, <2>1, AdvanceTypeOK DEF Mark, WriterTypeOK
    <2>4. FlagTypeOK' /\ CheckpointTypeOK' /\ SkipsLeft'
        BY <1>5 DEF Mark, FlagTypeOK, CheckpointTypeOK, SkipsLeft
    <2> QED BY <2>2, <2>3, <2>4
<1>6. ASSUME NEW w \in Writers, TakeSeq(w) PROVE TypeOK' /\ SkipsLeft'
    <2>1. PICK b \in Blocks : /\ batch' = [batch EXCEPT ![w] = @ \cup {<<b, seq + 1>>}]
                             /\ Advance(w, b, "mark", "append")
        BY <1>6 DEF TakeSeq
    <2>2. CacheTypeOK'
        BY SMTT(60), <1>6 DEF TakeSeq, CacheTypeOK
    <2>3. <<b, seq + 1>> \in Entries
        BY SMTT(60), <1>6 DEF TakeSeq, CacheTypeOK, Entries
    <2>4. WriterTypeOK'
        BY <1>6, <2>1, <2>3, AdvanceTypeOK DEF TakeSeq, WriterTypeOK
    <2>5. FlagTypeOK' /\ CheckpointTypeOK' /\ SkipsLeft'
        BY <1>6 DEF TakeSeq, FlagTypeOK, CheckpointTypeOK, SkipsLeft
    <2> QED BY <2>2, <2>4, <2>5
<1>7. ASSUME NEW w \in Writers, AppendEntry(w) PROVE TypeOK' /\ SkipsLeft'
    <2>1. FlagTypeOK'
        BY <1>7 DEF AppendEntry, Finish, FlagTypeOK
    <2>2. batch[w] \subseteq Entries /\ rng[w] \subseteq Blocks
        BY DEF WriterTypeOK
    <2>3. {e[1] : e \in batch[w]} \subseteq Blocks
        BY <2>2 DEF Entries
    <2>4. CacheTypeOK'
        BY <1>7, <2>2, <2>3 DEF AppendEntry, CacheTypeOK
    <2>5. WriterTypeOK' /\ CheckpointTypeOK' /\ SkipsLeft'
        BY <1>7 DEF AppendEntry, Finish, WriterTypeOK, CheckpointTypeOK, SkipsLeft
    <2> QED BY <2>1, <2>4, <2>5
<1>8. ASSUME NEW w \in Writers, AppendError(w) PROVE TypeOK' /\ SkipsLeft'
    BY SMTT(60), <1>8 DEF AppendError, Finish, FlagTypeOK, CacheTypeOK, WriterTypeOK,
               CheckpointTypeOK, SkipsLeft
<1>9. CASE TimerCheckpoint
    BY SMTT(60), <1>9 DEF TimerCheckpoint, StartCheckpoint, CheckpointMode, Absent, FlagTypeOK, CacheTypeOK, WriterTypeOK,
               CheckpointTypeOK, SkipsLeft
<1>10. CASE SnapshotBlock
    BY SMTT(60), <1>10 DEF SnapshotBlock, FlagTypeOK, CacheTypeOK, WriterTypeOK,
               CheckpointTypeOK, SkipsLeft
<1>11. CASE SnapshotTrailer
    BY SMTT(60), <1>11 DEF SnapshotTrailer, FlagTypeOK, CacheTypeOK, WriterTypeOK,
               CheckpointTypeOK, SkipsLeft
<1>12. CASE RenameMeta
    <2>1. FlagTypeOK' /\ WriterTypeOK'
        BY <1>12 DEF RenameMeta, FlagTypeOK, WriterTypeOK
    <2>2. meta' \in [states : [Blocks -> States], maxSeq : 0 .. MaxSeq, rot : 0 .. MaxSeq]
        BY <1>12 DEF RenameMeta, CheckpointTypeOK
    <2>3. CASE ckMode = "save"
        BY SMTT(60), <1>12, <2>1, <2>2, <2>3 DEF RenameMeta, CheckpointDone, CheckpointIdle, Absent,
                                      CacheTypeOK, CheckpointTypeOK, SkipsLeft
    <2>4. CASE ckMode # "save"
        BY <1>12, <2>1, <2>2, <2>4 DEF RenameMeta, CacheTypeOK, CheckpointTypeOK, SkipsLeft
    <2> QED BY <2>3, <2>4
<1>13. CASE SaveError
    BY SMTT(60), <1>13 DEF SaveError, CheckpointDone, CheckpointIdle, Absent, FlagTypeOK, CacheTypeOK, WriterTypeOK,
               CheckpointTypeOK, SkipsLeft
<1>14. CASE Truncate
    <2>1. FlagTypeOK' /\ WriterTypeOK'
        BY <1>14 DEF Truncate, FlagTypeOK, WriterTypeOK
    <2>2. CacheTypeOK'
        BY <1>14 DEF Truncate, CheckpointDone, CacheTypeOK
    <2>3. skips' \in 0 .. MaxSkips
        BY SMTT(60), <1>14 DEF Truncate, MayTruncate, CheckpointTypeOK, SkipsLeft
    <2>4. CheckpointTypeOK' /\ SkipsLeft'
        BY SMTT(60), <1>14, <2>3 DEF Truncate, CheckpointDone, CheckpointIdle, Absent,
                         CheckpointTypeOK, SkipsLeft
    <2> QED BY <2>1, <2>2, <2>4
<1>15. CASE SetHandoffPhase
    BY <1>15 DEF SetHandoffPhase, FlagTypeOK, CacheTypeOK, WriterTypeOK,
               CheckpointTypeOK, SkipsLeft
<1>16. CASE RemoveOrphan
    BY <1>16 DEF RemoveOrphan, FlagTypeOK, CacheTypeOK, WriterTypeOK,
               CheckpointTypeOK, SkipsLeft
<1>17. CASE Rotate
    BY <1>17 DEF Rotate, FlagTypeOK, CacheTypeOK, WriterTypeOK,
               CheckpointTypeOK, SkipsLeft
<1>18. CASE FlushFailed
    <2>1. FlagTypeOK'
        BY <1>18 DEF FlushFailed, FlagTypeOK
    <2>2. CacheTypeOK'
        BY SMTT(60), <1>18 DEF FlushFailed, CacheTypeOK, WriterTypeOK, Entries
    <2>3. WriterTypeOK' /\ CheckpointTypeOK' /\ SkipsLeft'
        BY <1>18 DEF FlushFailed, WriterTypeOK, CheckpointTypeOK, SkipsLeft
    <2> QED BY <2>1, <2>2, <2>3
<1>19. CASE Redirty
    BY SMTT(60), <1>19 DEF Redirty, FlagTypeOK, CacheTypeOK, WriterTypeOK,
               CheckpointTypeOK, SkipsLeft
<1>20. CASE Evict
    <2>1. FlagTypeOK'
        BY <1>20 DEF Evict, FlagTypeOK
    <2>2. CacheTypeOK'
        BY <1>20 DEF Evict, CacheTypeOK, WriterTypeOK, Entries
    <2>3. WriterTypeOK' /\ CheckpointTypeOK' /\ SkipsLeft'
        BY <1>20 DEF Evict, WriterTypeOK, CheckpointTypeOK, SkipsLeft
    <2> QED BY <2>1, <2>2, <2>3
<1>21. CASE FlushCheckpoint
    BY SMTT(60), <1>21 DEF FlushCheckpoint, StartCheckpoint, CheckpointMode, Absent, FlagTypeOK, CacheTypeOK, WriterTypeOK,
               CheckpointTypeOK, SkipsLeft
<1>22. CASE Cleanup
    <2>1. FlagTypeOK'
        BY <1>22 DEF Cleanup, FlagTypeOK
    <2>2. CacheTypeOK'
        BY SMTT(60), <1>22 DEF Cleanup, CacheTypeOK, WriterTypeOK, Entries
    <2>3. WriterTypeOK' /\ CheckpointTypeOK' /\ SkipsLeft'
        BY <1>22 DEF Cleanup, WriterTypeOK, CheckpointTypeOK, SkipsLeft
    <2> QED BY <2>1, <2>2, <2>3
<1>23. CASE Unlink
    <2>1. FlagTypeOK'
        BY <1>23 DEF Unlink, FlagTypeOK
    <2>2. CacheTypeOK'
        BY <1>23 DEF Unlink, CacheTypeOK, WriterTypeOK, Entries
    <2>3. WriterTypeOK' /\ CheckpointTypeOK' /\ SkipsLeft'
        BY <1>23 DEF Unlink, WriterTypeOK, CheckpointTypeOK, SkipsLeft
    <2> QED BY <2>1, <2>2, <2>3
<1>24. CASE Crash
    <2>1. FlagTypeOK'
        BY <1>24 DEF Crash, CheckpointIdle, Absent, FlagTypeOK
    <2>2. CacheTypeOK'
        BY SMTT(60), <1>24 DEF Crash, CheckpointIdle, Absent, CacheTypeOK, WriterTypeOK, Entries
    <2>3. WriterTypeOK' /\ CheckpointTypeOK' /\ SkipsLeft'
        BY SMTT(60), <1>24 DEF Crash, CheckpointIdle, Absent, WriterTypeOK, CheckpointTypeOK, SkipsLeft
    <2> QED BY <2>1, <2>2, <2>3
<1>25. CASE Open
    <2>1. FlagTypeOK' /\ WriterTypeOK' /\ CheckpointTypeOK' /\ SkipsLeft'
        BY <1>25 DEF Open, FlagTypeOK, WriterTypeOK, CheckpointTypeOK, SkipsLeft
    <2>2. recount' \in Nat
        BY <1>25, RecoveredCountType DEF Open
    <2>3. Replayed(meta, wal) \subseteq Entries /\ seq' \in 0 .. MaxSeq
        BY <1>25 DEF Open, Replayed, Entries, CacheTypeOK
    <2>4. CacheTypeOK'
        BY <1>25, <2>2, <2>3 DEF Open, RecoveredState, CacheTypeOK
    <2> QED BY <2>1, <2>4
<1>26. CASE FinishRecovery
    BY SMTT(60), <1>26 DEF FinishRecovery, FlagTypeOK, CacheTypeOK, WriterTypeOK,
               CheckpointTypeOK, SkipsLeft
<1>27. CASE UNCHANGED vars
    BY SMTT(60), <1>27 DEF vars, FlagTypeOK, CacheTypeOK, WriterTypeOK, CheckpointTypeOK, SkipsLeft
<1> QED
    BY <1>1, <1>2, <1>3, <1>4, <1>5, <1>6, <1>7, <1>8, <1>9, <1>10, <1>11, <1>12,
       <1>13, <1>14, <1>15, <1>16, <1>17, <1>18, <1>19, <1>20, <1>21, <1>22, <1>23,
       <1>24, <1>25, <1>26, <1>27
    DEF Next, WriterNext, CheckpointNext, FlusherNext

\* Every step keeps the strengthening.
LEMMA IInvStep ==
    ASSUME IInv, [Next]_vars
    PROVE  IInv'
<1> USE BlocksAssumption, BoundsAssumption
<1> USE DEF IInv, TypeOK, States, Unsaved, writerVars, ckVars, diskVars, history
<1> SUFFICES Strengthening'
    BY TypeStep DEF Strengthening
<1> USE DEF Strengthening
<1>1. ASSUME NEW w \in Writers, BeginLocal(w) PROVE Strengthening'
    <2>1. Quiet'
        BY <1>1 DEF BeginLocal, Quiet, WriterTypeOK
    <2>2. BatchInGate'
        BY <1>1 DEF BeginLocal, BatchInGate, WriterTypeOK
    <2>3. PendingMarked'
        BY <1>1 DEF BeginLocal, PendingMarked, WriterTypeOK, CacheTypeOK
    <2>4. LoggedMarked' /\ BelowCounter' /\ BatchOpen' /\ SnapshotCovers' /\ TruncateSafe' /\ LoggedMarkSurvives'
        BY <1>1 DEF BeginLocal, LoggedMarked, BelowCounter, BatchOpen, SnapshotCovers,
            TruncateSafe, LoggedMarkSurvives, Snapshotting, Durable
    <2> QED BY <2>1, <2>2, <2>3, <2>4
<1>2. ASSUME NEW w \in Writers, BeginAbsent(w) PROVE Strengthening'
    <2>1. Quiet'
        BY <1>2 DEF BeginAbsent, Quiet, WriterTypeOK
    <2>2. BatchInGate'
        BY <1>2 DEF BeginAbsent, BatchInGate, WriterTypeOK
    <2>3. LoggedMarked'
        BY <1>2 DEF BeginAbsent, LoggedMarked, CacheTypeOK
    <2>4. PendingMarked'
        BY <1>2 DEF BeginAbsent, PendingMarked, WriterTypeOK, CacheTypeOK
    <2>5. BatchOpen'
        BY SMTT(60), <1>2 DEF BeginAbsent, BatchOpen, WriterTypeOK, CacheTypeOK, Entries
    <2>6. BelowCounter' /\ SnapshotCovers' /\ TruncateSafe' /\ LoggedMarkSurvives'
        BY <1>2 DEF BeginAbsent, BelowCounter, SnapshotCovers, TruncateSafe,
            LoggedMarkSurvives, Snapshotting, Durable
    <2> QED BY <2>1, <2>2, <2>3, <2>4, <2>5, <2>6
<1>3. ASSUME NEW w \in Writers, Promote(w) PROVE Strengthening'
    <2>1. Quiet'
        BY <1>3 DEF Promote, Advance, PromotedTo, IsFirst, Quiet, WriterTypeOK
    <2>2. BatchInGate'
        BY <1>3 DEF Promote, Advance, PromotedTo, IsFirst, BatchInGate, WriterTypeOK
    <2>3. LoggedMarked'
        BY <1>3 DEF Promote, Advance, PromotedTo, IsFirst, LoggedMarked, CacheTypeOK
    <2>4. PendingMarked'
        BY SMTT(60), <1>3 DEF Promote, Advance, PromotedTo, IsFirst, PendingMarked, WriterTypeOK,
            CacheTypeOK
    <2>5. BatchOpen'
        BY SMTT(60), <1>3 DEF Promote, Advance, PromotedTo, IsFirst, BatchOpen, WriterTypeOK,
            CacheTypeOK, Entries
    <2>6. BelowCounter' /\ SnapshotCovers' /\ TruncateSafe' /\ LoggedMarkSurvives'
        BY <1>3 DEF Promote, BelowCounter, SnapshotCovers, TruncateSafe, LoggedMarkSurvives,
            Snapshotting, Durable
    <2> QED BY <2>1, <2>2, <2>3, <2>4, <2>5, <2>6
<1>4. ASSUME NEW w \in Writers, Evicted(w) PROVE Strengthening'
    <2>1. Quiet'
        BY <1>4 DEF Evicted, Finish, Quiet, WriterTypeOK
    <2>2. BatchInGate'
        BY <1>4 DEF Evicted, Finish, BatchInGate, WriterTypeOK
    <2>3. PendingMarked'
        BY <1>4 DEF Evicted, Finish, PendingMarked, WriterTypeOK, CacheTypeOK
    <2>4. BatchOpen'
        BY <1>4 DEF Evicted, Finish, BatchOpen, WriterTypeOK, CacheTypeOK, Entries
    <2>5. SnapshotCovers'
        BY <1>4 DEF Evicted, Finish, SnapshotCovers, Snapshotting, CacheTypeOK,
            WriterTypeOK, CheckpointTypeOK, Entries
    <2>6. LoggedMarked' /\ BelowCounter' /\ TruncateSafe' /\ LoggedMarkSurvives'
        BY <1>4 DEF Evicted, Finish, LoggedMarked, BelowCounter, TruncateSafe,
            LoggedMarkSurvives, Durable
    <2> QED BY <2>1, <2>2, <2>3, <2>4, <2>5, <2>6
<1>5. ASSUME NEW w \in Writers, Mark(w) PROVE Strengthening'
    <2>1. Quiet'
        BY <1>5 DEF Mark, Advance, IsFirst, Quiet, WriterTypeOK
    <2>2. BatchInGate'
        BY <1>5 DEF Mark, Advance, IsFirst, BatchInGate, WriterTypeOK
    <2>3. LoggedMarked'
        BY <1>5 DEF Mark, Advance, IsFirst, LoggedMarked, CacheTypeOK
    <2>4. PendingMarked'
        <3>1. PICK b \in Blocks : /\ IsFirst(b, todo[w])
                                 /\ IF state[b] = "DIRTY"
                                    THEN Advance(w, b, "mark", "append") /\ UNCHANGED state
                                    ELSE /\ state' = [state EXCEPT ![b] = "DIRTY"]
                                         /\ pc' = [pc EXCEPT ![w] = "seq"]
                                         /\ UNCHANGED todo
            BY <1>5 DEF Mark
        <3>2. SUFFICES ASSUME NEW x \in Writers, pc'[x] = "seq",
                              NEW c \in Blocks, IsFirst(c, todo'[x])
                       PROVE  state'[c] \in Unsaved
            BY DEF PendingMarked, IsFirst
        <3>3. CASE state[b] = "DIRTY"
            BY <3>1, <3>2, <3>3, <1>5 DEF Advance, PendingMarked, WriterTypeOK, CacheTypeOK
        <3>4. CASE state[b] # "DIRTY" /\ x = w
            <4>1. c = b
                BY SMTT(60), <3>1, <3>2, <3>4 DEF IsFirst
            <4> QED BY <3>1, <3>4, <4>1 DEF CacheTypeOK
        <3>5. CASE state[b] # "DIRTY" /\ x # w
            BY <3>1, <3>2, <3>5 DEF PendingMarked, WriterTypeOK, CacheTypeOK
        <3> QED BY <3>3, <3>4, <3>5
    <2>5. BatchOpen'
        <3>1. \A b \in Blocks : state[b] \in Unsaved => state'[b] \in Unsaved
            BY <1>5 DEF Mark, CacheTypeOK
        <3>2. SUFFICES ASSUME NEW x \in Writers, NEW e \in batch[x]
                       PROVE  state'[e[1]] \in Unsaved
            BY <1>5 DEF Mark, BatchOpen
        <3>3. e[1] \in Blocks
            BY SMTT(60) DEF WriterTypeOK, Entries
        <3> QED BY <3>1, <3>3 DEF BatchOpen
    <2>6. BelowCounter' /\ SnapshotCovers' /\ TruncateSafe' /\ LoggedMarkSurvives'
        BY <1>5 DEF Mark, BelowCounter, SnapshotCovers, TruncateSafe, LoggedMarkSurvives,
            Snapshotting, Durable
    <2> QED BY <2>1, <2>2, <2>3, <2>4, <2>5, <2>6
<1>6. ASSUME NEW w \in Writers, TakeSeq(w) PROVE Strengthening'
    <2>1. Quiet'
        BY <1>6 DEF TakeSeq, Advance, IsFirst, Quiet, WriterTypeOK
    <2>2. BatchInGate'
        BY <1>6 DEF TakeSeq, Advance, IsFirst, BatchInGate, WriterTypeOK
    <2>3. BelowCounter'
        BY SMTT(60), <1>6 DEF TakeSeq, Advance, IsFirst, BelowCounter, CacheTypeOK, Entries
    <2>4. PendingMarked'
        <3>1. \A x \in Writers : pc'[x] = "seq" => pc[x] = "seq" /\ todo'[x] = todo[x]
            BY <1>6 DEF TakeSeq, Advance, WriterTypeOK
        <3> QED BY <1>6, <3>1 DEF TakeSeq, PendingMarked, IsFirst
    <2>5. BatchOpen'
        BY SMTT(60), <1>6 DEF TakeSeq, Advance, IsFirst, BatchOpen, BelowCounter, PendingMarked,
            Quiet, BatchInGate, WriterTypeOK, CacheTypeOK, Entries
    <2>6. SnapshotCovers'
        BY SMTT(60), <1>6 DEF TakeSeq, Advance, IsFirst, SnapshotCovers, BatchInGate, Snapshotting,
            CacheTypeOK, WriterTypeOK, CheckpointTypeOK, Entries
    <2>7. LoggedMarked' /\ TruncateSafe' /\ LoggedMarkSurvives'
        BY <1>6 DEF TakeSeq, LoggedMarked, TruncateSafe, LoggedMarkSurvives, Durable
    <2> QED BY <2>1, <2>2, <2>3, <2>4, <2>5, <2>6, <2>7
<1>7. ASSUME NEW w \in Writers, AppendEntry(w) PROVE Strengthening'
    <2>1. Quiet'
        BY <1>7 DEF AppendEntry, Finish, GuardHeld, Quiet, WriterTypeOK
    <2>2. BatchInGate'
        BY <1>7 DEF AppendEntry, Finish, GuardHeld, BatchInGate, WriterTypeOK
    <2>3. LoggedMarked'
        BY <1>7 DEF AppendEntry, Finish, GuardHeld, LoggedMarked, BatchOpen, CacheTypeOK
    <2>4. BelowCounter'
        BY <1>7 DEF AppendEntry, Finish, GuardHeld, BelowCounter, BatchOpen, CacheTypeOK, Entries
    <2>5. PendingMarked'
        BY <1>7 DEF AppendEntry, Finish, GuardHeld, PendingMarked, WriterTypeOK, CacheTypeOK
    <2>6. BatchOpen'
        BY <1>7 DEF AppendEntry, Finish, GuardHeld, BatchOpen, WriterTypeOK, CacheTypeOK, Entries
    <2>7. SnapshotCovers'
        BY SMTT(60), <1>7 DEF AppendEntry, Finish, GuardHeld, SnapshotCovers, BatchOpen, Snapshotting,
            CacheTypeOK, WriterTypeOK, CheckpointTypeOK, Entries
    <2>8. TruncateSafe'
        BY <1>7 DEF AppendEntry, Finish, GuardHeld, TruncateSafe, CacheTypeOK, CheckpointTypeOK
    <2>9. LoggedMarkSurvives'
        BY SMTT(60), <1>7 DEF AppendEntry, Finish, GuardHeld, LoggedMarkSurvives, BatchOpen, Durable,
            CacheTypeOK, Entries
    <2> QED BY <2>1, <2>2, <2>3, <2>4, <2>5, <2>6, <2>7, <2>8, <2>9
<1>8. ASSUME NEW w \in Writers, AppendError(w) PROVE Strengthening'
    <2>1. Quiet'
        BY <1>8 DEF AppendError, Finish, Quiet, WriterTypeOK
    <2>2. BatchInGate'
        BY <1>8 DEF AppendError, Finish, BatchInGate, WriterTypeOK
    <2>3. PendingMarked'
        BY <1>8 DEF AppendError, Finish, PendingMarked, WriterTypeOK, CacheTypeOK
    <2>4. BatchOpen'
        BY <1>8 DEF AppendError, Finish, BatchOpen, WriterTypeOK, CacheTypeOK, Entries
    <2>5. SnapshotCovers'
        BY <1>8 DEF AppendError, Finish, SnapshotCovers, Snapshotting, CacheTypeOK,
            WriterTypeOK, CheckpointTypeOK, Entries
    <2>6. LoggedMarked' /\ BelowCounter' /\ TruncateSafe' /\ LoggedMarkSurvives'
        BY <1>8 DEF AppendError, Finish, LoggedMarked, BelowCounter, TruncateSafe,
            LoggedMarkSurvives, Durable
    <2> QED BY <2>1, <2>2, <2>3, <2>4, <2>5, <2>6
<1>9. CASE TimerCheckpoint
    <2>1. Quiet'
        BY <1>9 DEF TimerCheckpoint, StartCheckpoint, Quiet, WriterTypeOK
    <2>2. SnapshotCovers'
        <3>1. /\ ckSeq' = seq' /\ seq' \in Nat
              /\ ckTodo' = Blocks /\ (ckPc' # "snapshot" => Blocks = {})
            BY SMTT(60), <1>9 DEF TimerCheckpoint, StartCheckpoint, CacheTypeOK
        <3>2. ckSeq' <= seq' /\ (ckPc' # "snapshot" => ckTodo' = {})
            BY SMTT(60), <3>1
        <3>3. Blocks \ ckTodo' = {} BY <3>1
        <3> QED BY <3>2, <3>3 DEF SnapshotCovers
    <2>3. TruncateSafe'
        BY <1>9 DEF TimerCheckpoint, StartCheckpoint, TruncateSafe, CacheTypeOK,
            CheckpointTypeOK
    <2>4. BatchInGate' /\ LoggedMarked' /\ BelowCounter' /\ PendingMarked' /\ BatchOpen' /\ LoggedMarkSurvives'
        BY <1>9 DEF TimerCheckpoint, StartCheckpoint, BatchInGate, LoggedMarked,
            BelowCounter, PendingMarked, BatchOpen, LoggedMarkSurvives, Durable
    <2> QED BY <2>1, <2>2, <2>3, <2>4
<1>10. CASE SnapshotBlock
    <2>1. Quiet'
        BY <1>10 DEF SnapshotBlock, IsFirst, Quiet, WriterTypeOK
    <2>2. SnapshotCovers'
        <3>1. PICK c \in Blocks : /\ ckStates' = [ckStates EXCEPT ![c] = state[c]]
                                  /\ ckTodo' = ckTodo \ {c}
                                  /\ ckPc' = IF ckTodo = {c} THEN "trailer" ELSE "snapshot"
            BY <1>10 DEF SnapshotBlock
        <3>2. /\ Snapshotting /\ phase = "up"
              /\ UNCHANGED <<seq, wal, batch, logged, ckSeq, ckMode, state>>
            BY <1>10 DEF SnapshotBlock, Snapshotting, Quiet, writerVars, diskVars, history
        <3>3. ckSeq' <= seq' /\ (ckPc' # "snapshot" => ckTodo' = {})
            BY <3>1, <3>2 DEF SnapshotCovers
        <3>4. ASSUME NEW b \in Blocks \ ckTodo', ckStates'[b] \notin Unsaved
              PROVE  /\ b \in logged => /\ ckMode # "exclusive"
                                         /\ \E e \in wal : e[1] = b /\ e[2] > ckSeq
                     /\ \A w \in Writers : \A e \in batch[w] : e[1] = b => e[2] > ckSeq
            <4>1. CASE b = c
                BY <4>1, <3>1, <3>2, <3>4 DEF LoggedMarked, BatchOpen, CheckpointTypeOK
            <4>2. CASE b # c
                BY <4>2, <3>1, <3>2, <3>4 DEF SnapshotCovers, CheckpointTypeOK
            <4> QED BY <4>1, <4>2
        <3> QED BY <3>2, <3>3, <3>4 DEF SnapshotCovers
    <2>3. TruncateSafe'
        BY <1>10 DEF SnapshotBlock, IsFirst, TruncateSafe, CacheTypeOK, CheckpointTypeOK
    <2>4. BatchInGate' /\ LoggedMarked' /\ BelowCounter' /\ PendingMarked' /\ BatchOpen' /\ LoggedMarkSurvives'
        BY <1>10 DEF SnapshotBlock, BatchInGate, LoggedMarked, BelowCounter, PendingMarked,
            BatchOpen, LoggedMarkSurvives, Durable
    <2> QED BY <2>1, <2>2, <2>3, <2>4
<1>11. CASE SnapshotTrailer
    <2>1. Quiet'
        BY <1>11 DEF SnapshotTrailer, Quiet, WriterTypeOK
    <2>2. SnapshotCovers'
        BY <1>11 DEF SnapshotTrailer, SnapshotCovers, Snapshotting, CacheTypeOK,
            WriterTypeOK, CheckpointTypeOK, Entries
    <2>3. TruncateSafe'
        BY <1>11 DEF SnapshotTrailer, TruncateSafe, CacheTypeOK, CheckpointTypeOK
    <2>4. BatchInGate' /\ LoggedMarked' /\ BelowCounter' /\ PendingMarked' /\ BatchOpen' /\ LoggedMarkSurvives'
        BY <1>11 DEF SnapshotTrailer, BatchInGate, LoggedMarked, BelowCounter,
            PendingMarked, BatchOpen, LoggedMarkSurvives, Durable
    <2> QED BY <2>1, <2>2, <2>3, <2>4
<1>12. CASE RenameMeta
    <2>1. Quiet'
        BY <1>12 DEF RenameMeta, CheckpointDone, CheckpointIdle, Quiet, WriterTypeOK
    <2>2. BelowCounter'
        BY <1>12 DEF RenameMeta, CheckpointDone, CheckpointIdle, BelowCounter,
            SnapshotCovers, Snapshotting, CacheTypeOK, Entries
    <2>3. BatchOpen'
        <3>1. SUFFICES ASSUME NEW w \in Writers, NEW e \in batch[w]
                       PROVE  ckStates[e[1]] \in Unsaved \/ e[2] > ckSeq
            BY <1>12 DEF RenameMeta, BatchOpen
        <3>2. e[1] \in Blocks
            BY SMTT(60) DEF WriterTypeOK, Entries
        <3>3. ckTodo = {} /\ Snapshotting
            BY <1>12 DEF RenameMeta, SnapshotCovers, Snapshotting
        <3> QED BY <3>2, <3>3 DEF SnapshotCovers
    <2>4. SnapshotCovers'
        BY <1>12 DEF RenameMeta, CheckpointDone, CheckpointIdle, SnapshotCovers,
            Snapshotting, CacheTypeOK, WriterTypeOK, CheckpointTypeOK, Entries
    <2>5. TruncateSafe'
        BY <1>12 DEF RenameMeta, CheckpointDone, CheckpointIdle, TruncateSafe,
            SnapshotCovers, Snapshotting, CacheTypeOK, CheckpointTypeOK
    <2>6. LoggedMarkSurvives'
        BY <1>12 DEF RenameMeta, CheckpointDone, CheckpointIdle, LoggedMarkSurvives,
            SnapshotCovers, Durable, Snapshotting, CacheTypeOK, Entries
    <2>7. BatchInGate' /\ LoggedMarked' /\ PendingMarked'
        BY <1>12 DEF RenameMeta, CheckpointDone, CheckpointIdle, BatchInGate, LoggedMarked,
            PendingMarked
    <2> QED BY <2>1, <2>2, <2>3, <2>4, <2>5, <2>6, <2>7
<1>13. CASE SaveError
    <2>1. Quiet'
        BY <1>13 DEF SaveError, CheckpointDone, CheckpointIdle, Quiet, WriterTypeOK
    <2>2. SnapshotCovers'
        BY <1>13 DEF SaveError, CheckpointDone, CheckpointIdle, SnapshotCovers,
            Snapshotting, CacheTypeOK, WriterTypeOK, CheckpointTypeOK, Entries
    <2>3. TruncateSafe'
        BY <1>13 DEF SaveError, CheckpointDone, CheckpointIdle, TruncateSafe, CacheTypeOK,
            CheckpointTypeOK
    <2>4. BatchInGate' /\ LoggedMarked' /\ BelowCounter' /\ PendingMarked' /\ BatchOpen' /\ LoggedMarkSurvives'
        BY <1>13 DEF SaveError, CheckpointDone, CheckpointIdle, BatchInGate, LoggedMarked,
            BelowCounter, PendingMarked, BatchOpen, LoggedMarkSurvives, Durable
    <2> QED BY <2>1, <2>2, <2>3, <2>4
<1>14. CASE Truncate
    <2>1. Quiet'
        BY <1>14 DEF Truncate, CheckpointDone, CheckpointIdle, MayTruncate, Quiet,
            WriterTypeOK
    <2>2. BelowCounter'
        BY <1>14 DEF Truncate, CheckpointDone, CheckpointIdle, MayTruncate, BelowCounter,
            CacheTypeOK, Entries
    <2>3. SnapshotCovers'
        BY <1>14 DEF Truncate, CheckpointDone, CheckpointIdle, MayTruncate, SnapshotCovers,
            Snapshotting, CacheTypeOK, WriterTypeOK, CheckpointTypeOK, Entries
    <2>4. TruncateSafe'
        BY <1>14 DEF Truncate, CheckpointDone, CheckpointIdle, MayTruncate, TruncateSafe,
            CacheTypeOK, CheckpointTypeOK
    <2>5. LoggedMarkSurvives'
        BY SMTT(60), <1>14 DEF Truncate, CheckpointDone, CheckpointIdle, MayTruncate,
            LoggedMarkSurvives, TruncateSafe, BelowCounter, Quiet, Durable, CacheTypeOK,
            Entries
    <2>6. BatchInGate' /\ LoggedMarked' /\ PendingMarked' /\ BatchOpen'
        BY <1>14 DEF Truncate, CheckpointDone, CheckpointIdle, BatchInGate, LoggedMarked,
            PendingMarked, BatchOpen
    <2> QED BY <2>1, <2>2, <2>3, <2>4, <2>5, <2>6
<1>15. CASE SetHandoffPhase
    <2>1. Quiet' /\ BatchInGate' /\ LoggedMarked' /\ BelowCounter' /\ PendingMarked' /\ BatchOpen' /\ SnapshotCovers' /\ TruncateSafe' /\ LoggedMarkSurvives'
        BY <1>15 DEF SetHandoffPhase, Quiet, BatchInGate, LoggedMarked, BelowCounter,
            PendingMarked, BatchOpen, SnapshotCovers, TruncateSafe, LoggedMarkSurvives,
            Snapshotting, Durable
    <2> QED BY <2>1
<1>16. CASE RemoveOrphan
    <2>1. Quiet' /\ BatchInGate' /\ LoggedMarked' /\ BelowCounter' /\ PendingMarked' /\ BatchOpen' /\ SnapshotCovers' /\ TruncateSafe' /\ LoggedMarkSurvives'
        BY <1>16 DEF RemoveOrphan, Quiet, BatchInGate, LoggedMarked, BelowCounter,
            PendingMarked, BatchOpen, SnapshotCovers, TruncateSafe, LoggedMarkSurvives,
            Snapshotting, Durable
    <2> QED BY <2>1
<1>17. CASE Rotate
    <2>1. Quiet'
        BY <1>17 DEF Rotate, Drained, InGate, Quiet, WriterTypeOK
    <2>2. LoggedMarked'
        BY <1>17 DEF Rotate, Drained, InGate, LoggedMarked, CacheTypeOK
    <2>3. PendingMarked'
        BY <1>17 DEF Rotate, Drained, InGate, PendingMarked, WriterTypeOK, CacheTypeOK
    <2>4. BatchOpen'
        <3>1. \A b \in Blocks : state[b] \in Unsaved => state'[b] \in Unsaved
            BY <1>17 DEF Rotate, CacheTypeOK
        <3>2. \A w \in Writers : \A e \in batch[w] : e[1] \in Blocks
            BY SMTT(60) DEF WriterTypeOK, Entries
        <3> QED BY <1>17, <3>1, <3>2 DEF Rotate, BatchOpen
    <2>5. BatchInGate' /\ BelowCounter' /\ SnapshotCovers' /\ TruncateSafe' /\ LoggedMarkSurvives'
        BY <1>17 DEF Rotate, BatchInGate, BelowCounter, SnapshotCovers, TruncateSafe,
            LoggedMarkSurvives, Snapshotting, Durable
    <2> QED BY <2>1, <2>2, <2>3, <2>4, <2>5
<1>18. CASE FlushFailed
    <2>1. Quiet'
        BY <1>18 DEF FlushFailed, Quiet, WriterTypeOK
    <2>2. BatchInGate' /\ LoggedMarked' /\ BelowCounter' /\ PendingMarked' /\ BatchOpen' /\ SnapshotCovers' /\ TruncateSafe' /\ LoggedMarkSurvives'
        BY <1>18 DEF FlushFailed, BatchInGate, LoggedMarked, BelowCounter, PendingMarked,
            BatchOpen, SnapshotCovers, TruncateSafe, LoggedMarkSurvives, Snapshotting,
            Durable
    <2> QED BY <2>1, <2>2
<1>19. CASE Redirty
    <2>1. Quiet'
        BY <1>19 DEF Redirty, Quiet, WriterTypeOK
    <2>2. LoggedMarked'
        BY <1>19 DEF Redirty, LoggedMarked, CacheTypeOK
    <2>3. PendingMarked'
        BY <1>19 DEF Redirty, PendingMarked, WriterTypeOK, CacheTypeOK
    <2>4. BatchOpen'
        BY SMTT(60), <1>19 DEF Redirty, BatchOpen, WriterTypeOK, CacheTypeOK, Entries
    <2>5. BatchInGate' /\ BelowCounter' /\ SnapshotCovers' /\ TruncateSafe' /\ LoggedMarkSurvives'
        BY <1>19 DEF Redirty, BatchInGate, BelowCounter, SnapshotCovers, TruncateSafe,
            LoggedMarkSurvives, Snapshotting, Durable
    <2> QED BY <2>1, <2>2, <2>3, <2>4, <2>5
<1>20. CASE Evict
    <2>1. Quiet'
        BY <1>20 DEF Evict, Drained, InGate, Quiet, WriterTypeOK
    <2>2. LoggedMarked'
        BY <1>20 DEF Evict, Drained, InGate, LoggedMarked, CacheTypeOK
    <2>3. PendingMarked'
        BY <1>20 DEF Evict, Drained, InGate, PendingMarked, BatchInGate, WriterTypeOK,
            CacheTypeOK
    <2>4. BatchOpen'
        BY <1>20 DEF Evict, Drained, InGate, BatchOpen, BatchInGate, WriterTypeOK,
            CacheTypeOK, Entries
    <2>5. SnapshotCovers'
        BY <1>20 DEF Evict, Drained, InGate, SnapshotCovers, Snapshotting, CacheTypeOK,
            WriterTypeOK, CheckpointTypeOK, Entries
    <2>6. TruncateSafe'
        BY <1>20 DEF Evict, Drained, InGate, TruncateSafe, CacheTypeOK, CheckpointTypeOK
    <2>7. LoggedMarkSurvives'
        BY <1>20 DEF Evict, Drained, InGate, LoggedMarkSurvives, Durable, CacheTypeOK,
            Entries
    <2>8. BatchInGate' /\ BelowCounter'
        BY <1>20 DEF Evict, BatchInGate, BelowCounter
    <2> QED BY <2>1, <2>2, <2>3, <2>4, <2>5, <2>6, <2>7, <2>8
<1>21. CASE FlushCheckpoint
    <2>1. Quiet'
        BY <1>21 DEF FlushCheckpoint, StartCheckpoint, Quiet, WriterTypeOK
    <2>2. SnapshotCovers'
        <3>1. /\ ckSeq' = seq' /\ seq' \in Nat
              /\ ckTodo' = Blocks /\ (ckPc' # "snapshot" => Blocks = {})
            BY SMTT(60), <1>21 DEF FlushCheckpoint, StartCheckpoint, CacheTypeOK
        <3> QED BY SMTT(60), <3>1 DEF SnapshotCovers
    <2>3. TruncateSafe'
        BY <1>21 DEF FlushCheckpoint, StartCheckpoint, TruncateSafe, CacheTypeOK,
            CheckpointTypeOK
    <2>4. BatchInGate' /\ LoggedMarked' /\ BelowCounter' /\ PendingMarked' /\ BatchOpen' /\ LoggedMarkSurvives'
        BY <1>21 DEF FlushCheckpoint, StartCheckpoint, BatchInGate, LoggedMarked,
            BelowCounter, PendingMarked, BatchOpen, LoggedMarkSurvives, Durable
    <2> QED BY <2>1, <2>2, <2>3, <2>4
<1>22. CASE Cleanup
    <2>1. Quiet'
        BY <1>22 DEF Cleanup, Quiet, WriterTypeOK
    <2>2. BatchInGate' /\ LoggedMarked' /\ BelowCounter' /\ PendingMarked' /\ BatchOpen' /\ SnapshotCovers' /\ TruncateSafe' /\ LoggedMarkSurvives'
        BY <1>22 DEF Cleanup, BatchInGate, LoggedMarked, BelowCounter, PendingMarked,
            BatchOpen, SnapshotCovers, TruncateSafe, LoggedMarkSurvives, Snapshotting,
            Durable
    <2> QED BY <2>1, <2>2
<1>23. CASE Unlink
    <2>1. Quiet'
        BY <1>23 DEF Unlink, Quiet, WriterTypeOK
    <2>2. BatchInGate' /\ LoggedMarked' /\ BelowCounter' /\ PendingMarked' /\ BatchOpen' /\ SnapshotCovers' /\ TruncateSafe' /\ LoggedMarkSurvives'
        BY <1>23 DEF Unlink, BatchInGate, LoggedMarked, BelowCounter, PendingMarked,
            BatchOpen, SnapshotCovers, TruncateSafe, LoggedMarkSurvives, Snapshotting,
            Durable
    <2> QED BY <2>1, <2>2
<1>24. CASE Crash
    <2>1. Quiet'
        BY <1>24 DEF Crash, CheckpointIdle, Quiet, WriterTypeOK
    <2>2. BatchInGate'
        BY <1>24 DEF Crash, CheckpointIdle, BatchInGate, WriterTypeOK
    <2>3. LoggedMarked'
        BY <1>24 DEF Crash, CheckpointIdle, LoggedMarked, CacheTypeOK
    <2>4. BelowCounter'
        BY <1>24 DEF Crash, CheckpointIdle, BelowCounter, CacheTypeOK, Entries
    <2>5. PendingMarked'
        BY <1>24 DEF Crash, CheckpointIdle, PendingMarked, WriterTypeOK, CacheTypeOK
    <2>6. BatchOpen'
        BY <1>24 DEF Crash, CheckpointIdle, BatchOpen, WriterTypeOK, CacheTypeOK, Entries
    <2>7. SnapshotCovers'
        BY <1>24 DEF Crash, CheckpointIdle, SnapshotCovers, Snapshotting, CacheTypeOK,
            WriterTypeOK, CheckpointTypeOK, Entries
    <2>8. TruncateSafe'
        BY <1>24 DEF Crash, CheckpointIdle, TruncateSafe, CacheTypeOK, CheckpointTypeOK
    <2>9. LoggedMarkSurvives'
        BY <1>24 DEF Crash, CheckpointIdle, LoggedMarkSurvives, Durable, CacheTypeOK,
            Entries
    <2> QED BY <2>1, <2>2, <2>3, <2>4, <2>5, <2>6, <2>7, <2>8, <2>9
<1>25. CASE Open
    <2>1. Quiet'
        BY <1>25 DEF Open, IsResumePoint, Replayed, ReplayFrom, Quiet, WriterTypeOK
    <2>2. BatchInGate'
        BY <1>25 DEF Open, IsResumePoint, Replayed, ReplayFrom, BatchInGate,
            WriterTypeOK
    <2>3. LoggedMarked'
        <3>1. ReplayFrom(meta) <= meta.maxSeq
            BY SMTT(60) DEF ReplayFrom, CacheTypeOK
        <3>2. \A e \in wal : e[2] > meta.maxSeq => e \in Replayed(meta, wal)
            BY SMTT(60), <3>1 DEF Replayed, ReplayFrom, CacheTypeOK, Entries
        <3>3. \A b \in logged : RecoveredState(meta, wal, b) = "DIRTY"
            BY <3>2 DEF RecoveredState, ReplayedBlocks, LoggedMarkSurvives, Durable
        <3> QED BY <1>25, <3>3 DEF Open, LoggedMarked, CacheTypeOK
    <2>4. BelowCounter'
        <3>1. PICK n \in 0 .. MaxSeq : IsResumePoint(meta, wal, n) /\ seq' = n
            BY <1>25 DEF Open
        <3>2. meta.maxSeq <= seq' /\ \A e \in Replayed(meta, wal) : e[2] <= seq'
            BY <3>1 DEF IsResumePoint
        <3> QED BY <1>25, <3>2 DEF Open, BelowCounter
    <2>5. PendingMarked'
        BY <1>25 DEF Open, IsResumePoint, Replayed, ReplayFrom, PendingMarked, Quiet,
            WriterTypeOK, CacheTypeOK
    <2>6. BatchOpen'
        BY <1>25 DEF Open, IsResumePoint, Replayed, ReplayFrom, BatchOpen, Quiet,
            BatchInGate, WriterTypeOK, CacheTypeOK, Entries
    <2>7. SnapshotCovers'
        BY <1>25 DEF Open, IsResumePoint, Replayed, ReplayFrom, SnapshotCovers,
            Quiet, Snapshotting, CacheTypeOK, WriterTypeOK, CheckpointTypeOK, Entries
    <2>8. TruncateSafe'
        BY <1>25 DEF Open, IsResumePoint, Replayed, ReplayFrom, TruncateSafe, Quiet,
            CacheTypeOK, CheckpointTypeOK
    <2>9. LoggedMarkSurvives'
        <3>1. ReplayFrom(meta) <= meta.maxSeq
            BY SMTT(60) DEF ReplayFrom, CacheTypeOK
        <3>2. \A e \in wal : e[2] > meta.maxSeq => e \in Replayed(meta, wal)
            BY SMTT(60), <3>1 DEF Replayed, ReplayFrom, CacheTypeOK, Entries
        <3> QED BY <1>25, <3>2 DEF Open, LoggedMarkSurvives, Durable
    <2> QED BY <2>1, <2>2, <2>3, <2>4, <2>5, <2>6, <2>7, <2>8, <2>9
<1>26. CASE FinishRecovery
    <2>1. Quiet'
        BY <1>26 DEF FinishRecovery, Quiet, WriterTypeOK
    <2>2. LoggedMarked'
        BY <1>26 DEF FinishRecovery, LoggedMarked, CacheTypeOK
    <2>3. BelowCounter'
        BY SMTT(60), <1>26 DEF FinishRecovery, BelowCounter, CacheTypeOK, Entries
    <2>4. BatchOpen'
        BY <1>26 DEF FinishRecovery, BatchOpen, Quiet, BatchInGate, WriterTypeOK,
            CacheTypeOK, Entries
    <2>5. TruncateSafe'
        BY <1>26 DEF FinishRecovery, TruncateSafe, Quiet, CacheTypeOK, CheckpointTypeOK
    <2>6. LoggedMarkSurvives'
        BY <1>26 DEF FinishRecovery, LoggedMarkSurvives, LoggedMarked, Durable, CacheTypeOK,
            Entries
    <2>7. BatchInGate' /\ PendingMarked' /\ SnapshotCovers'
        BY <1>26 DEF FinishRecovery, BatchInGate, PendingMarked, SnapshotCovers,
            Snapshotting
    <2> QED BY <2>1, <2>2, <2>3, <2>4, <2>5, <2>6, <2>7
<1>27. CASE UNCHANGED vars
        BY <1>27 DEF vars, Quiet, BatchInGate, LoggedMarked, BelowCounter, PendingMarked,
            BatchOpen, SnapshotCovers, TruncateSafe, LoggedMarkSurvives, Snapshotting,
            Durable, IsFirst
<1> QED
    BY <1>1, <1>2, <1>3, <1>4, <1>5, <1>6, <1>7, <1>8, <1>9, <1>10, <1>11, <1>12,
       <1>13, <1>14, <1>15, <1>16, <1>17, <1>18, <1>19, <1>20, <1>21, <1>22, <1>23,
       <1>24, <1>25, <1>26, <1>27
    DEF Next, WriterNext, CheckpointNext, FlusherNext

-----------------------------------------------------------------------------
\* A freshly created cache satisfies the strengthening.
LEMMA IInvInit ==
    Init => IInv
<1> SUFFICES ASSUME Init PROVE IInv
    OBVIOUS
<1> USE BlocksAssumption, BoundsAssumption
<1> USE DEF Init, Absent, States
<1>1. FlagTypeOK
    BY DEF FlagTypeOK
<1>2. CacheTypeOK
    BY SMTT(60) DEF CacheTypeOK
<1>3. WriterTypeOK
    BY DEF WriterTypeOK
<1>4. CheckpointTypeOK
    BY SMTT(60) DEF CheckpointTypeOK
<1>5. SkipsLeft /\ TruncateSafe /\ SnapshotCovers
    BY DEF SkipsLeft, TruncateSafe, SnapshotCovers, Snapshotting
<1>6. Quiet /\ BatchInGate /\ BatchOpen
    BY DEF Quiet, BatchInGate, BatchOpen
<1>7. LoggedMarked /\ BelowCounter /\ PendingMarked /\ LoggedMarkSurvives
    BY SMTT(60) DEF LoggedMarked, BelowCounter, PendingMarked, LoggedMarkSurvives
<1>8. Strengthening
    BY <1>5, <1>6, <1>7 DEF Strengthening
<1> QED BY <1>1, <1>2, <1>3, <1>4, <1>5, <1>8 DEF IInv, TypeOK

\* Every variable of the write cache keeps its type, and ckpt_skips never
\* passes CKPT_MAX_SKIPS, however writers, checkpoints, flushes and crashes interleave.
THEOREM TypeCorrect == Spec => []TypeOK
<1>1. IInv /\ [Next]_vars => IInv'
    BY IInvStep
<1>2. IInv => TypeOK
    BY DEF IInv
<1> QED BY IInvInit, <1>1, <1>2, PTL DEF Spec

\* The dirty mark of a block whose log entry was appended survives a crash at
\* any moment until the block is in S3: no checkpoint drops an entry that its
\* snapshot does not contain (checkpoint, save_block_states, truncate_if,
\* exclusive_then_truncate and open together).
THEOREM LoggedWritesSurvive == Spec => []LoggedMarkSurvives
<1>1. IInv /\ [Next]_vars => IInv'
    BY IInvStep
<1>2. IInv => LoggedMarkSurvives
    BY DEF IInv, Strengthening
<1> QED BY IInvInit, <1>1, <1>2, PTL DEF Spec
=============================================================================
