------------------------- MODULE ResurrectionProofs -------------------------
(***************************************************************************)
(* No evicted block comes back: NoResurrection of Checkpoint, for any      *)
(* device, any number of writers with or without their block's lock, and   *)
(* any rare events but a metadata file that cannot be saved.               *)
(*                                                                         *)
(* What has to be carried along is which log entries a block without local *)
(* data can still have.  A block takes numbers only while it is DIRTY      *)
(* (NumbersAreDirty), the rotation turns DIRTY into SYNCING when no writer *)
(* is in the gate, so a SYNCING or absent block has no entry above         *)
(* rotation_seq (OldEntries); a snapshot that starts after an eviction     *)
(* reads a sequence number that covers the block (SnapshotForgets), and    *)
(* the flushing file goes only after such a snapshot (Unrecovered).        *)
(***************************************************************************)
EXTENDS CheckpointProofs

\* As in CheckpointProofs, a leaf goes to Zenon unless it asks for the SMT solver.
USE ZenonT(60)

Saves == "save_error" \notin Events

Gone(b) == state[b] = "NOT_PRESENT"

\* The log has no entry of the block above n.
NoneAbove(log, b, n) == \A e \in log : e[1] = b => e[2] <= n

\* The files bring the block back as NOT_PRESENT.
Forgotten(m, log, b) == m.states[b] \notin Unsaved /\ NoneAbove(log, b, ReplayFrom(m))

\* Which files there are, from where the flusher stands.
Places ==
    /\ ~ff => rotation = 0
    /\ flusher \in {"idle", "redirty", "unlink"} => ~ff
    /\ flusher \in {"upload", "evicted"} => ff /\ flushFile
    /\ flusher # "keep"
    /\ phase # "down" /\ flusher \in {"idle", "redirty"} => ~flushFile
    /\ flusher = "checkpoint" <=> ckPc # "idle" /\ ckBy = "flush"

\* Only a DIRTY block takes a number, and it stays DIRTY until its entry is
\* in the log.
NumbersAreDirty ==
    \A w \in Writers :
        /\ \A e \in batch[w] : state[e[1]] = "DIRTY"
        /\ pc[w] = "seq" => \A b \in Blocks : IsFirst(b, todo[w]) => state[b] = "DIRTY"

\* What was dirty at the rotation, and what was absent, has older entries only.
OldEntries ==
    ff => \A b \in Blocks : state[b] \in {"NOT_PRESENT", "SYNCING"} => NoneAbove(wal, b, rotation)

\* But for the blocks just evicted, the files agree that a block is gone.
Unrecovered ==
    phase # "down" /\ (flushFile => flusher \notin {"evicted", "checkpoint"}) =>
        \A b \in Blocks : Gone(b) => Forgotten(meta, wal, b)

\* So does the snapshot being taken, unless an eviction overtook it.
SnapshotForgets ==
    Snapshotting /\ flusher # "evicted" =>
        \A b \in Blocks : Gone(b) =>
            /\ b \notin ckTodo => ckStates[b] \notin Unsaved
            /\ NoneAbove(wal, b, ckSeq)
            /\ ckPc = "rename" /\ ckRot > 0 => NoneAbove(wal, b, ckRot)

RenamedForgets ==
    ckPc = "truncate" /\ flusher # "evicted" =>
        \A b \in Blocks : Gone(b) => Forgotten(meta, wal, b)

Forgets == OldEntries /\ Unrecovered /\ SnapshotForgets /\ RenamedForgets

Held == Places /\ NumbersAreDirty /\ Forgets

-----------------------------------------------------------------------------
(* The writers.                                                            *)

\* A step that changes no file but the log, logs only DIRTY blocks and takes
\* no block's local data away.
LEMMA OnlyMarks ==
    ASSUME Held,
           UNCHANGED <<phase, flusher, ff, rotation, flushFile, meta>>,
           UNCHANGED <<ckPc, ckBy, ckSeq, ckStates, ckTodo, ckRot>>,
           \A b \in Blocks : state'[b] \in {"NOT_PRESENT", "SYNCING"} => state'[b] = state[b],
           \A b \in Blocks : state'[b] # "DIRTY" => \A e \in wal' : e[1] = b => e \in wal
    PROVE  Places' /\ Forgets'
<1>1. Places'
    BY DEF Held, Places
<1>2. \A b \in Blocks : \A n : state'[b] # "DIRTY" /\ NoneAbove(wal, b, n) => NoneAbove(wal', b, n)
    BY DEF NoneAbove
<1>3. OldEntries'
    BY <1>2 DEF Held, Forgets, OldEntries
<1>4. \A b \in Blocks : Gone(b)' => Gone(b) /\ state'[b] # "DIRTY"
    BY DEF Gone
<1>5. \A b \in Blocks : Gone(b)' /\ Forgotten(meta, wal, b) => Forgotten(meta, wal', b)
    BY <1>2, <1>4 DEF Forgotten
<1>6. Unrecovered'
    BY <1>4, <1>5 DEF Held, Forgets, Unrecovered
<1>7. SnapshotForgets'
    BY <1>2, <1>4 DEF Held, Forgets, SnapshotForgets, Snapshotting
<1>8. RenamedForgets'
    BY <1>4, <1>5 DEF Held, Forgets, RenamedForgets
<1> QED BY <1>1, <1>3, <1>6, <1>7, <1>8 DEF Forgets

\* The entries of a batch and of the log are of blocks, with natural numbers.
LEMMA EntryShape ==
    ASSUME TypeOK
    PROVE  /\ \A w \in Writers : \A e \in batch[w] : e[1] \in Blocks /\ e[2] \in Nat
           /\ \A e \in wal : e[1] \in Blocks /\ e[2] \in Nat
<1>1. \A e \in Entries : e[1] \in Blocks /\ e[2] \in Nat
    BY SMTT(60), BoundsAssumption DEF Entries
<1> QED BY <1>1 DEF TypeOK, WriterTypeOK, CacheTypeOK

\* A step that keeps the DIRTY blocks and hands out no number.
LEMMA NoNumber ==
    ASSUME TypeOK, NumbersAreDirty,
           \A b \in Blocks : state[b] = "DIRTY" => state'[b] = "DIRTY",
           \A x \in Writers : batch'[x] \subseteq batch[x],
           \A x \in Writers : pc'[x] = "seq" => pc[x] = "seq" /\ todo'[x] = todo[x]
    PROVE  NumbersAreDirty'
<1>1. \A x \in Writers : \A e \in batch'[x] : state'[e[1]] = "DIRTY"
    BY EntryShape DEF NumbersAreDirty
<1>2. \A x \in Writers, b \in Blocks : pc'[x] = "seq" /\ IsFirst(b, todo'[x]) => state'[b] = "DIRTY"
    BY DEF NumbersAreDirty
<1> QED BY <1>1, <1>2 DEF NumbersAreDirty, IsFirst

\* The handler looks at the states; an absent block is claimed.
LEMMA BeginHolds ==
    ASSUME TypeOK, Held, NEW w \in Writers, BeginLocal(w) \/ BeginAbsent(w)
    PROVE  Held'
<1>1. UNCHANGED <<phase, flusher, ff, rotation, flushFile, meta, ckPc, ckBy, ckSeq, ckStates,
          ckTodo, ckRot, wal, batch>>
    BY DEF BeginLocal, BeginAbsent, ckVars, diskVars
<1>2. \A b \in Blocks : state'[b] = state[b] \/ (state[b] = "NOT_PRESENT" /\ state'[b] = "CLEAN")
    BY DEF BeginLocal, BeginAbsent, TypeOK, CacheTypeOK
<1>3. \A x \in Writers : pc'[x] = "seq" => pc[x] = "seq" /\ todo'[x] = todo[x]
    BY DEF BeginLocal, BeginAbsent, TypeOK, WriterTypeOK
<1>4. NumbersAreDirty'
    BY <1>1, <1>2, <1>3, NoNumber DEF Held
<1>5. Places' /\ Forgets'
    BY <1>1, <1>2, OnlyMarks
<1> QED BY <1>4, <1>5 DEF Held

\* A copy from the flushing file makes its block DIRTY and logs nothing.
LEMMA PromoteHolds ==
    ASSUME TypeOK, Held, NEW w \in Writers, Promote(w)
    PROVE  Held'
<1>1. UNCHANGED <<phase, flusher, ff, rotation, flushFile, meta, ckPc, ckBy, ckSeq, ckStates,
          ckTodo, ckRot, wal, batch>>
    BY DEF Promote, ckVars, diskVars
<1>2. PICK b \in Blocks : /\ \E s \in PromotedTo(b, req[w]) : state' = [state EXCEPT ![b] = s]
                          /\ Advance(w, b, "promote", "mark")
    BY DEF Promote
<1>3. PICK s \in PromotedTo(b, req[w]) : state' = [state EXCEPT ![b] = s]
    BY <1>2
<1>4. (state[b] = "DIRTY" => s = "DIRTY") /\ (s \in {"NOT_PRESENT", "SYNCING"} => s = state[b])
    BY <1>3 DEF PromotedTo
<1>5. /\ \A c \in Blocks : state[c] = "DIRTY" => state'[c] = "DIRTY"
      /\ \A c \in Blocks : state'[c] \in {"NOT_PRESENT", "SYNCING"} => state'[c] = state[c]
    BY <1>3, <1>4 DEF TypeOK, CacheTypeOK
<1>6. \A x \in Writers : pc'[x] = "seq" => pc[x] = "seq" /\ todo'[x] = todo[x]
    BY <1>2 DEF Advance, TypeOK, WriterTypeOK
<1>7. NumbersAreDirty'
    BY <1>1, <1>5, <1>6, NoNumber DEF Held
<1>8. Places' /\ Forgets'
    BY <1>1, <1>5, OnlyMarks
<1> QED BY <1>7, <1>8 DEF Held

\* A write that gives up, or whose append fails, leaves the states alone.
LEMMA GiveUpHolds ==
    ASSUME TypeOK, Held, NEW w \in Writers, Evicted(w) \/ AppendError(w)
    PROVE  Held'
<1>1. UNCHANGED <<phase, state, flusher, ff, rotation, flushFile, meta, ckPc, ckBy, ckSeq,
          ckStates, ckTodo, ckRot, wal>>
    BY DEF Evicted, AppendError, ckVars, diskVars
<1>2. Finish(w)
    BY DEF Evicted, AppendError
<1>3. \A x \in Writers : batch'[x] \subseteq batch[x]
    BY <1>2 DEF Finish, TypeOK, WriterTypeOK
<1>4. \A x \in Writers : pc'[x] = "seq" => pc[x] = "seq" /\ todo'[x] = todo[x]
    BY <1>2 DEF Finish, TypeOK, WriterTypeOK
<1>5. NumbersAreDirty'
    BY <1>1, <1>3, <1>4, NoNumber DEF Held
<1>6. Places' /\ Forgets'
    BY <1>1, OnlyMarks
<1> QED BY <1>5, <1>6 DEF Held

\* The block is DIRTY before it takes its number.
LEMMA MarkHolds ==
    ASSUME TypeOK, Held, NEW w \in Writers, Mark(w)
    PROVE  Held'
<1>1. UNCHANGED <<phase, flusher, ff, rotation, flushFile, meta, ckPc, ckBy, ckSeq, ckStates,
          ckTodo, ckRot, wal, batch>>
    BY DEF Mark, ckVars, diskVars
<1>2. PICK b \in Blocks : /\ IsFirst(b, todo[w])
                          /\ IF state[b] = "DIRTY"
                             THEN Advance(w, b, "mark", "append") /\ UNCHANGED state
                             ELSE /\ state' = [state EXCEPT ![b] = "DIRTY"]
                                  /\ pc' = [pc EXCEPT ![w] = "seq"]
                                  /\ UNCHANGED todo
    BY DEF Mark
<1>3. \A c \in Blocks : state'[c] = state[c] \/ (c = b /\ state'[c] = "DIRTY")
    BY <1>2 DEF TypeOK, CacheTypeOK
<1>4. NumbersAreDirty'
    <2>1. CASE state[b] = "DIRTY"
        <3>1. \A x \in Writers : pc'[x] = "seq" => pc[x] = "seq" /\ todo'[x] = todo[x]
            BY <1>2, <2>1 DEF Advance, TypeOK, WriterTypeOK
        <3> QED BY <1>1, <1>3, <3>1, NoNumber DEF Held
    <2>2. CASE state[b] # "DIRTY"
        <3>1. state'[b] = "DIRTY" /\ todo' = todo /\ \A x \in Writers \ {w} : pc'[x] = pc[x]
            BY <1>2, <2>2 DEF TypeOK, CacheTypeOK, WriterTypeOK
        <3>2. \A c \in Blocks : IsFirst(c, todo[w]) => c = b
            BY SMTT(60), <1>2, BlocksAssumption DEF IsFirst
        <3>3. \A x \in Writers : \A e \in batch'[x] : state'[e[1]] = "DIRTY"
            BY <1>1, <1>3, EntryShape DEF Held, NumbersAreDirty
        <3>4. \A x \in Writers, c \in Blocks : pc'[x] = "seq" /\ IsFirst(c, todo'[x]) => state'[c] = "DIRTY"
            BY <1>3, <3>1, <3>2 DEF Held, NumbersAreDirty
        <3> QED BY <3>3, <3>4 DEF NumbersAreDirty, IsFirst
    <2> QED BY <2>1, <2>2
<1>5. Places' /\ Forgets'
    BY <1>1, <1>3, OnlyMarks
<1> QED BY <1>4, <1>5 DEF Held

\* TakeSeq: the number goes to the block that Mark made DIRTY.
LEMMA TakeSeqHolds ==
    ASSUME TypeOK, Held, NEW w \in Writers, TakeSeq(w)
    PROVE  Held'
<1>1. UNCHANGED <<phase, state, flusher, ff, rotation, flushFile, meta, ckPc, ckBy, ckSeq,
          ckStates, ckTodo, ckRot, wal>>
    BY DEF TakeSeq, ckVars, diskVars
<1>2. PICK b \in Blocks : /\ IsFirst(b, todo[w])
                          /\ batch' = [batch EXCEPT ![w] = @ \cup {<<b, seq + 1>>}]
                          /\ Advance(w, b, "mark", "append")
    BY DEF TakeSeq
<1>3. pc[w] = "seq" /\ state[b] = "DIRTY"
    BY <1>2 DEF TakeSeq, Held, NumbersAreDirty
<1>4. \A x \in Writers : \A e \in batch'[x] : e \in batch[x] \/ e = <<b, seq + 1>>
    BY <1>2 DEF TypeOK, WriterTypeOK
<1>5. <<b, seq + 1>>[1] = b
    OBVIOUS
<1>6. \A x \in Writers : \A e \in batch'[x] : state'[e[1]] = "DIRTY"
    BY <1>1, <1>3, <1>4, <1>5 DEF Held, NumbersAreDirty
<1>7. \A x \in Writers : pc'[x] = "seq" => pc[x] = "seq" /\ todo'[x] = todo[x]
    BY <1>2 DEF Advance, TypeOK, WriterTypeOK
<1>8. \A x \in Writers, c \in Blocks : pc'[x] = "seq" /\ IsFirst(c, todo'[x]) => state'[c] = "DIRTY"
    BY <1>1, <1>7 DEF Held, NumbersAreDirty
<1>9. NumbersAreDirty'
    BY <1>6, <1>8 DEF NumbersAreDirty, IsFirst
<1>10. Places' /\ Forgets'
    BY <1>1, OnlyMarks
<1> QED BY <1>9, <1>10 DEF Held

\* The batch reaches the log: its blocks are DIRTY.
LEMMA AppendHolds ==
    ASSUME TypeOK, Held, NEW w \in Writers, AppendEntry(w)
    PROVE  Held'
<1>1. UNCHANGED <<phase, state, flusher, ff, rotation, flushFile, meta, ckPc, ckBy, ckSeq,
          ckStates, ckTodo, ckRot>>
    BY DEF AppendEntry, ckVars
<1>2. Finish(w) /\ wal' = wal \cup batch[w]
    BY DEF AppendEntry
<1>3. \A x \in Writers : batch'[x] \subseteq batch[x]
    BY <1>2 DEF Finish, TypeOK, WriterTypeOK
<1>4. \A x \in Writers : pc'[x] = "seq" => pc[x] = "seq" /\ todo'[x] = todo[x]
    BY <1>2 DEF Finish, TypeOK, WriterTypeOK
<1>5. NumbersAreDirty'
    BY <1>1, <1>3, <1>4, NoNumber DEF Held
<1>6. \A b \in Blocks : state'[b] # "DIRTY" => \A e \in wal' : e[1] = b => e \in wal
    BY <1>1, <1>2 DEF Held, NumbersAreDirty
<1>7. Places' /\ Forgets'
    BY <1>1, <1>6, OnlyMarks
<1> QED BY <1>5, <1>7 DEF Held

-----------------------------------------------------------------------------
(* The checkpoint.                                                         *)

\* A snapshot starts: its number covers every entry of the log.
LEMMA StartHolds ==
    ASSUME IInv, Held, TimerCheckpoint \/ FlushCheckpoint
    PROVE  Held'
<1>1. UNCHANGED <<phase, state, rotation, ff, flushFile, meta, wal, pc, todo, batch>>
    BY DEF TimerCheckpoint, FlushCheckpoint, writerVars, diskVars
<1>2. /\ phase = "up" /\ ckPc = "idle" /\ ckPc' \in {"trailer", "snapshot"}
      /\ ckSeq' = seq /\ ckTodo' = Blocks
    BY DEF TimerCheckpoint, FlushCheckpoint, StartCheckpoint
<1>3. \/ flusher' = flusher /\ ckBy' = "timer"
      \/ flusher \in {"evicted", "idle"} /\ flusher' = "checkpoint" /\ ckBy' = "flush"
    BY DEF TimerCheckpoint, FlushCheckpoint, StartCheckpoint
<1>4. Places'
    BY <1>1, <1>2, <1>3 DEF Held, Places
<1>5. NumbersAreDirty'
    BY <1>1, NoNumber DEF Held, IInv
<1>6. OldEntries'
    BY <1>1 DEF Held, Forgets, OldEntries
<1>7. Unrecovered'
    BY <1>1, <1>2, <1>3 DEF Held, Forgets, Places, Unrecovered, Gone
<1>8. SnapshotForgets'
    <2>1. \A b \in Blocks : NoneAbove(wal, b, seq)
        BY <1>2 DEF IInv, Strengthening, BelowCounter, NoneAbove
    <2> QED BY <1>1, <1>2, <2>1 DEF SnapshotForgets
<1>9. RenamedForgets'
    BY <1>2 DEF RenamedForgets
<1> QED BY <1>4, <1>5, <1>6, <1>7, <1>8, <1>9 DEF Held, Forgets

\* The snapshot looks at a block: what is gone is not marked in it.
LEMMA SnapshotHolds ==
    ASSUME IInv, Held, SnapshotBlock
    PROVE  Held'
<1>1. UNCHANGED <<phase, state, rotation, ff, flusher, flushFile, meta, wal, pc, todo, batch,
          ckBy, ckSeq, ckRot>>
    BY DEF SnapshotBlock, writerVars, diskVars
<1>2. PICK b \in Blocks : /\ ckStates' = [ckStates EXCEPT ![b] = state[b]]
                          /\ ckTodo' = ckTodo \ {b}
    BY DEF SnapshotBlock
<1>3. ckPc = "snapshot" /\ ckPc' \in {"snapshot", "trailer"}
    BY DEF SnapshotBlock
<1>4. Places'
    BY <1>1, <1>3 DEF Held, Places
<1>5. NumbersAreDirty'
    BY <1>1, NoNumber DEF Held, IInv
<1>6. OldEntries' /\ Unrecovered' /\ RenamedForgets'
    BY <1>1, <1>3 DEF Held, Forgets, OldEntries, Unrecovered, RenamedForgets, Gone
<1>7. SnapshotForgets'
    <2>1. ckStates'[b] = state[b] /\ \A c \in Blocks \ {b} : ckStates'[c] = ckStates[c]
        BY <1>2 DEF IInv, TypeOK, CheckpointTypeOK
    <2>2. ASSUME flusher # "evicted", NEW c \in Blocks, Gone(c)
          PROVE  (c \notin ckTodo' => ckStates'[c] \notin Unsaved) /\ NoneAbove(wal, c, ckSeq)
        <3>1. (c \notin ckTodo => ckStates[c] \notin Unsaved) /\ NoneAbove(wal, c, ckSeq)
            BY <1>3, <2>2 DEF Held, Forgets, SnapshotForgets, Snapshotting
        <3>2. CASE c = b
            <4>1. ckStates'[c] = "NOT_PRESENT"
                BY <2>1, <2>2, <3>2 DEF Gone
            <4> QED BY <3>1, <4>1 DEF Unsaved
        <3>3. CASE c # b
            <4>1. ckStates'[c] = ckStates[c] /\ (c \notin ckTodo' => c \notin ckTodo)
                BY <1>2, <2>1, <3>3
            <4> QED BY <3>1, <4>1
        <3> QED BY <3>2, <3>3
    <2> QED BY <1>1, <1>3, <2>2 DEF SnapshotForgets, Gone
<1> QED BY <1>4, <1>5, <1>6, <1>7 DEF Held, Forgets

\* rotation_seq is read: a block that is gone was logged before that rotation.
LEMMA TrailerHolds ==
    ASSUME IInv, Held, SnapshotTrailer
    PROVE  Held'
<1>1. UNCHANGED <<phase, state, rotation, ff, flusher, flushFile, meta, wal, pc, todo, batch,
          ckBy, ckSeq, ckStates, ckTodo>>
    BY DEF SnapshotTrailer, writerVars, diskVars
<1>2. ckPc = "trailer" /\ ckPc' = "rename" /\ ckRot' = rotation
    BY DEF SnapshotTrailer
<1>3. Places'
    BY <1>1, <1>2 DEF Held, Places
<1>4. NumbersAreDirty'
    BY <1>1, NoNumber DEF Held, IInv
<1>5. OldEntries' /\ Unrecovered' /\ RenamedForgets'
    BY <1>1, <1>2 DEF Held, Forgets, OldEntries, Unrecovered, RenamedForgets, Gone
<1>6. SnapshotForgets'
    <2>1. rotation > 0 => ff
        BY SMTT(60) DEF Held, Places
    <2>2. rotation > 0 => \A b \in Blocks : Gone(b) => NoneAbove(wal, b, rotation)
        BY <2>1 DEF Held, Forgets, OldEntries, Gone
    <2> QED BY <1>1, <1>2, <2>2 DEF Held, Forgets, SnapshotForgets, Snapshotting, Gone
<1> QED BY <1>3, <1>4, <1>5, <1>6 DEF Held, Forgets

\* Where open() starts to replay.
LEMMA ReplayPoint ==
    ASSUME NEW s, NEW n \in Nat, NEW r \in Nat
    PROVE  /\ [states |-> s, maxSeq |-> n, rot |-> r].states = s
           /\ ReplayFrom([states |-> s, maxSeq |-> n, rot |-> r]) = IF r > 0 /\ r < n THEN r ELSE n
BY SMTT(60) DEF ReplayFrom

\* The snapshot becomes the metadata file.
LEMMA RenameHolds ==
    ASSUME IInv, Held, RenameMeta
    PROVE  Held'
<1>1. UNCHANGED <<phase, state, rotation, ff, flushFile, wal, pc, todo, batch>>
    BY DEF RenameMeta, writerVars
<1>2. ckPc = "rename" /\ meta' = [states |-> ckStates, maxSeq |-> ckSeq, rot |-> ckRot]
    BY DEF RenameMeta
<1>3. \/ ckPc' = "truncate" /\ flusher' = flusher /\ ckBy' = ckBy
      \/ /\ ckPc' = "idle" /\ ckBy' = "timer"
         /\ flusher' = IF ckBy # "flush" THEN flusher ELSE "cleanup"
    BY DEF RenameMeta, CheckpointDone, CheckpointIdle
<1>4. flusher = "checkpoint" <=> ckBy = "flush"
    BY <1>2 DEF Held, Places
<1>5. Places'
    BY <1>1, <1>2, <1>3, <1>4 DEF Held, Places
<1>6. NumbersAreDirty'
    BY <1>1, NoNumber DEF Held, IInv
<1>7. OldEntries'
    BY <1>1 DEF Held, Forgets, OldEntries
<1>8. flusher # "evicted" => \A b \in Blocks : Gone(b) => Forgotten(meta', wal, b)
    <2> SUFFICES ASSUME flusher # "evicted", NEW b \in Blocks, Gone(b)
                 PROVE  Forgotten(meta', wal, b)
        OBVIOUS
    <2>1. ckTodo = {}
        BY <1>2 DEF IInv, Strengthening, SnapshotCovers, Snapshotting
    <2>2. /\ ckStates[b] \notin Unsaved /\ NoneAbove(wal, b, ckSeq)
          /\ ckRot > 0 => NoneAbove(wal, b, ckRot)
        BY <1>2, <2>1 DEF Held, Forgets, SnapshotForgets, Snapshotting
    <2>3. ckSeq \in Nat /\ ckRot \in Nat
        BY SMTT(60), BoundsAssumption DEF IInv, TypeOK, CheckpointTypeOK
    <2>4. /\ meta'.states = ckStates
          /\ ReplayFrom(meta') = IF ckRot > 0 /\ ckRot < ckSeq THEN ckRot ELSE ckSeq
        BY <1>2, <2>3, ReplayPoint
    <2> QED BY <2>2, <2>4 DEF Forgotten
<1>9. flusher = "evicted" => flushFile' /\ flusher' = "evicted"
    BY <1>1, <1>3, <1>4 DEF Held, Places
<1>10. Unrecovered'
    BY <1>1, <1>8, <1>9 DEF Unrecovered, Gone
<1>11. SnapshotForgets'
    BY <1>3 DEF SnapshotForgets, Snapshotting
<1>12. RenamedForgets'
    BY <1>1, <1>8, <1>9 DEF RenamedForgets, Gone
<1> QED BY <1>5, <1>6, <1>7, <1>10, <1>11, <1>12 DEF Held, Forgets

\* The log is emptied or kept; the metadata file is the one just renamed.
LEMMA TruncateHolds ==
    ASSUME IInv, Held, Truncate
    PROVE  Held'
<1>1. UNCHANGED <<phase, state, rotation, ff, flushFile, meta, pc, todo, batch>>
    BY DEF Truncate, writerVars
<1>2. /\ ckPc = "truncate" /\ ckPc' = "idle" /\ ckBy' = "timer" /\ wal' \subseteq wal
      /\ flusher' = IF ckBy # "flush" THEN flusher ELSE "cleanup"
    BY DEF Truncate, CheckpointDone, CheckpointIdle
<1>3. flusher = "checkpoint" <=> ckBy = "flush"
    BY <1>2 DEF Held, Places
<1>4. Places'
    BY <1>1, <1>2, <1>3 DEF Held, Places
<1>5. NumbersAreDirty'
    BY <1>1, NoNumber DEF Held, IInv
<1>6. \A b, n : NoneAbove(wal, b, n) => NoneAbove(wal', b, n)
    BY <1>2 DEF NoneAbove
<1>7. OldEntries'
    BY <1>1, <1>6 DEF Held, Forgets, OldEntries
<1>8. flusher # "evicted" => \A b \in Blocks : Gone(b) => Forgotten(meta, wal', b)
    BY <1>2, <1>6 DEF Held, Forgets, RenamedForgets, Forgotten
<1>9. flusher = "evicted" => flushFile' /\ flusher' = "evicted"
    BY <1>1, <1>2, <1>3 DEF Held, Places
<1>10. Unrecovered'
    BY <1>1, <1>8, <1>9 DEF Unrecovered, Gone
<1>11. SnapshotForgets' /\ RenamedForgets'
    BY <1>2 DEF SnapshotForgets, RenamedForgets, Snapshotting
<1> QED BY <1>4, <1>5, <1>7, <1>10, <1>11 DEF Held, Forgets

-----------------------------------------------------------------------------
(* The flusher.                                                            *)

\* The rotation claims the DIRTY blocks when no writer is in the gate: every
\* entry so far is at most rotation_seq.
LEMMA RotateHolds ==
    ASSUME IInv, Held, Rotate
    PROVE  Held'
<1>1. UNCHANGED <<phase, meta, wal, pc, todo, batch, ckPc, ckBy, ckSeq, ckStates, ckTodo,
          ckRot>>
    BY DEF Rotate, writerVars, ckVars
<1>2. /\ phase = "up" /\ flusher = "idle" /\ ~flushFile /\ Drained
      /\ rotation' = seq /\ ff' /\ flushFile' /\ flusher' \in {"cleanup", "upload"}
    BY DEF Rotate
<1>3. \A b \in Blocks : state'[b] = IF state[b] = "DIRTY" THEN "SYNCING" ELSE state[b]
    BY DEF Rotate
<1>4. \A b \in Blocks : Gone(b)' => Gone(b)
    BY <1>3 DEF Gone
<1>5. Places'
    BY <1>1, <1>2 DEF Held, Places
<1>6. NumbersAreDirty'
    <2>1. \A w \in Writers : pc[w] \notin {"mark", "seq", "append"}
        BY <1>2 DEF Drained, InGate
    <2>2. \A w \in Writers : batch[w] = {}
        BY <2>1 DEF IInv, Strengthening, BatchInGate
    <2> QED BY <1>1, <2>1, <2>2 DEF NumbersAreDirty
<1>7. OldEntries'
    <2>1. \A b \in Blocks : NoneAbove(wal, b, seq)
        BY <1>2 DEF IInv, Strengthening, BelowCounter, NoneAbove
    <2> QED BY <1>1, <1>2, <2>1 DEF OldEntries
<1>8. Unrecovered'
    BY <1>1, <1>2, <1>4 DEF Held, Forgets, Unrecovered
<1>9. SnapshotForgets'
    BY <1>1, <1>2, <1>4 DEF Held, Forgets, SnapshotForgets, Snapshotting
<1>10. RenamedForgets'
    BY <1>1, <1>2, <1>4 DEF Held, Forgets, RenamedForgets
<1> QED BY <1>5, <1>6, <1>7, <1>8, <1>9, <1>10 DEF Held, Forgets

\* The eviction: what is evicted was SYNCING, and the flushing file stays.
LEMMA EvictHolds ==
    ASSUME IInv, Held, Evict
    PROVE  Held'
<1>1. UNCHANGED <<phase, rotation, ff, flushFile, meta, wal, pc, todo, batch, ckPc, ckBy>>
    BY DEF Evict, writerVars, ckVars, diskVars
<1>2. flusher = "upload" /\ flusher' = "evicted"
    BY DEF Evict
<1>3. \A b \in Blocks : state'[b] = IF state[b] = "SYNCING" THEN "NOT_PRESENT" ELSE state[b]
    BY DEF Evict
<1>4. Places'
    BY <1>1, <1>2 DEF Held, Places
<1>5. NumbersAreDirty'
    BY <1>1, <1>3, NoNumber DEF Held, IInv
<1>6. OldEntries'
    BY <1>1, <1>3 DEF Held, Forgets, OldEntries
<1>7. Unrecovered'
    BY <1>1, <1>2 DEF Held, Places, Unrecovered
<1>8. SnapshotForgets' /\ RenamedForgets'
    BY <1>2 DEF SnapshotForgets, RenamedForgets
<1> QED BY <1>4, <1>5, <1>6, <1>7, <1>8 DEF Held, Forgets

\* A failed flush, its end, and the end of a good one: files go, no block
\* loses its local data.
LEMMA CleanupHolds ==
    ASSUME IInv, Held, FlushFailed \/ Redirty \/ Cleanup \/ Unlink \/ RemoveOrphan
    PROVE  Held'
<1>1. UNCHANGED <<phase, meta, wal, pc, todo, batch, ckPc, ckBy, ckSeq, ckStates, ckTodo,
          ckRot>>
    BY DEF FlushFailed, Redirty, Cleanup, Unlink, RemoveOrphan, writerVars, ckVars, diskVars
<1>2. \A b \in Blocks : state'[b] = state[b] \/ (state[b] = "SYNCING" /\ state'[b] = "DIRTY")
    BY DEF FlushFailed, Redirty, Cleanup, Unlink, RemoveOrphan
<1>3. \/ flusher = "upload" /\ flusher' = "redirty" /\ ~ff' /\ rotation' = 0 /\ ~flushFile'
      \/ flusher = "redirty" /\ flusher' = "idle" /\ ff' = ff /\ rotation' = rotation /\ flushFile' = flushFile
      \/ flusher = "cleanup" /\ flusher' = "unlink" /\ ~ff' /\ rotation' = 0 /\ flushFile' = flushFile
      \/ flusher = "unlink" /\ flusher' = "idle" /\ ff' = ff /\ rotation' = rotation /\ ~flushFile'
    BY DEF FlushFailed, Redirty, Cleanup, Unlink, RemoveOrphan, diskVars, Held, Places
<1>4. flusher \in {"upload", "redirty", "cleanup", "unlink"} /\ flusher' \notin {"evicted", "checkpoint", "upload", "keep"}
    BY <1>3
<1>5. Places'
    <2>1. rotation' = 0 /\ ~ff'
        <3>1. CASE flusher \in {"upload", "cleanup"}
            BY <1>3, <3>1
        <3>2. CASE flusher \in {"redirty", "unlink"}
            <4>1. rotation = 0 /\ ~ff
                BY <3>2 DEF Held, Places
            <4>2. rotation' = rotation /\ ff' = ff
                BY <1>3, <3>2
            <4> QED BY <4>1, <4>2
        <3> QED BY <1>4, <3>1, <3>2
    <2>2. phase' # "down" /\ flusher' \in {"idle", "redirty"} => ~flushFile'
        BY <1>1, <1>3 DEF Held, Places
    <2>3. ~(ckPc' # "idle" /\ ckBy' = "flush")
        BY <1>1, <1>4 DEF Held, Places
    <2> QED BY <1>4, <2>1, <2>2, <2>3 DEF Places
<1>6. NumbersAreDirty'
    BY <1>1, <1>2, NoNumber DEF Held, IInv
<1>7. \A b \in Blocks : Gone(b)' => Gone(b)
    BY <1>2 DEF Gone
<1>8. OldEntries'
    BY <1>1, <1>2, <1>3 DEF Held, Places, Forgets, OldEntries
<1>9. Unrecovered'
    BY <1>1, <1>4, <1>7 DEF Held, Forgets, Unrecovered
<1>10. SnapshotForgets'
    BY <1>1, <1>4, <1>7 DEF Held, Forgets, SnapshotForgets, Snapshotting
<1>11. RenamedForgets'
    BY <1>1, <1>4, <1>7 DEF Held, Forgets, RenamedForgets
<1> QED BY <1>5, <1>6, <1>8, <1>9, <1>10, <1>11 DEF Held, Forgets

-----------------------------------------------------------------------------
(* Crash and recovery.                                                     *)

\* What open() brings back as NOT_PRESENT has no mark in the metadata and no
\* entry left to replay.
LEMMA RecoveredGone ==
    ASSUME TypeOK, NEW b \in Blocks
    PROVE  RecoveredState(meta, wal, b) # "DIRTY" <=> Forgotten(meta, wal, b)
<1>1. ReplayFrom(meta) \in Nat
    BY SMTT(60), BoundsAssumption DEF TypeOK, CacheTypeOK, ReplayFrom
<1>2. \A e \in wal : ~(e[2] > ReplayFrom(meta)) <=> e[2] <= ReplayFrom(meta)
    BY SMTT(60), <1>1, EntryShape
<1>3. b \notin ReplayedBlocks(meta, wal) <=> NoneAbove(wal, b, ReplayFrom(meta))
    BY <1>2 DEF ReplayedBlocks, Replayed, NoneAbove
<1> QED BY <1>3 DEF RecoveredState, Forgotten

\* The process dies: only the files are left.
LEMMA CrashHolds ==
    ASSUME IInv, Held, Crash
    PROVE  Held'
<1>1. /\ phase' = "down" /\ flusher' = "idle" /\ ~ff' /\ rotation' = 0
      /\ ckPc' = "idle" /\ ckBy' = "timer"
      /\ \A w \in Writers : pc'[w] = "idle" /\ batch'[w] = {}
    BY DEF Crash, CheckpointIdle
<1>2. Places'
    BY <1>1 DEF Places
<1>3. NumbersAreDirty'
    BY <1>1 DEF NumbersAreDirty
<1>4. Forgets'
    BY <1>1 DEF Forgets, OldEntries, Unrecovered, SnapshotForgets, RenamedForgets, Snapshotting
<1> QED BY <1>2, <1>3, <1>4 DEF Held

\* open() and the end of the recovery agree with the files they leave.
LEMMA OpenHolds ==
    ASSUME IInv, Held, Open
    PROVE  Held'
<1>1. UNCHANGED <<rotation, ff, flusher, pc, todo, batch, ckPc, ckBy, meta>>
    BY DEF Open, writerVars, ckVars
<1>2. /\ phase = "down" /\ ~flushFile' /\ wal' = Replayed(meta, wal)
      /\ state' = [b \in Blocks |-> RecoveredState(meta, wal, b)]
    BY DEF Open
<1>3. ckPc = "idle" /\ flusher = "idle" /\ \A w \in Writers : pc[w] = "idle" /\ batch[w] = {}
    BY <1>2 DEF IInv, Strengthening, Quiet, BatchInGate
<1>4. Places'
    BY <1>1, <1>2, <1>3 DEF Held, Places
<1>5. NumbersAreDirty'
    BY <1>1, <1>3 DEF NumbersAreDirty
<1>6. OldEntries' /\ SnapshotForgets' /\ RenamedForgets'
    BY <1>1, <1>3 DEF Held, Places, OldEntries, SnapshotForgets, RenamedForgets, Snapshotting
<1>7. Unrecovered'
    <2>1. ASSUME NEW b \in Blocks, Gone(b)' PROVE Forgotten(meta, wal', b)
        <3>1. RecoveredState(meta, wal, b) # "DIRTY"
            BY <1>2, <2>1 DEF Gone
        <3>2. Forgotten(meta, wal, b)
            BY <3>1, RecoveredGone DEF IInv
        <3> QED BY <1>2, <3>2 DEF Forgotten, NoneAbove, Replayed
    <2> QED BY <1>1, <2>1 DEF Unrecovered
<1> QED BY <1>4, <1>5, <1>6, <1>7 DEF Held, Forgets

\* finish_recovery saves what open() found, under a number above every entry.
LEMMA RecoveryHolds ==
    ASSUME IInv, Held, FinishRecovery
    PROVE  Held'
<1>1. UNCHANGED <<state, rotation, ff, flusher, flushFile, pc, todo, batch, ckPc, ckBy, wal>>
    BY DEF FinishRecovery, writerVars, ckVars
<1>2. /\ phase = "recovering"
      /\ meta' = IF recount > 0 THEN [states |-> state, maxSeq |-> seq, rot |-> 0] ELSE meta
    BY DEF FinishRecovery
<1>3. ckPc = "idle" /\ flusher = "idle"
    BY <1>2 DEF IInv, Strengthening, Quiet
<1>4. Places'
    BY <1>1, <1>2, <1>3 DEF Held, Places
<1>5. NumbersAreDirty'
    BY <1>1, NoNumber DEF Held, IInv
<1>6. OldEntries' /\ SnapshotForgets' /\ RenamedForgets'
    BY <1>1, <1>3 DEF Held, Forgets, OldEntries, SnapshotForgets, RenamedForgets, Snapshotting
<1>7. Unrecovered'
    <2>1. ASSUME NEW b \in Blocks, Gone(b) PROVE Forgotten(meta', wal, b)
        <3>1. CASE recount > 0
            <4>1. seq \in Nat /\ 0 \in Nat /\ ~(0 > 0)
                BY SMTT(60), BoundsAssumption DEF IInv, TypeOK, CacheTypeOK
            <4>2. meta'.states = state /\ ReplayFrom(meta') = seq
                BY <1>2, <3>1, <4>1, ReplayPoint
            <4>3. NoneAbove(wal, b, seq)
                BY <1>2 DEF IInv, Strengthening, BelowCounter, NoneAbove
            <4> QED BY <2>1, <4>2, <4>3 DEF Forgotten, Gone, Unsaved
        <3>2. CASE ~(recount > 0)
            BY <1>2, <1>3, <2>1, <3>2 DEF Held, Forgets, Unrecovered
        <3> QED BY <3>1, <3>2
    <2> QED BY <1>1, <2>1 DEF Unrecovered, Gone
<1> QED BY <1>4, <1>5, <1>6, <1>7 DEF Held, Forgets

-----------------------------------------------------------------------------
(* Together.                                                               *)

\* The scenario of a behaviour never changes.
LEMMA SceneKept ==
    ASSUME [Next]_vars
    PROVE  scene' = scene
BY DEF Next, WriterNext, CheckpointNext, FlusherNext, vars, BeginLocal, BeginAbsent, Promote,
    Evicted, Mark, TakeSeq, AppendEntry, AppendError, TimerCheckpoint, SnapshotBlock,
    SnapshotTrailer, RenameMeta, SaveError, Truncate, SetHandoffPhase, RemoveOrphan, Rotate,
    FlushFailed, Redirty, Evict, FlushCheckpoint, Cleanup, Unlink, Crash, Open, FinishRecovery

\* Every step keeps the strengthening, when no save fails.
LEMMA HeldStep ==
    ASSUME IInv, Saves, Held, [Next]_vars
    PROVE  Held' /\ Saves'
<1>1. TypeOK
    BY DEF IInv
<1>2. SUFFICES Held'
    BY SceneKept DEF Saves, Events
<1>3. ASSUME NEW w \in Writers, WriterNext(w) PROVE Held'
    BY <1>1, <1>3, BeginHolds, PromoteHolds, GiveUpHolds, MarkHolds, TakeSeqHolds, AppendHolds
        DEF WriterNext
<1>4. CASE SetHandoffPhase \/ UNCHANGED vars
    <2>1. UNCHANGED <<phase, state, flusher, ff, rotation, flushFile, meta, wal, pc, todo, batch,
              ckPc, ckBy, ckSeq, ckStates, ckTodo, ckRot>>
        BY <1>4 DEF SetHandoffPhase, vars, writerVars, ckVars, diskVars
    <2>2. NumbersAreDirty'
        BY <1>1, <2>1, NoNumber DEF Held
    <2>3. Places' /\ Forgets'
        BY <2>1, OnlyMarks
    <2> QED BY <2>2, <2>3 DEF Held
<1>5. CASE CheckpointNext
    BY <1>4, <1>5, StartHolds, SnapshotHolds, TrailerHolds, RenameHolds, TruncateHolds
        DEF CheckpointNext, SaveError, Saves
<1>6. CASE FlusherNext
    BY <1>6, RotateHolds, EvictHolds, CleanupHolds, StartHolds DEF FlusherNext
<1>7. CASE Crash \/ Open \/ FinishRecovery
    BY <1>7, CrashHolds, OpenHolds, RecoveryHolds
<1> QED BY <1>3, <1>4, <1>5, <1>6, <1>7 DEF Next

\* A new cache has no block to forget.
LEMMA HeldInit ==
    Init => Held
<1> SUFFICES ASSUME Init PROVE Held
    OBVIOUS
<1>1. Places
    BY DEF Init, Places
<1>2. NumbersAreDirty
    BY DEF Init, NumbersAreDirty
<1>3. OldEntries /\ SnapshotForgets /\ RenamedForgets
    BY DEF Init, OldEntries, SnapshotForgets, RenamedForgets, Snapshotting
<1>4. Unrecovered
    <2>1. meta.states = Absent /\ wal = {}
        BY SMTT(60) DEF Init
    <2> QED BY <2>1 DEF Unrecovered, Forgotten, NoneAbove, Absent, Unsaved
<1> QED BY <1>1, <1>2, <1>3, <1>4 DEF Held, Forgets

\* flush_dirty_body evicts, checkpoints and then deletes the flushing file, and
\* open() replays from rotation_seq: once the file is gone no crash brings an
\* evicted block back as DIRTY over its data in S3.
THEOREM EvictedStaysEvicted == Spec => []NoResurrection
<1>1. Init => IInv /\ (Saves => Held)
    BY IInvInit, HeldInit
<1>2. (IInv /\ (Saves => Held)) /\ [Next]_vars => (IInv /\ (Saves => Held))'
    <2>1. ASSUME IInv, [Next]_vars, ~Saves PROVE ~Saves'
        BY <2>1, SceneKept DEF Saves, Events
    <2> QED BY <2>1, IInvStep, HeldStep
<1>3. IInv /\ (Saves => Held) => NoResurrection
    <2> SUFFICES ASSUME IInv, Held, phase = "up", ~flushFile, NEW b \in Blocks,
                        state[b] = "NOT_PRESENT"
                 PROVE  RecoveredState(meta, wal, b) # "DIRTY"
        BY DEF NoResurrection, Saves
    <2>1. Forgotten(meta, wal, b)
        BY DEF Held, Forgets, Unrecovered, Gone
    <2> QED BY <2>1, RecoveredGone DEF IInv
<1> QED BY <1>1, <1>2, <1>3, PTL DEF Spec
=============================================================================
