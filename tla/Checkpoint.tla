----------------------------- MODULE Checkpoint -----------------------------
(***************************************************************************)
(* How the write cache keeps the dirty mark of a block across a crash.     *)
(*                                                                         *)
(* A guest write lands in the SSD cache file; what survives a crash of the *)
(* daemon is (a) the metadata file, a snapshot of the block states with    *)
(* the sequence number it covers, and (b) the write-ahead log of           *)
(* <<block, sequence>> pairs.  Writers, the checkpointer and the flusher   *)
(* race each other over both.  This module keeps every step of that race   *)
(* (write.rs, wal.rs, flush.rs:checkpoint, inner.rs:save_block_states,     *)
(* init.rs:open, recovery.rs) and abstracts the block contents away.       *)
(*                                                                         *)
(* A crash is the death of the process: completed system calls survive,    *)
(* and the log record a writer is appending may be torn.                   *)
(***************************************************************************)
EXTENDS Metadata

CONSTANTS
    Blocks,     \* block indices of the device
    Writers,    \* concurrent guest writes
    MaxSkips,   \* CKPT_MAX_SKIPS, inner.rs
    MaxSeq,     \* bound: sequence numbers handed out
    Scenarios   \* what may happen in one behaviour: a set of [events, unlocked]

\* A handoff begins or ends; saving the metadata file fails; appending to the
\* log fails; the metadata is saved on its own (save_metadata, at shutdown).
RareEvents == {"handoff", "save_error", "wal_error", "save_metadata"}

ASSUME BlocksAssumption == Blocks \subseteq Nat /\ IsFiniteSet(Blocks)
ASSUME BoundsAssumption == MaxSkips \in Nat /\ MaxSeq \in Nat
ASSUME ScenariosAssumption ==
    Scenarios \subseteq [events : SUBSET RareEvents, unlocked : SUBSET Writers]

VARIABLES
    phase,      \* "down", "recovering" (opened, not serving) or "up"
    state,      \* SparseStateMap
    seq,        \* SequenceNumber
    rotation,   \* rotation_seq: the sequence at the last rotation, 0 if none
    ff,         \* flushing_file is Some
    claimed,    \* the blocks whose bytes the flushing file holds
    flusher,    \* where the flush cycle stands
    pc, rng, todo, batch, req,              \* the writers
    ckPc, ckMode, ckBy, ckSeq, ckStates, ckTodo, ckRot,  \* the checkpoint under ckpt_lock
    skips,      \* ckpt_skips
    handoff,    \* handoff_phase is active
    recount,    \* dirty_block_count as open() computes it
    wal, meta, flushFile,                   \* on disk
    logged, acked,  \* history: blocks with a logged / an acknowledged write not yet in S3
    scene           \* the scenario of this behaviour

writerVars == <<pc, rng, todo, batch, req>>
ckVars == <<ckPc, ckMode, ckBy, ckSeq, ckStates, ckTodo, ckRot>>
diskVars == <<wal, meta, flushFile>>
history == <<logged, acked>>
vars == <<phase, state, seq, rotation, ff, claimed, flusher, writerVars, ckVars, skips,
          handoff, recount, diskVars, history, scene>>

\* The rare events, and the writers that take no per-block lock (ublk zero
\* copy, trim).
Events == scene.events
Unlocked == scene.unlocked

Absent == [b \in Blocks |-> "NOT_PRESENT"]

IsFirst(b, S) == b \in S /\ \A c \in S : b <= c

-----------------------------------------------------------------------------
Init ==
    /\ phase = "up" /\ state = Absent /\ seq = 0 /\ rotation = 0
    /\ ff = FALSE /\ claimed = {} /\ flusher = "idle"
    /\ pc = [w \in Writers |-> "idle"]
    /\ rng = [w \in Writers |-> {}]
    /\ todo = [w \in Writers |-> {}]
    /\ batch = [w \in Writers |-> {}]
    /\ req = [w \in Writers |-> FALSE]
    /\ ckPc = "idle" /\ ckMode = "plain" /\ ckBy = "timer" /\ ckSeq = 0
    /\ ckStates = Absent /\ ckTodo = {} /\ ckRot = 0
    /\ skips = 0 /\ handoff = FALSE /\ recount = 0
    /\ wal = {} /\ meta = [states |-> Absent, maxSeq |-> 0, rot |-> 0]
    /\ flushFile = FALSE
    /\ logged = {} /\ acked = {}
    /\ scene \in Scenarios

-----------------------------------------------------------------------------
(* Guest writes.  "gate": the handler looked at the block states and waits *)
(* for the data_file read lock; "promote" to "append": it holds that lock, *)
(* taken with the first promotion.                                         *)

InGate(w) == pc[w] \in {"promote", "mark", "seq", "append"}

LockFree(w, R) ==
    w \in Unlocked \/ \A x \in Writers \ Unlocked : x = w \/ rng[x] \cap R = {}

\* Fast path: every block has local data, so the write must find it again
\* under the lock (write_with_eviction_check).
BeginLocal(w) ==
    /\ phase = "up" /\ pc[w] = "idle"
    /\ \E R \in SUBSET Blocks \ {{}} :
          /\ \A b \in R : state[b] \in Unsaved
          /\ LockFree(w, R)
          /\ rng' = [rng EXCEPT ![w] = R]
          /\ todo' = [todo EXCEPT ![w] = R]
    /\ pc' = [pc EXCEPT ![w] = "gate"]
    /\ req' = [req EXCEPT ![w] = TRUE]
    /\ UNCHANGED <<phase, state, seq, rotation, ff, claimed, flusher, batch, ckVars, skips,
                   handoff, recount, diskVars, history, scene>>

\* Slow path, one block at a time: an absent block is claimed (CLEAN) for a
\* full or materialised write, or left absent for a write with nothing in S3.
BeginAbsent(w) ==
    /\ phase = "up" /\ pc[w] = "idle"
    /\ \E b \in Blocks :
          /\ state[b] = "NOT_PRESENT"
          /\ LockFree(w, {b})
          /\ \E s \in {"NOT_PRESENT", "CLEAN"} : state' = [state EXCEPT ![b] = s]
          /\ rng' = [rng EXCEPT ![w] = {b}]
          /\ todo' = [todo EXCEPT ![w] = {b}]
    /\ pc' = [pc EXCEPT ![w] = "gate"]
    /\ req' = [req EXCEPT ![w] = FALSE]
    /\ UNCHANGED <<phase, seq, rotation, ff, claimed, flusher, batch, ckVars, skips,
                   handoff, recount, diskVars, history, scene>>

\* Next block of the loop: after the last one the writer goes on to `next`
\* with its whole range again.
Advance(w, b, from, next) ==
    IF todo[w] = {b}
    THEN /\ todo' = [todo EXCEPT ![w] = rng[w]]
         /\ pc' = [pc EXCEPT ![w] = next]
    ELSE /\ todo' = [todo EXCEPT ![w] = @ \ {b}]
         /\ pc' = [pc EXCEPT ![w] = from]

\* What promote_syncing_blocks and set_present may leave behind for a block.
\* A copy from the flushing file marks the block DIRTY and logs nothing; an
\* absent block is copied only when the flushing file is not all zero there.
PromotedTo(b, required) ==
    LET s == state[b] IN
    CASE s = "SYNCING" /\ ff -> {"DIRTY"}
      [] s = "SYNCING" /\ ~ff -> IF required THEN {} ELSE {"SYNCING"}
      [] s = "NOT_PRESENT" -> (IF b \in claimed THEN {"DIRTY"} ELSE {})
                              \cup (IF required THEN {} ELSE {"CLEAN"})
      [] OTHER -> {s}

Promote(w) ==
    /\ pc[w] \in {"gate", "promote"}
    /\ \E b \in Blocks :
          /\ IsFirst(b, todo[w])
          /\ \E s \in PromotedTo(b, req[w]) : state' = [state EXCEPT ![b] = s]
          /\ Advance(w, b, "promote", "mark")
    /\ UNCHANGED <<phase, seq, rotation, ff, claimed, flusher, rng, batch, req, ckVars, skips,
                   handoff, recount, diskVars, history, scene>>

Finish(w) ==
    /\ pc' = [pc EXCEPT ![w] = "idle"]
    /\ rng' = [rng EXCEPT ![w] = {}]
    /\ todo' = [todo EXCEPT ![w] = {}]
    /\ batch' = [batch EXCEPT ![w] = {}]
    /\ req' = [req EXCEPT ![w] = FALSE]

\* BlockEvicted: a block has no local copy any more; the handler retries.
Evicted(w) ==
    /\ pc[w] \in {"gate", "promote"} /\ req[w]
    /\ \E b \in Blocks :
          /\ IsFirst(b, todo[w])
          /\ state[b] = "NOT_PRESENT" \/ (state[b] = "SYNCING" /\ ~ff)
    /\ Finish(w)
    /\ UNCHANGED <<phase, state, seq, rotation, ff, claimed, flusher, ckVars, skips, handoff,
                   recount, diskVars, history, scene>>

\* wal_append_and_mark_dirty: mark the block first, then take its number.
Mark(w) ==
    /\ pc[w] = "mark"
    /\ \E b \in Blocks :
          /\ IsFirst(b, todo[w])
          /\ IF state[b] = "DIRTY"
             THEN /\ Advance(w, b, "mark", "append")
                  /\ UNCHANGED state
             ELSE /\ state' = [state EXCEPT ![b] = "DIRTY"]
                  /\ pc' = [pc EXCEPT ![w] = "seq"]
                  /\ UNCHANGED todo
    /\ UNCHANGED <<phase, seq, rotation, ff, claimed, flusher, rng, batch, req, ckVars, skips,
                   handoff, recount, diskVars, history, scene>>

TakeSeq(w) ==
    /\ pc[w] = "seq" /\ seq < MaxSeq
    /\ seq' = seq + 1
    /\ \E b \in Blocks :
          /\ IsFirst(b, todo[w])
          /\ batch' = [batch EXCEPT ![w] = @ \cup {<<b, seq + 1>>}]
          /\ Advance(w, b, "mark", "append")
    /\ UNCHANGED <<phase, state, rotation, ff, claimed, flusher, rng, req, ckVars, skips,
                   handoff, recount, diskVars, history, scene>>

GuardHeld == ckMode = "exclusive" /\ ckPc # "idle"     \* the WAL's write guard

\* The batch reaches the log in one append and the write is acknowledged;
\* a write that dirtied nothing appends nothing.
AppendEntry(w) ==
    /\ pc[w] = "append"
    /\ batch[w] # {} => ~GuardHeld
    /\ wal' = wal \cup batch[w]
    /\ logged' = logged \cup {e[1] : e \in batch[w]}
    /\ acked' = acked \cup rng[w]
    /\ Finish(w)
    /\ UNCHANGED <<phase, state, seq, rotation, ff, claimed, flusher, ckVars, skips, handoff,
                   recount, meta, flushFile, scene>>

\* The append fails: the guest sees an error, the blocks stay DIRTY.
AppendError(w) ==
    /\ "wal_error" \in Events /\ pc[w] = "append" /\ batch[w] # {} /\ ~GuardHeld
    /\ Finish(w)
    /\ UNCHANGED <<phase, state, seq, rotation, ff, claimed, flusher, ckVars, skips, handoff,
                   recount, diskVars, history, scene>>

-----------------------------------------------------------------------------
(* WriteCache::checkpoint and save_block_states, under ckpt_lock.          *)

\* save_block_states reads the sequence before the state map.
StartCheckpoint(by, modes) ==
    /\ phase = "up" /\ ckPc = "idle"
    /\ ckMode' \in modes
    /\ ckPc' = IF Blocks = {} THEN "trailer" ELSE "snapshot"
    /\ ckBy' = by
    /\ ckSeq' = seq
    /\ ckTodo' = Blocks
    /\ ckStates' = Absent
    /\ ckRot' = 0

CheckpointMode ==
    IF handoff THEN "save" ELSE IF skips >= MaxSkips THEN "exclusive" ELSE "plain"

\* The scheduler's timer, or save_metadata.
TimerCheckpoint ==
    /\ StartCheckpoint("timer", {CheckpointMode} \cup
                                {m \in {"save"} : "save_metadata" \in Events})
    /\ UNCHANGED <<phase, state, seq, rotation, ff, claimed, flusher, writerVars, skips,
                   handoff, recount, diskVars, history, scene>>

SnapshotBlock ==
    /\ ckPc = "snapshot"
    /\ \E b \in Blocks :
          /\ IsFirst(b, ckTodo)
          /\ ckStates' = [ckStates EXCEPT ![b] = state[b]]
          /\ ckTodo' = ckTodo \ {b}
          /\ ckPc' = IF ckTodo = {b} THEN "trailer" ELSE "snapshot"
    /\ UNCHANGED <<phase, state, seq, rotation, ff, claimed, flusher, writerVars, ckMode, ckBy,
                   ckSeq, ckRot, skips, handoff, recount, diskVars, history, scene>>

\* rotation_seq is read after the entries.
SnapshotTrailer ==
    /\ ckPc = "trailer"
    /\ ckRot' = rotation
    /\ ckPc' = "rename"
    /\ UNCHANGED <<phase, state, seq, rotation, ff, claimed, flusher, writerVars, ckMode, ckBy,
                   ckSeq, ckStates, ckTodo, skips, handoff, recount, diskVars, history, scene>>

CheckpointIdle ==
    /\ ckPc' = "idle" /\ ckMode' = "plain" /\ ckBy' = "timer" /\ ckSeq' = 0
    /\ ckStates' = Absent /\ ckTodo' = {} /\ ckRot' = 0

\* The flusher waits for its own checkpoint and then cleans up.
CheckpointDone(ok) ==
    /\ CheckpointIdle
    /\ flusher' = IF ckBy # "flush" THEN flusher ELSE IF ok THEN "cleanup" ELSE "keep"

RenameMeta ==
    /\ ckPc = "rename"
    /\ meta' = [states |-> ckStates, maxSeq |-> ckSeq, rot |-> ckRot]
    /\ IF ckMode = "save"
       THEN CheckpointDone(TRUE)
       ELSE ckPc' = "truncate" /\ UNCHANGED <<flusher, ckMode, ckBy, ckSeq, ckStates, ckTodo, ckRot>>
    /\ UNCHANGED <<phase, state, seq, rotation, ff, claimed, writerVars, skips, handoff, recount,
                   wal, flushFile, history, scene>>

SaveError ==
    /\ "save_error" \in Events /\ ckPc = "rename"
    /\ CheckpointDone(FALSE)
    /\ UNCHANGED <<phase, state, seq, rotation, ff, claimed, writerVars, skips, handoff, recount,
                   diskVars, history, scene>>

\* Mutant: truncates without looking at the sequence again.
MayTruncateAlways == TRUE

\* Wal::truncate_if, or the end of exclusive_then_truncate.
MayTruncate == ckMode = "exclusive" \/ seq = ckSeq

Truncate ==
    /\ ckPc = "truncate"
    /\ wal' = IF MayTruncate /\ ~handoff THEN {} ELSE wal
    /\ skips' = IF ckMode = "exclusive" \/ (MayTruncate /\ ~handoff) THEN 0 ELSE skips + 1
    /\ CheckpointDone(TRUE)
    /\ UNCHANGED <<phase, state, seq, rotation, ff, claimed, writerVars, handoff, recount, meta,
                   flushFile, history, scene>>

\* set_handoff_phase waits for ckpt_lock.
SetHandoffPhase ==
    /\ "handoff" \in Events /\ phase = "up" /\ ckPc = "idle"
    /\ handoff' = ~handoff
    /\ UNCHANGED <<phase, state, seq, rotation, ff, claimed, flusher, writerVars, ckVars, skips,
                   recount, diskVars, history, scene>>

-----------------------------------------------------------------------------
(* The flush cycle, under flush_lock: what it does to states and files.    *)

Drained == \A w \in Writers : ~InGate(w)    \* the data_file write lock

\* A flushing file left by an earlier cycle, none in progress: deleted.
RemoveOrphan ==
    /\ phase = "up" /\ flusher = "idle" /\ flushFile
    /\ flushFile' = FALSE
    /\ UNCHANGED <<phase, state, seq, rotation, ff, claimed, flusher, writerVars, ckVars, skips,
                   handoff, recount, wal, meta, history, scene>>

Rotate ==
    /\ phase = "up" /\ flusher = "idle" /\ ~flushFile /\ Drained
    /\ rotation' = seq
    /\ ff' = TRUE
    /\ claimed' = {b \in Blocks : state[b] = "DIRTY"}
    /\ flushFile' = TRUE
    /\ state' = [b \in Blocks |-> IF state[b] = "DIRTY" THEN "SYNCING" ELSE state[b]]
    /\ flusher' = IF claimed' = {} THEN "cleanup" ELSE "upload"
    /\ UNCHANGED <<phase, seq, writerVars, ckVars, skips, handoff, recount, wal, meta,
                   history, scene>>

\* An upload or the manifest PUT failed: the data is copied back under the
\* write lock, the flushing file goes, and the blocks become DIRTY again.
FlushFailed ==
    /\ flusher = "upload" /\ Drained
    /\ rotation' = 0 /\ ff' = FALSE /\ claimed' = {} /\ flushFile' = FALSE
    /\ flusher' = "redirty"
    /\ UNCHANGED <<phase, state, seq, writerVars, ckVars, skips, handoff, recount, wal,
                   meta, history, scene>>

Redirty ==
    /\ flusher = "redirty"
    /\ state' = [b \in Blocks |-> IF state[b] = "SYNCING" THEN "DIRTY" ELSE state[b]]
    /\ flusher' = "idle"
    /\ UNCHANGED <<phase, seq, rotation, ff, claimed, writerVars, ckVars, skips, handoff, recount,
                   diskVars, history, scene>>

\* Mutant: cleans up without the checkpoint in between.
EvictNoCheckpoint ==
    /\ flusher = "upload" /\ Drained
    /\ LET gone == {b \in Blocks : state[b] = "SYNCING"} IN
          /\ state' = [b \in Blocks |-> IF b \in gone THEN "NOT_PRESENT" ELSE state[b]]
          /\ logged' = logged \ gone
          /\ acked' = acked \ gone
    /\ flusher' = "cleanup"
    /\ UNCHANGED <<phase, seq, rotation, ff, claimed, writerVars, ckVars, skips, handoff, recount,
                   diskVars, scene>>

\* Packs and manifest are in S3: the local copies go.
Evict ==
    /\ flusher = "upload" /\ Drained
    /\ LET gone == {b \in Blocks : state[b] = "SYNCING"} IN
          /\ state' = [b \in Blocks |-> IF b \in gone THEN "NOT_PRESENT" ELSE state[b]]
          /\ logged' = logged \ gone
          /\ acked' = acked \ gone
    /\ flusher' = "evicted"
    /\ UNCHANGED <<phase, seq, rotation, ff, claimed, writerVars, ckVars, skips, handoff, recount,
                   diskVars, scene>>

\* The cycle's own checkpoint; from "idle" it is sync_manifest's.
FlushCheckpoint ==
    /\ flusher \in {"evicted", "idle"}
    /\ StartCheckpoint("flush", {CheckpointMode})
    /\ flusher' = "checkpoint"
    /\ UNCHANGED <<phase, state, seq, rotation, ff, claimed, writerVars, skips, handoff, recount,
                   diskVars, history, scene>>

Cleanup ==
    /\ flusher \in {"cleanup", "keep"}
    /\ rotation' = 0 /\ ff' = FALSE /\ claimed' = {}
    /\ flusher' = IF flusher = "cleanup" THEN "unlink" ELSE "idle"
    /\ UNCHANGED <<phase, state, seq, writerVars, ckVars, skips, handoff, recount,
                   diskVars, history, scene>>

Unlink ==
    /\ flusher = "unlink"
    /\ flushFile' = FALSE
    /\ flusher' = "idle"
    /\ UNCHANGED <<phase, state, seq, rotation, ff, claimed, writerVars, ckVars, skips, handoff,
                   recount, wal, meta, history, scene>>

-----------------------------------------------------------------------------
(* Crash and recovery.                                                     *)

\* The record a writer is appending may be on disk up to a torn tail.
Crash ==
    /\ phase # "down"
    /\ \E k \in 0 .. seq :
          wal' = wal \cup {e \in UNION {batch[w] : w \in {x \in Writers : pc[x] = "append"}} :
                             ~GuardHeld /\ e[2] <= k}
    /\ phase' = "down"
    /\ state' = Absent /\ seq' = 0 /\ rotation' = 0 /\ ff' = FALSE /\ claimed' = {}
    /\ flusher' = "idle"
    /\ pc' = [w \in Writers |-> "idle"]
    /\ rng' = [w \in Writers |-> {}]
    /\ todo' = [w \in Writers |-> {}]
    /\ batch' = [w \in Writers |-> {}]
    /\ req' = [w \in Writers |-> FALSE]
    /\ CheckpointIdle
    /\ skips' = 0 /\ handoff' = FALSE /\ recount' = 0
    /\ UNCHANGED <<meta, flushFile, history, scene>>

\* WriteCache::open: replay, rewrite the log with what was replayed, recover
\* from the flushing file and delete it.
Open ==
    /\ phase = "down"
    /\ phase' = "recovering"
    /\ state' = [b \in Blocks |-> RecoveredState(meta, wal, b)]
    /\ \E n \in 0 .. MaxSeq : IsResumePoint(meta, wal, n) /\ seq' = n
    /\ recount' = RecoveredCount(meta, wal)
    /\ wal' = Replayed(meta, wal)
    /\ flushFile' = FALSE
    /\ UNCHANGED <<rotation, ff, claimed, flusher, writerVars, ckVars, skips, handoff, meta,
                   history, scene>>

FinishRecovery ==
    /\ phase = "recovering"
    /\ phase' = "up"
    /\ meta' = IF recount > 0 THEN [states |-> state, maxSeq |-> seq, rot |-> 0] ELSE meta
    /\ recount' = 0
    /\ UNCHANGED <<state, seq, rotation, ff, claimed, flusher, writerVars, ckVars, skips, handoff,
                   wal, flushFile, history, scene>>

-----------------------------------------------------------------------------
WriterNext(w) ==
    \/ BeginLocal(w) \/ BeginAbsent(w) \/ Promote(w) \/ Evicted(w)
    \/ Mark(w) \/ TakeSeq(w) \/ AppendEntry(w) \/ AppendError(w)

CheckpointNext ==
    \/ TimerCheckpoint \/ SnapshotBlock \/ SnapshotTrailer \/ RenameMeta \/ SaveError
    \/ Truncate \/ SetHandoffPhase

FlusherNext ==
    \/ RemoveOrphan \/ Rotate \/ FlushFailed \/ Redirty \/ Evict \/ FlushCheckpoint
    \/ Cleanup \/ Unlink

Next ==
    \/ \E w \in Writers : WriterNext(w)
    \/ CheckpointNext
    \/ FlusherNext
    \/ Crash \/ Open \/ FinishRecovery

Spec == Init /\ [][Next]_vars

-----------------------------------------------------------------------------
Entries == Blocks \X (0 .. MaxSeq)

FlagTypeOK ==
    /\ ff \in BOOLEAN /\ flushFile \in BOOLEAN /\ handoff \in BOOLEAN
    /\ req \in [Writers -> BOOLEAN]

CacheTypeOK ==
    /\ phase \in {"down", "recovering", "up"}
    /\ state \in [Blocks -> States]
    /\ seq \in 0 .. MaxSeq /\ rotation \in 0 .. MaxSeq
    /\ claimed \subseteq Blocks
    /\ flusher \in {"idle", "upload", "redirty", "evicted", "checkpoint", "cleanup",
                    "keep", "unlink"}
    /\ recount \in Nat
    /\ wal \subseteq Entries
    /\ meta \in [states : [Blocks -> States], maxSeq : 0 .. MaxSeq, rot : 0 .. MaxSeq]
    /\ logged \subseteq Blocks /\ acked \subseteq Blocks

WriterTypeOK ==
    /\ pc \in [Writers -> {"idle", "gate", "promote", "mark", "seq", "append"}]
    /\ rng \in [Writers -> SUBSET Blocks] /\ todo \in [Writers -> SUBSET Blocks]
    /\ batch \in [Writers -> SUBSET Entries]

CheckpointTypeOK ==
    /\ ckPc \in {"idle", "snapshot", "trailer", "rename", "truncate"}
    /\ ckMode \in {"save", "plain", "exclusive"} /\ ckBy \in {"timer", "flush"}
    /\ ckSeq \in 0 .. MaxSeq /\ ckRot \in 0 .. MaxSeq
    /\ ckStates \in [Blocks -> States] /\ ckTodo \subseteq Blocks
    /\ skips \in 0 .. MaxSkips

\* Every variable keeps the shape of the field it models; ckpt_skips stays
\* within CKPT_MAX_SKIPS, so the log is kept for a bounded number of checkpoints.
TypeOK == FlagTypeOK /\ CacheTypeOK /\ WriterTypeOK /\ CheckpointTypeOK

\* A block that a crash at this moment would bring back DIRTY.
Durable(b) ==
    \/ meta.states[b] \in Unsaved
    \/ \E e \in wal : e[1] = b /\ e[2] > meta.maxSeq

\* wal_append_and_mark_dirty and checkpoint(): from the moment the log entry
\* of a write is appended until the block is evicted to S3, a crash at any
\* point recovers the block as DIRTY.
LoggedMarkSurvives == \A b \in logged : Durable(b)

\* README.md: "Writes are durable on local SSD immediately": an acknowledged
\* write that is not in S3 yet is recovered as DIRTY after a crash.
AckedMarkSurvives == \A b \in acked : Durable(b)

\* flush.rs evicts, checkpoints, then deletes the flushing file: once no
\* flushing file is left, a crash never brings an evicted block back as DIRTY
\* (its cache file holds zeros, which the next flush would upload).  It needs
\* checkpoints that can be saved; a writer without its block's lock does no harm.
NoResurrection ==
    "save_error" \notin Events /\ phase = "up" /\ ~flushFile =>
        \A b \in Blocks : state[b] = "NOT_PRESENT" => RecoveredState(meta, wal, b) # "DIRTY"
=============================================================================
