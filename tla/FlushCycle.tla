----------------------------- MODULE FlushCycle -----------------------------
(***************************************************************************)
(* The flush cycle and crash recovery with the contents of the blocks:     *)
(* where the bytes of the last write of a block are, in the active file,   *)
(* in the flushing file or in a pack the manifest names, and which of them *)
(* a read, a restart and a cold reader of the bucket take.                 *)
(*                                                                         *)
(* Checkpoint models how writers, checkpoints and the log interleave; here *)
(* a checkpoint is one step, a write is two (its pwrite, then its commit), *)
(* every write covers its block, and the device is one chunk of the        *)
(* manifest.  A pack is content-addressed, so a pack is its content: a     *)
(* function from the blocks it holds to their contents.                    *)
(***************************************************************************)
EXTENDS Metadata, Sequences

CONSTANTS
    Blocks,
    Zero,       \* the content of a block never written, or trimmed
    Contents,   \* the contents guests write
    MaxWrites,  \* bound: writes
    MaxSeq,     \* bound: sequence numbers handed out
    MaxCycles,  \* bound: flush passes that rotate
    MaxPasses,  \* PUBLISH_FLUSH_PASSES
    Scenarios   \* what may happen in one behaviour: a set of sets of RareEvents

\* The new cache file cannot be created; reading, compressing or uploading a
\* pack fails; every attempt at the manifest fails; the metadata file cannot be
\* saved; the process dies at a moment when no flush is under way and every
\* dirty mark is on disk; the scheduler's timer checkpoints; a write comes through
\* the ublk zero-copy path.
RareEvents ==
    {"rotate_error", "flush_error", "manifest_error", "save_error", "crash_marked", "timer", "zc"}

ASSUME BlocksAssumption == IsFiniteSet(Blocks)
ASSUME ContentsAssumption == Zero \notin Contents
ASSUME MarksAssumption == {"none", "no_baseline"} \cap (Contents \cup {Zero}) = {}
ASSUME BoundsAssumption == MaxWrites \in Nat /\ MaxSeq \in Nat /\ MaxCycles \in Nat /\ MaxPasses \in Nat \ {0}
ASSUME ScenariosAssumption == Scenarios \subseteq SUBSET RareEvents

VARIABLES
    up,
    state, seq, rotation,
    active, flushing,       \* the two cache files
    ff, flushFile,          \* flushing_file is Some; the file is on disk
    writing, writes,        \* contents pwritten and not committed; how many were
    crc, drained,           \* page_crcs; the baselines taken by this pass
    cycle, passes, kind,    \* where the flusher is; passes of this flush; who flushes
    pack, flushed, skips,   \* staged_appends; flushed_blocks; what the pass skipped
    mem, s3, snap,          \* the manifest in memory, in S3, and as a drain or snapshot published it
    seqCut, kept,           \* a snapshot's seq_cutpoint; the versioned snapshot last put in S3, with its key
    wal, meta,
    last, cut,              \* history: what a read of each block may return, now and at this pass's rotation
    missed,                 \* history: blocks the manifest does not give as they were at the cut
    lost,                   \* history: blocks whose last content is gone
    unput, unsynced,        \* history: blocks evicted while a failed PUT was not made good; it is not
    saveFailed,             \* history: a pass could not save the metadata, and none has since
    cycles,
    events                  \* the rare events of this behaviour

fileVars == <<active, flushing, ff, flushFile>>
writeVars == <<writing, writes>>
crcVars == <<crc, drained>>
passVars == <<passes, kind, pack, flushed, skips>>
keyVars == <<seqCut, kept>>
manifestVars == <<mem, s3, snap, keyVars>>
logVars == <<wal, meta>>
lossVars == <<lost, unput, unsynced, saveFailed>>
cutVars == <<cut, missed>>
vars == <<up, state, seq, rotation, fileVars, writeVars, crcVars, cycle, passVars,
          manifestVars, logVars, last, cutVars, lossVars, cycles, events>>

Content == Contents \cup {Zero}
None == "none"              \* nothing being written; no entry in page_crcs
NoBaseline == "no_baseline" \* an entry without a checksum

NoKey == MaxSeq + 1
NoSnapshot == [manifest |-> << >>, cut |-> [b \in Blocks |-> {Zero}]]

Each(v) == [b \in Blocks |-> v]

Holds(m, b) == \E i \in DOMAIN m : b \in DOMAIN m[i]

Newest(m, b) ==
    CHOOSE i \in DOMAIN m : b \in DOMAIN m[i] /\ \A j \in DOMAIN m : b \in DOMAIN m[j] => j <= i

\* The content the manifest m gives block b: the newest pack that holds it.
Merged(m, b) ==
    IF Holds(m, b) THEN m[Newest(m, b)][b] ELSE Zero

\* WriteCache::read of a block nobody is writing.
ReadBack(b) ==
    IF state[b] = "SYNCING" /\ ff THEN flushing[b]
    ELSE IF state[b] \in Unsaved THEN active[b]
    ELSE Merged(mem, b)

Init ==
    /\ up = TRUE
    /\ state = Each("NOT_PRESENT") /\ seq = 0 /\ rotation = 0
    /\ active = Each(Zero) /\ flushing = Each(Zero) /\ ff = FALSE /\ flushFile = FALSE
    /\ writing = Each(None) /\ writes = 0
    /\ crc = Each(None) /\ drained = Each(None)
    /\ cycle = "idle" /\ passes = 0 /\ kind = "sched"
    /\ pack = << >> /\ flushed = {} /\ skips = {}
    /\ mem = << >> /\ s3 = << >> /\ snap = NoSnapshot
    /\ seqCut = 0 /\ kept = [key |-> NoKey, manifest |-> << >>]
    /\ wal = {} /\ meta = [states |-> Each("NOT_PRESENT"), maxSeq |-> 0, rot |-> 0]
    /\ last = Each({Zero}) /\ cut = Each({Zero})
    /\ missed = {} /\ lost = {} /\ unput = {} /\ unsynced = FALSE /\ saveFailed = FALSE
    /\ cycles = 0
    /\ events \in Scenarios

-----------------------------------------------------------------------------
(* Guest writes.  The writer holds the data_file read lock from Pwrite to  *)
(* Commit.                                                                 *)

Gate == \E b \in Blocks : writing[b] # None

\* promote_syncing_blocks marks a block DIRTY when the flushing file holds it
\* (an absent block only if it is not zero there); set_present, or the claim
\* of a full-block write, turns an absent one CLEAN.
Promoted(b) ==
    IF ff /\ (state[b] = "SYNCING" \/ (state[b] = "NOT_PRESENT" /\ flushing[b] # Zero)) THEN "DIRTY"
    ELSE IF state[b] = "NOT_PRESENT" THEN "CLEAN"
    ELSE state[b]

Pwrite(b, v) ==
    /\ up /\ writing[b] = None
    /\ writes < MaxWrites
    /\ state' = [state EXCEPT ![b] = Promoted(b)]
    /\ active' = [active EXCEPT ![b] = v]
    /\ writing' = [writing EXCEPT ![b] = v]
    /\ writes' = writes + 1
    /\ last' = [last EXCEPT ![b] = @ \cup {v}]
    /\ UNCHANGED <<up, seq, rotation, flushing, ff, flushFile, crcVars, cycle, passVars,
                   manifestVars, logVars, cutVars, lossVars, cycles, events>>

\* capture_page_crcs records a baseline; the zero-copy path only invalidates
\* one that is there.
Baseline(b, zc) ==
    IF ~zc THEN writing[b] ELSE IF crc[b] = None THEN None ELSE NoBaseline

\* wal_append_and_mark_dirty logs the block only if it was not DIRTY before.
Commit(b, zc) ==
    /\ up /\ writing[b] # None
    /\ zc => "zc" \in events
    /\ crc' = [crc EXCEPT ![b] = Baseline(b, zc)]
    /\ IF state[b] = "DIRTY"
       THEN UNCHANGED <<state, seq, wal>>
       ELSE /\ seq < MaxSeq
            /\ seq' = seq + 1
            /\ state' = [state EXCEPT ![b] = "DIRTY"]
            /\ wal' = wal \cup {<<b, seq + 1>>}
    /\ writing' = [writing EXCEPT ![b] = None]
    /\ last' = [last EXCEPT ![b] = {writing[b]}]
    /\ lost' = lost \ {b} /\ unput' = unput \ {b}
    /\ UNCHANGED <<up, rotation, fileVars, writes, drained, cycle, passVars, manifestVars, meta,
                   cutVars, unsynced, saveFailed, cycles, events>>

-----------------------------------------------------------------------------
(* One pass: flush_dirty_inner and flush_dirty_body, under flush_lock.     *)

\* The scheduler, a drain (flush_to_s3) or snapshot() starts flushing.  A file
\* an earlier pass left behind is removed, and the checksums are taken.
BeginPass(k, n) ==
    /\ up /\ cycles < MaxCycles
    /\ kind' = k /\ passes' = n /\ cycle' = "drained"
    /\ seqCut' = IF k = "snapshot" THEN seq ELSE 0
    /\ flushFile' = FALSE
    /\ drained' = crc
    /\ crc' = Each(None)
    /\ pack' = << >> /\ flushed' = {} /\ skips' = {}
    /\ snap' = NoSnapshot
    /\ cut' = Each({Zero}) /\ missed' = {}
    /\ UNCHANGED <<up, state, seq, rotation, active, flushing, ff, writeVars, mem, s3, kept,
                   logVars, last, lossVars, cycles, events>>

\* A flush ends: what it kept in local variables is gone.
EndsFlush ==
    /\ cycle' = "idle"
    /\ passes' = 0 /\ kind' = "sched" /\ seqCut' = 0
    /\ pack' = << >> /\ flushed' = {} /\ skips' = {}
    /\ drained' = Each(None) /\ cut' = Each({Zero}) /\ missed' = {}

BeginFlush ==
    /\ cycle = "idle"
    /\ \E k \in {"sched", "drain", "snapshot"} : BeginPass(k, 1)

\* Under the write lock: the DIRTY blocks become the claim of this pass, and
\* rotation_seq tells the writes before it from those after.
Rotate ==
    /\ cycle = "drained" /\ ~Gate
    /\ rotation' = seq
    /\ flushing' = active /\ active' = Each(Zero)
    /\ ff' = TRUE /\ flushFile' = TRUE
    /\ flushed' = {b \in Blocks : state[b] = "DIRTY"}
    /\ state' = [b \in Blocks |-> IF state[b] = "DIRTY" THEN "SYNCING" ELSE state[b]]
    /\ cycle' = IF flushed' = {} THEN "cleanup" ELSE "claimed"
    /\ cut' = last /\ missed' = lost
    /\ cycles' = cycles + 1
    /\ UNCHANGED <<up, seq, writeVars, crcVars, passes, kind, pack, skips, manifestVars, logVars,
                   last, lossVars, events>>

\* The rename is undone; the checksums taken are lost.
RotateError ==
    /\ "rotate_error" \in events
    /\ cycle = "drained" /\ ~Gate
    /\ EndsFlush
    /\ UNCHANGED <<up, state, seq, rotation, fileVars, writeVars, crc, mem, s3, snap, kept,
                   logVars, last, lossVars, cycles, events>>

Mismatched(b) == drained[b] \in Content /\ drained[b] # flushing[b]

\* Cross-flush dedup: S3 already gives this content for the block.
Dominated(b) == IF Holds(mem, b) THEN Merged(mem, b) = flushing[b] ELSE flushing[b] = Zero

\* A write changed the state of the block, or left a checksum for it.
Explained(b) == state[b] # "SYNCING" \/ crc[b] # None

\* compute_flush_batch: blocks whose checksum does not match are skipped.
Compute ==
    /\ cycle = "claimed"
    /\ skips' = {<<b, Explained(b)>> : b \in {c \in flushed : Mismatched(c)}}
    /\ flushed' = {b \in flushed : ~Mismatched(b)}
    /\ cycle' = "computed"
    /\ UNCHANGED <<up, state, seq, rotation, fileVars, writeVars, crcVars, passes, kind, pack,
                   manifestVars, logVars, last, cutVars, lossVars, cycles, events>>

\* Under the write lock, a skipped block still SYNCING is copied to the active
\* file and every skipped block goes back to DIRTY.  What is left becomes the
\* pack, unless the manifest already names that pack: it is then not uploaded
\* again, although a newer pack may give its blocks other contents.
Stage ==
    /\ cycle = "computed" /\ ~Gate
    /\ LET skipped == {s[1] : s \in skips}
           fresh == {b \in flushed : ~Dominated(b)}
           new == [b \in fresh |-> flushing[b]]
       IN /\ active' = [b \in Blocks |-> IF b \in skipped /\ state[b] = "SYNCING"
                                         THEN flushing[b] ELSE active[b]]
          /\ state' = [b \in Blocks |-> IF b \in skipped THEN "DIRTY" ELSE state[b]]
          /\ IF \E i \in DOMAIN mem : mem[i] = new
             THEN pack' = << >> /\ missed' = missed \cup fresh
             ELSE pack' = (IF fresh = {} THEN << >> ELSE <<new>>) /\ UNCHANGED missed
    /\ cycle' = "upload"
    /\ UNCHANGED <<up, seq, rotation, flushing, ff, flushFile, writeVars, crcVars, passes, kind,
                   flushed, skips, manifestVars, logVars, last, cut, lossVars, cycles, events>>

\* MUTANT of Upload: the blocks are evicted before the manifest is in S3.
UploadThenEvict ==
    /\ cycle = "upload"
    /\ mem' = mem \o pack
    /\ cycle' = "evict"
    /\ UNCHANGED <<up, state, seq, rotation, fileVars, writeVars, crcVars, passVars, s3, snap,
                   keyVars, logVars, last, cutVars, lossVars, cycles, events>>

\* Every pack is uploaded: the manifest in memory gets them, and only then
\* is there something to PUT.
Upload ==
    /\ cycle = "upload"
    /\ mem' = mem \o pack
    /\ cycle' = IF pack = << >> THEN "evict" ELSE "put"
    /\ UNCHANGED <<up, state, seq, rotation, fileVars, writeVars, crcVars, passVars, s3, snap,
                   keyVars, logVars, last, cutVars, lossVars, cycles, events>>

PutManifest ==
    /\ cycle = "put"
    /\ s3' = mem /\ unsynced' = FALSE /\ unput' = {}
    /\ cycle' = "evict"
    /\ UNCHANGED <<up, state, seq, rotation, fileVars, writeVars, crcVars, passVars, mem, snap,
                   keyVars, logVars, last, cutVars, lost, saveFailed, cycles, events>>

\* The batch, an upload or every attempt at the manifest failed: what is still SYNCING is
\* copied back under the write lock and the flushing file is dropped.
FlushFailed ==
    /\ \/ cycle \in {"claimed", "upload"} /\ "flush_error" \in events
       \/ cycle = "put" /\ "manifest_error" \in events
    /\ ~Gate
    /\ active' = [b \in Blocks |-> IF state[b] = "SYNCING" THEN flushing[b] ELSE active[b]]
    /\ rotation' = 0 /\ ff' = FALSE /\ flushFile' = FALSE
    /\ cycle' = "redirty"
    /\ unsynced' = (unsynced \/ cycle = "put")
    /\ UNCHANGED <<up, state, seq, flushing, writeVars, crcVars, passVars, manifestVars, logVars,
                   last, cutVars, lost, unput, saveFailed, cycles, events>>

Redirty ==
    /\ cycle = "redirty"
    /\ state' = [b \in Blocks |-> IF state[b] = "SYNCING" THEN "DIRTY" ELSE state[b]]
    /\ EndsFlush
    /\ UNCHANGED <<up, seq, rotation, fileVars, writeVars, crc, mem, s3, snap, kept, logVars,
                   last, lossVars, cycles, events>>

\* What is evicted without being in the manifest, or before the manifest that names it is in S3.
EvictedIs(gone) ==
    /\ lost' = lost \cup (gone \cap missed)
    /\ unput' = IF unsynced THEN unput \cup gone ELSE unput
    /\ UNCHANGED <<unsynced, saveFailed>>

\* MUTANT of Evict: a block written since the rotation is dropped too.
EvictAnyState ==
    /\ cycle = "evict" /\ ~Gate
    /\ state' = [b \in Blocks |-> IF b \in flushed THEN "NOT_PRESENT" ELSE state[b]]
    /\ EvictedIs({b \in flushed : state[b] = "SYNCING"})
    /\ cycle' = "evicted"
    /\ UNCHANGED <<up, seq, rotation, fileVars, writeVars, crcVars, passVars, manifestVars,
                   logVars, last, cutVars, cycles, events>>

Evict ==
    /\ cycle = "evict" /\ ~Gate
    /\ state' = [b \in Blocks |-> IF b \in flushed /\ state[b] = "SYNCING"
                                  THEN "NOT_PRESENT" ELSE state[b]]
    /\ EvictedIs({b \in flushed : state[b] = "SYNCING"})
    /\ cycle' = "evicted"
    /\ UNCHANGED <<up, seq, rotation, fileVars, writeVars, crcVars, passVars, manifestVars,
                   logVars, last, cutVars, cycles, events>>

Saved == [states |-> state, maxSeq |-> seq, rot |-> rotation]

\* MUTANT of CycleCheckpoint: the flushing file goes without a checkpoint.
CycleCheckpointForgotten ==
    /\ cycle = "evicted"
    /\ cycle' = "cleanup"
    /\ UNCHANGED <<up, state, seq, rotation, fileVars, writeVars, crcVars, passVars,
                   manifestVars, logVars, last, cutVars, lossVars, cycles, events>>

\* The pass's own checkpoint; rotation_seq is still set.
CycleCheckpoint ==
    /\ cycle = "evicted"
    /\ \/ meta' = Saved /\ wal' = {} /\ cycle' = "cleanup" /\ saveFailed' = FALSE
       \/ "save_error" \in events /\ cycle' = "keep" /\ saveFailed' = TRUE /\ UNCHANGED logVars
    /\ UNCHANGED <<up, state, seq, rotation, fileVars, writeVars, crcVars, passVars,
                   manifestVars, last, cutVars, lost, unput, unsynced, cycles, events>>

Cleanup ==
    /\ cycle \in {"cleanup", "keep"}
    /\ rotation' = 0 /\ ff' = FALSE
    /\ cycle' = IF cycle = "cleanup" THEN "unlink" ELSE "passed"
    /\ UNCHANGED <<up, state, seq, active, flushing, flushFile, writeVars, crcVars, passVars,
                   manifestVars, logVars, last, cutVars, lossVars, cycles, events>>

Unlink ==
    /\ cycle = "unlink"
    /\ flushFile' = FALSE
    /\ cycle' = "passed"
    /\ UNCHANGED <<up, state, seq, rotation, active, flushing, ff, writeVars, crcVars, passVars,
                   manifestVars, logVars, last, cutVars, lossVars, cycles, events>>

-----------------------------------------------------------------------------
(* What follows a pass: flush_packs, flush_until_no_skips, flush_to_s3 and *)
(* snapshot.                                                               *)

\* Only skips that a write race explains are retried, and not for ever.
RetryPass ==
    /\ cycle = "passed" /\ kind # "sched"
    /\ skips # {} /\ (\A s \in skips : s[2]) /\ passes < MaxPasses
    /\ BeginPass(kind, passes + 1)

EndFlush ==
    /\ cycle = "passed"
    /\ kind = "sched" \/ (skips # {} /\ (passes >= MaxPasses \/ \E s \in skips : ~s[2]))
    /\ EndsFlush
    /\ UNCHANGED <<up, state, seq, rotation, fileVars, writeVars, crc, mem, s3, snap, kept,
                   logVars, last, lossVars, cycles, events>>

\* MUTANT of Publish: skipped blocks do not stop it.
PublishDespiteSkips ==
    /\ cycle = "passed" /\ kind # "sched"
    /\ IF kind = "drain" /\ pack = << >>
       THEN s3' = mem /\ unsynced' = FALSE /\ unput' = {}
       ELSE UNCHANGED <<s3, unsynced, unput>>
    /\ snap' = [manifest |-> IF kind = "drain" THEN s3' ELSE mem,
                cut |-> [b \in Blocks \ missed |-> cut[b]]]
    /\ kept' = IF kind = "snapshot" THEN [key |-> seqCut, manifest |-> mem] ELSE kept
    /\ EndsFlush
    /\ UNCHANGED <<up, state, seq, rotation, fileVars, writeVars, crc, mem, logVars, last,
                   lost, saveFailed, cycles, events>>

\* A drain that uploaded no pack still puts the manifest; a snapshot publishes
\* the manifest in memory under its own key, which put_snapshot overwrites.
Publish ==
    /\ cycle = "passed" /\ kind # "sched" /\ skips = {}
    /\ IF kind = "drain" /\ pack = << >>
       THEN s3' = mem /\ unsynced' = FALSE /\ unput' = {}
       ELSE UNCHANGED <<s3, unsynced, unput>>
    /\ snap' = [manifest |-> IF kind = "drain" THEN s3' ELSE mem,
                cut |-> [b \in Blocks \ missed |-> cut[b]]]
    /\ kept' = IF kind = "snapshot" THEN [key |-> seqCut, manifest |-> mem] ELSE kept
    /\ EndsFlush
    /\ UNCHANGED <<up, state, seq, rotation, fileVars, writeVars, crc, mem, logVars, last,
                   lost, saveFailed, cycles, events>>

PublishError ==
    /\ "manifest_error" \in events
    /\ cycle = "passed" /\ skips = {}
    /\ kind = "snapshot" \/ (kind = "drain" /\ pack = << >>)
    /\ EndsFlush
    /\ UNCHANGED <<up, state, seq, rotation, fileVars, writeVars, crc, mem, s3, snap, kept,
                   logVars, last, lossVars, cycles, events>>

\* The checkpoint of the scheduler's timer.
TimerCheckpoint ==
    /\ "timer" \in events
    /\ up
    /\ meta' = Saved /\ wal' = {}
    /\ UNCHANGED <<up, state, seq, rotation, fileVars, writeVars, crcVars, cycle, passVars,
                   manifestVars, last, cutVars, lossVars, cycles, events>>

-----------------------------------------------------------------------------
(* Crash and restart.                                                      *)

\* The content open() leaves in the active file.
Recovered(b) ==
    IF flushFile /\ RecoveredState(meta, wal, b) = "DIRTY" /\ b \notin PostRotation(meta, wal)
    THEN flushing[b] ELSE active[b]

\* What a read returns after a crash at this moment and a restart.
AfterCrash(b) ==
    IF RecoveredState(meta, wal, b) = "DIRTY" THEN Recovered(b) ELSE Merged(s3, b)

Marked(b) == RecoveredState(meta, wal, b) = "DIRTY"

Crash ==
    /\ "crash_marked" \in events
    /\ up /\ cycle = "idle" /\ \A b \in Blocks : state[b] = "DIRTY" => Marked(b)
    /\ up' = FALSE
    /\ state' = Each("NOT_PRESENT") /\ seq' = 0 /\ rotation' = 0 /\ ff' = FALSE
    /\ writing' = Each(None)
    /\ crc' = Each(None) /\ drained' = Each(None)
    /\ cycle' = "idle" /\ passes' = 0 /\ kind' = "sched"
    /\ pack' = << >> /\ flushed' = {} /\ skips' = {}
    /\ mem' = << >> /\ snap' = NoSnapshot /\ seqCut' = 0
    /\ lost' = lost \cup unput \cup {b \in Blocks : saveFailed /\ Marked(b)}
    /\ unput' = {} /\ unsynced' = FALSE
    /\ UNCHANGED <<active, flushing, flushFile, writes, s3, kept, logVars, last, cutVars, saveFailed,
                   cycles, events>>

\* WriteCache::open, finish_recovery, and the manifest loaded from S3.  A
\* write that was not acknowledged may be there or not, but not both.
Open ==
    /\ ~up
    /\ up' = TRUE
    /\ state' = [b \in Blocks |-> RecoveredState(meta, wal, b)]
    /\ \E n \in 0 .. MaxSeq : IsResumePoint(meta, wal, n) /\ seq' = n
    /\ active' = [b \in Blocks |-> Recovered(b)]
    /\ flushFile' = FALSE
    /\ wal' = Replayed(meta, wal)
    /\ meta' = IF RecoveredCount(meta, wal) > 0
               THEN [states |-> state', maxSeq |-> seq', rot |-> 0] ELSE meta
    /\ mem' = s3
    /\ saveFailed' = FALSE
    /\ last' = [b \in Blocks |-> IF AfterCrash(b) \in last[b] THEN {AfterCrash(b)} ELSE last[b]]
    /\ UNCHANGED <<rotation, flushing, ff, writeVars, crcVars, cycle, passVars, s3, snap, keyVars,
                   cutVars, lost, unput, unsynced, cycles, events>>

-----------------------------------------------------------------------------
Next ==
    \/ \E b \in Blocks :
          \/ \E v \in Content : Pwrite(b, v)
          \/ \E zc \in BOOLEAN : Commit(b, zc)
    \/ BeginFlush \/ Rotate \/ RotateError \/ Compute \/ Stage \/ Upload \/ PutManifest \/ FlushFailed \/ Redirty
    \/ Evict \/ CycleCheckpoint \/ Cleanup \/ Unlink
    \/ RetryPass \/ EndFlush \/ Publish \/ PublishError
    \/ TimerCheckpoint \/ Crash \/ Open

Spec == Init /\ [][Next]_vars

-----------------------------------------------------------------------------
Packs == UNION {[S -> Content] : S \in SUBSET Blocks}
Manifest == Seq(Packs)

FlagTypeOK == up \in BOOLEAN /\ ff \in BOOLEAN /\ flushFile \in BOOLEAN

CacheTypeOK ==
    /\ state \in [Blocks -> States] /\ seq \in 0 .. MaxSeq /\ rotation \in 0 .. seq
    /\ active \in [Blocks -> Content] /\ flushing \in [Blocks -> Content]
    /\ writing \in [Blocks -> Content \cup {None}] /\ writes \in 0 .. MaxWrites

CrcTypeOK ==
    /\ crc \in [Blocks -> Content \cup {None, NoBaseline}]
    /\ drained \in [Blocks -> Content \cup {None, NoBaseline}]

PassTypeOK ==
    /\ cycle \in {"idle", "drained", "claimed", "computed", "upload", "put", "evict", "evicted", "cleanup",
                  "keep", "unlink", "passed", "redirty"}
    /\ passes \in 0 .. MaxPasses /\ kind \in {"sched", "drain", "snapshot"}
    /\ pack \in Manifest /\ flushed \subseteq Blocks /\ skips \subseteq Blocks \X BOOLEAN
    /\ cycles \in 0 .. MaxCycles /\ events \in Scenarios

StoreTypeOK ==
    /\ mem \in Manifest /\ s3 \in Manifest /\ snap.manifest \in Manifest
    /\ seqCut \in 0 .. MaxSeq /\ kept \in [key : 0 .. NoKey, manifest : Manifest]
    /\ wal \subseteq Blocks \X (0 .. MaxSeq)
    /\ meta \in [states : [Blocks -> States], maxSeq : 0 .. MaxSeq, rot : 0 .. MaxSeq]

HistoryTypeOK ==
    /\ last \in [Blocks -> SUBSET Content] /\ cut \in [Blocks -> SUBSET Content]
    /\ missed \subseteq Blocks /\ lost \subseteq Blocks /\ unput \subseteq Blocks
    /\ unsynced \in BOOLEAN /\ saveFailed \in BOOLEAN

\* Every variable keeps the shape of what it models.
TypeOK == FlagTypeOK /\ CacheTypeOK /\ CrcTypeOK /\ PassTypeOK /\ StoreTypeOK /\ HistoryTypeOK

\* The block device's contract: a read returns what was last written (after a
\* restart, a write the guest was not told of may be missing).  It holds
\* through rotations, promotions, failed uploads, skips and evictions only if
\* the state of a block always names the place where its last content is.
\* The contents the code loses are the ones in lost: evicted after their pack
\* was passed over because the manifest lists it, under a newer one; evicted on
\* the strength of a manifest whose PUT failed, before a crash; marked on disk
\* at a crash after a pass that could not save the metadata.
ReadsReturnLastWrite ==
    up => \A b \in Blocks \ lost : writing[b] = None => ReadBack(b) \in last[b]

\* flush.rs, at the eviction: "S3 has both the packs AND a manifest that
\* references them, so reads after eviction resolve via S3".  A block with no
\* local copy can be read by another host from the manifest in S3, unless it was
\* lost, or evicted while a failed PUT of the manifest had not been made good.
EvictedIsInS3 ==
    up => \A b \in Blocks \ (lost \cup unput) :
             state[b] = "NOT_PRESENT" => Merged(s3, b) \in last[b]

\* flush_until_no_skips: "A snapshot / drain manifest is a claim that every
\* block dirty at the cut is in S3".  What a drain or a snapshot publishes gives
\* every block the content it had when the last pass rotated the data file,
\* but for blocks lost before and those of a pack this pass passed over.
PublishedIsTheCut ==
    \A b \in DOMAIN snap.cut : Merged(snap.manifest, b) \in snap.cut[b]

\* ARCHITECTURE.md: a versioned snapshot is "immutable, accumulates", "Each
\* snapshot has unique {seq:020} key".  A snapshot taken later with other content
\* does not replace an earlier one.
SnapshotsAreImmutable == [][kept' # kept => kept'.key # kept.key]_vars

\* flush_until_no_skips treats a mismatch that no write race explains as
\* corruption: with none, every skip of a write with a checksum is explained.
SkipsAreExplained == "zc" \notin events => \A s \in skips : s[2]

\* init.rs: "SYNCING = pre-rotation data, lives in the flushing file": a crash
\* during the flush recovers such a block from there, although the log still
\* has the entry of the write that made it dirty.
LoggedSyncingRecoverable ==
    up /\ ff => \A b \in ReplayedBlocks(meta, wal) : state[b] = "SYNCING" => AfterCrash(b) = flushing[b]

\* flush_until_no_skips, as a whole: what a drain or a snapshot publishes is
\* the cut, and only a write race ever makes it take another pass.
DrainsAreExact == PublishedIsTheCut /\ SkipsAreExplained
=============================================================================
