-------------------------------- MODULE ReadPath --------------------------------
(***************************************************************************)
(* Reads of a block (block/write_cache/read.rs) against everything that    *)
(* moves blocks and packs: guest writes, the rotation, publication and     *)
(* eviction of a flush, compaction, garbage collection, and the pack index *)
(* cache and clean cache, which may drop an entry at any time.             *)
(*                                                                         *)
(* Blocks of one chunk.  A block's content is the number of the write that *)
(* made it; a pack maps blocks to contents; a content in zeroed is a       *)
(* tombstone in its pack.  Multi-block reads locate each block by itself,  *)
(* so a reader here is the location of one block.                          *)
(***************************************************************************)
EXTENDS Integers, Sequences, FiniteSets, FiniteSetsExt

CONSTANTS
    RBlocks,      \* blocks of the chunk
    Readers,      \* concurrent readers
    RWrites,      \* bound: writes of a block
    RTotal,       \* bound: writes
    RPacks,       \* bound: packs
    RReads,       \* bound: reads
    RScenarios    \* the sets of events of a behaviour

VARIABLES
    rMay,                     \* the events of this behaviour
    ver, zeroed,              \* last write of each block; the writes of zeros
    bstate, active,           \* block states; contents in the data file
    flushing, flushSet,       \* contents in the flushing file; blocks rotated into it
    fstep,                    \* flush: idle | rotated | published | evicted
    packs, deleted,           \* packs in S3; the ones gc removed
    manifest,                 \* pack ids of the chunk, oldest first
    indexed,                  \* packs whose index is in the pack index cache
    clean,                    \* contents in the clean cache
    rd,                       \* the readers' steps and locals
    rblock, rres, rfrom,      \* block and result of a read; the write it must not miss
    rcount                    \* bound: reads started

(* A reader's step: idle, pread, fast, check, local, file, manifest,   *)
(* scan, fetch, resolve, entry, get.                                       *)

store == <<packs, deleted, manifest>>
caches == <<indexed, clean>>
blocksV == <<ver, zeroed, bstate, active, flushing, flushSet, fstep>>
reader == <<rd, rblock, rres, rfrom, rcount>>
rVars == <<rMay, store, caches, blocksV, reader>>

NoPack == 0
Failed == -1
Zero == -2
RMay(e) == e \in rMay
PackIds == 1..RPacks
Used == {p \in PackIds : packs[p] # << >>}
Holds(p, b) == b \in DOMAIN packs[p]
InPack(p, b) == packs[p][b]

Resting == [at |-> "idle", packs |-> <<>>, pos |-> 0, missing |-> {},
            failed |-> {}, pack |-> NoPack]

RInit ==
    /\ rMay \in RScenarios
    /\ ver = [b \in RBlocks |-> 0] /\ zeroed = {}
    /\ bstate = [b \in RBlocks |-> "absent"]
    /\ active = ver /\ flushing = ver /\ flushSet = {} /\ fstep = "idle"
    /\ packs = [p \in PackIds |-> << >>] /\ deleted = {} /\ manifest = <<>>
    /\ indexed = {} /\ clean = {}
    /\ rd = [r \in Readers |-> Resting]
    /\ rblock \in [Readers -> {CHOOSE b \in RBlocks : TRUE}]
    /\ rres = [r \in Readers |-> Zero] /\ rfrom = [r \in Readers |-> 0]
    /\ rcount = 0

--------------------------------------------------------------------------------
(* What moves blocks.                                                      *)

\* A guest write of a whole block, possibly of zeros (trim, write_zeroes).
RWrite(b) ==
    /\ ver[b] < RWrites /\ MapThenSumSet(LAMBDA c : ver[c], RBlocks) < RTotal
    /\ ver' = [ver EXCEPT ![b] = @ + 1]
    /\ \E z \in {x \in BOOLEAN : x => RMay("zero")} :
          zeroed' = IF z THEN zeroed \cup {<<b, ver[b] + 1>>} ELSE zeroed
    /\ bstate' = [bstate EXCEPT ![b] = "dirty"]
    /\ active' = [active EXCEPT ![b] = ver[b] + 1]
    /\ UNCHANGED <<rMay, store, caches, flushing, flushSet, fstep, reader>>

\* Readers that hold the data_file lock keep rotation and eviction out.
NoReaderIn == \A r \in Readers : rd[r].at # "file"

RotateFile ==
    /\ fstep = "idle" /\ \E b \in RBlocks : bstate[b] = "dirty"
    /\ NoReaderIn
    /\ flushSet' = {b \in RBlocks : bstate[b] = "dirty"}
    /\ flushing' = active
    /\ active' = [b \in RBlocks |-> IF bstate[b] = "dirty" THEN 0 ELSE active[b]]
    /\ bstate' = [b \in RBlocks |-> IF bstate[b] = "dirty" THEN "syncing" ELSE bstate[b]]
    /\ fstep' = "rotated"
    /\ UNCHANGED <<rMay, store, caches, ver, zeroed, reader>>

\* The pack is uploaded, its blocks and its index are cached, and the
\* manifest names it.
PublishPack ==
    /\ fstep = "rotated"
    /\ \E p \in PackIds \ Used :
          /\ p = Cardinality(Used) + 1
          /\ packs' = [packs EXCEPT ![p] = [b \in flushSet |-> flushing[b]]]
          /\ manifest' = Append(manifest, p)
          /\ indexed' = indexed \cup {p}
    /\ clean' = clean \cup {<<b, flushing[b]>> : b \in flushSet}
    /\ fstep' = "published"
    /\ UNCHANGED <<rMay, deleted, ver, zeroed, bstate, active, flushing,
                   flushSet, reader>>

EvictBlocks ==
    /\ fstep = "published" /\ NoReaderIn
    /\ bstate' = [b \in RBlocks |-> IF bstate[b] = "syncing" THEN "absent" ELSE bstate[b]]
    /\ fstep' = "evicted"
    /\ UNCHANGED <<rMay, store, caches, ver, zeroed, active, flushing, flushSet, reader>>

DropFlushingFile ==
    /\ fstep = "evicted"
    /\ fstep' = "idle" /\ flushSet' = {}
    /\ flushing' = [b \in RBlocks |-> 0]
    /\ UNCHANGED <<rMay, store, caches, ver, zeroed, bstate, active, reader>>

\* Compaction merges the packs of the chunk into one.
Compact ==
    /\ RMay("compact") /\ Len(manifest) > 1
    /\ LET Merged == {b \in RBlocks : \E i \in DOMAIN manifest : Holds(manifest[i], b)}
           Newest(b) == CHOOSE i \in DOMAIN manifest :
                           /\ Holds(manifest[i], b)
                           /\ \A j \in DOMAIN manifest : Holds(manifest[j], b) => j <= i
       IN  \E p \in PackIds \ Used :
              /\ p = Cardinality(Used) + 1
              /\ packs' = [packs EXCEPT ![p] =
                              [b \in Merged |-> InPack(manifest[Newest(b)], b)]]
              /\ manifest' = <<p>>
    /\ UNCHANGED <<rMay, deleted, caches, blocksV, reader>>

\* Garbage collection removes a pack no manifest names.
GcDelete(p) ==
    /\ RMay("gc") /\ p \in Used \ deleted
    /\ \A i \in DOMAIN manifest : manifest[i] # p
    /\ deleted' = deleted \cup {p}
    /\ UNCHANGED <<rMay, packs, manifest, caches, blocksV, reader>>

\* The index cache drops an entry; without "pressure" not while a reader
\* fetches the missing ones and looks them up.
EvictIndex(p) ==
    /\ RMay("evict") /\ p \in indexed
    /\ RMay("pressure") \/ \A r \in Readers : rd[r].at \notin {"fetch", "resolve"}
    /\ indexed' = indexed \ {p}
    /\ UNCHANGED <<rMay, store, clean, blocksV, reader>>

EvictClean ==
    /\ RMay("evict") /\ clean # {}
    /\ clean' = {}
    /\ UNCHANGED <<rMay, store, indexed, blocksV, reader>>

\* prefetch_chunk (readahead, boot) loads the index of a pack.
PrefetchIndex(p) ==
    /\ RMay("prefetch") /\ p \in Used \ (indexed \cup deleted)
    /\ \E i \in DOMAIN manifest : manifest[i] = p
    /\ indexed' = indexed \cup {p}
    /\ UNCHANGED <<rMay, store, clean, blocksV, reader>>

--------------------------------------------------------------------------------
(* The reader.                                                             *)

RAt(r, l) == rd[r].at = l
GoTo(r, l) == rd' = [rd EXCEPT ![r].at = l] /\ UNCHANGED rres
Answer(r, v) ==
    /\ rd' = [rd EXCEPT ![r] = Resting]
    /\ rres' = [rres EXCEPT ![r] = v]
Others == UNCHANGED <<rMay, store, blocksV, rblock, rfrom, rcount>>

Begin(r, b, l) ==
    /\ RAt(r, "idle") /\ rcount < RReads
    /\ rcount' = rcount + 1
    /\ rblock' = [rblock EXCEPT ![r] = b]
    /\ rfrom' = [rfrom EXCEPT ![r] = ver[b]]
    /\ GoTo(r, l)
    /\ UNCHANGED <<rMay, store, blocksV, caches>>

\* BlockHandler::read (NBD) and read_into (ublk).
StartRead(r, b) == Begin(r, b, "fast")
StartReadInto(r, b) == Begin(r, b, "pread")

\* No flush and all blocks dirty, under the data_file lock.
AllDirty(b) == fstep = "idle" /\ bstate[b] = "dirty"

\* read_into first tries to read into the caller's buffer.
TryPreadLocal(r) ==
    /\ RAt(r, "pread")
    /\ IF AllDirty(rblock[r]) THEN Answer(r, active[rblock[r]]) ELSE GoTo(r, "fast")
    /\ Others /\ UNCHANGED caches

\* The fast path of WriteCache::read.
ReadFast(r) ==
    /\ RAt(r, "fast")
    /\ IF AllDirty(rblock[r]) THEN Answer(r, active[rblock[r]]) ELSE GoTo(r, "check")
    /\ Others /\ UNCHANGED caches

\* locate_block looks at the state without a lock.
CheckState(r) ==
    /\ RAt(r, "check")
    /\ GoTo(r, IF bstate[rblock[r]] = "absent" THEN "manifest" ELSE "local")
    /\ Others /\ UNCHANGED caches

\* sync_read_local_block takes the lock and looks again.
ReadLocal(r) ==
    /\ RAt(r, "local")
    /\ CASE bstate[rblock[r]] = "absent"  -> GoTo(r, "manifest")
         [] bstate[rblock[r]] = "syncing" -> GoTo(r, "file")
         [] bstate[rblock[r]] = "dirty"   -> Answer(r, active[rblock[r]])
    /\ Others /\ UNCHANGED caches

\* The flushing file, or, had the flush ended meanwhile, what the state says
\* now; the lock keeps the eviction out until the reader is through.
ReadFlushingFile(r) ==
    /\ RAt(r, "file")
    /\ IF fstep # "idle" THEN Answer(r, flushing[rblock[r]])
       ELSE IF bstate[rblock[r]] = "absent" THEN GoTo(r, "manifest")
       ELSE Answer(r, active[rblock[r]])
    /\ Others /\ UNCHANGED caches

\* A copy of the chunk's pack list is taken under the manifest's lock.
ReadManifest(r) ==
    /\ RAt(r, "manifest")
    /\ IF manifest = <<>> THEN Answer(r, Zero)
       ELSE /\ rd' = [rd EXCEPT ![r].at = "scan", ![r].packs = manifest,
                                ![r].pos = Len(manifest)]
            /\ UNCHANGED rres
    /\ Others /\ UNCHANGED caches

Here(r) == rd[r].packs[rd[r].pos]
Found(r) == rd[r].pos > 0 /\ Here(r) \in indexed /\ Holds(Here(r), rblock[r])
TakeEntry(r) ==
    rd' = [rd EXCEPT ![r].at = "entry", ![r].pack = Here(r)] /\ UNCHANGED rres
Older(r) == rd' = [rd EXCEPT ![r].pos = @ - 1] /\ UNCHANGED rres
FetchMissing(r) ==
    /\ rd' = [rd EXCEPT ![r].at = "fetch",
                        ![r].missing = {rd[r].packs[i] : i \in DOMAIN rd[r].packs} \ indexed]
    /\ UNCHANGED rres

\* Mutant of Scan: an index that is not indexed is passed over while an older
\* one may answer.
ScanPast(r) ==
    /\ RAt(r, "scan")
    /\ CASE Found(r)        -> TakeEntry(r)
         [] rd[r].pos = 0   -> FetchMissing(r)
         [] OTHER           -> Older(r)
    /\ Others /\ UNCHANGED caches

\* Newest first through the indexed indexes, up to the first one missing;
\* then all that are missing are fetched.
Scan(r) ==
    /\ RAt(r, "scan")
    /\ CASE Found(r)             -> TakeEntry(r)
         [] rd[r].pos = 0        -> Answer(r, Zero)
         [] Here(r) \notin indexed -> FetchMissing(r)
         [] OTHER                -> Older(r)
    /\ Others /\ UNCHANGED caches

\* get_pack_index of all of them; each may fail, a deleted one does.
FetchIndexes(r) ==
    /\ RAt(r, "fetch")
    /\ \E fail \in SUBSET rd[r].missing :
          /\ rd[r].missing \cap deleted \subseteq fail
          /\ fail \subseteq deleted \/ RMay("get")
          /\ indexed' = indexed \cup (rd[r].missing \ fail)
          /\ rd' = [rd EXCEPT ![r].at = "resolve", ![r].failed = fail,
                              ![r].missing = {}, ![r].pos = Len(rd[r].packs)]
    /\ Others /\ UNCHANGED <<clean, rres>>

\* Newest first again, through the cache; a pack whose index failed ends the
\* look-up, one that is not in the cache is passed over.
Resolve(r) ==
    /\ RAt(r, "resolve")
    /\ CASE rd[r].pos = 0             -> Answer(r, Zero)
         [] rd[r].pos > 0 /\ Here(r) \in rd[r].failed -> Answer(r, Failed)
         [] Found(r) /\ Here(r) \notin rd[r].failed   -> TakeEntry(r)
         [] OTHER                     -> Older(r)
    /\ Others /\ UNCHANGED caches

Content(r) == InPack(rd[r].pack, rblock[r])

\* A tombstone is zeros; a content in the clean cache is returned.
UseEntry(r) ==
    /\ RAt(r, "entry")
    /\ CASE <<rblock[r], Content(r)>> \in zeroed -> Answer(r, Zero)
         [] <<rblock[r], Content(r)>> \in clean  -> Answer(r, Content(r))
         [] OTHER -> GoTo(r, "get")
    /\ Others /\ UNCHANGED caches

\* The range is fetched, decompressed and compared with the entry's hash; a
\* window brings the pack's other blocks into the clean cache with it.
GetBlock(r) ==
    /\ RAt(r, "get")
    /\ \/ /\ rd[r].pack \notin deleted
          /\ Answer(r, Content(r))
          /\ clean' = clean \cup {<<b, InPack(rd[r].pack, b)>> :
                                    b \in DOMAIN packs[rd[r].pack]}
       \/ /\ rd[r].pack \in deleted \/ RMay("get")
          /\ Answer(r, Failed) /\ UNCHANGED clean
    /\ Others /\ UNCHANGED indexed

--------------------------------------------------------------------------------
ReadStep(r) ==
    \/ TryPreadLocal(r) \/ ReadFast(r) \/ CheckState(r) \/ ReadLocal(r) \/ ReadFlushingFile(r)
    \/ ReadManifest(r) \/ Scan(r) \/ FetchIndexes(r) \/ Resolve(r)
    \/ UseEntry(r) \/ GetBlock(r)

RNext ==
    \/ \E b \in RBlocks : RWrite(b)
    \/ RotateFile \/ PublishPack \/ EvictBlocks \/ DropFlushingFile
    \/ Compact \/ EvictClean
    \/ \E p \in PackIds : GcDelete(p) \/ EvictIndex(p) \/ PrefetchIndex(p)
    \/ \E r \in Readers : \/ ReadStep(r)
                         \/ \E b \in RBlocks : StartRead(r, b) \/ StartReadInto(r, b)

RSpec == RInit /\ [][RNext]_rVars

--------------------------------------------------------------------------------
(* Properties.                                                             *)

\* A read returns the last write completed before it began, or a later one:
\* not sparse zeros of a rotated file, not an older pack's version, not
\* zeros for a block whose index could not be read.
Acceptable(r) ==
    \/ rres[r] = Failed
    \/ rres[r] >= rfrom[r] /\ rres[r] > 0
    \/ /\ rres[r] = Zero
       /\ \E v \in rfrom[r]..ver[rblock[r]] : v = 0 \/ <<rblock[r], v>> \in zeroed
ReadsFresh == \A r \in Readers : rd[r].at = "idle" => Acceptable(r)

\* A read fails only when a GET failed, or when a pack it had looked
\* up was collected.
ErrorsHaveCause ==
    \A r \in Readers : rd[r].at = "idle" /\ rres[r] = Failed =>
       RMay("get") \/ deleted # {}

\* WriteCache::read returns a content the block had during the read, or an
\* error that something outside it caused.
ReadsAnswerRightly == ReadsFresh /\ ErrorsHaveCause
================================================================================
