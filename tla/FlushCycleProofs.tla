-------------------------- MODULE FlushCycleProofs --------------------------
(***************************************************************************)
(* Proofs about FlushCycle, for any device, any number of passes and any   *)
(* mixture of rare events: but for what the code is known to lose, a read  *)
(* returns what was last written, an evicted block is in S3, and what a    *)
(* drain or a snapshot publishes is the cut.                               *)
(*                                                                         *)
(* The argument: the state of a block names the place of its last content  *)
(* (LocalIsLast, RemoteIsLast), because a pass works on the blocks it      *)
(* claimed (SyncingClaimed, ClaimKept) and evicts only contents the        *)
(* manifest gives back (Uploaded).  A crash finds the local blocks marked  *)
(* and nothing else (MarksCurrent), and S3 gives the others (S3IsLast).    *)
(***************************************************************************)
EXTENDS FlushCycle, TLAPS

\* A leaf goes to Zenon; the leaves with arithmetic or sequences go to the SMT solver.
USE ZenonT(60)

-----------------------------------------------------------------------------
Claiming == {"claimed", "computed", "upload"}
Claimed == Claiming \cup {"put", "evict"}
Rotated == Claimed \cup {"evicted", "cleanup", "keep"}
Later == {"put", "evict", "evicted", "cleanup", "keep", "unlink", "passed"}

Skipped == {s[1] : s \in skips}

\* What the flusher's place says of its variables.
Flags ==
    /\ ff <=> cycle \in Rotated
    /\ ~up => cycle = "idle" /\ rotation = 0 /\ (flushFile => saveFailed)
    /\ ~up /\ saveFailed => \A b \in Blocks : Marked(b) => b \in lost
    /\ cycle = "drained" => cycles < MaxCycles
    /\ cycle \in {"drained", "claimed"} => skips = {}
    /\ cycle \in {"drained", "claimed", "computed"} => pack = << >>
    /\ cycle = "drained" => flushed = {}
    /\ cycle = "keep" => saveFailed

\* The SSD has the only copy of the block: known from the states, or, while
\* the cache is down, from the marks on disk.
Local(b) == IF up THEN state[b] \in Unsaved ELSE Marked(b)

\* Where a read, or the next open, looks for the block.
Live(b) == IF state[b] = "SYNCING" /\ ff THEN flushing[b] ELSE active[b]
Base == IF up THEN mem ELSE s3

\* A SYNCING block belongs to the pass under way.
SyncingClaimed ==
    \A b \in Blocks : state[b] = "SYNCING" =>
        \/ cycle \in {"claimed", "computed"} /\ b \in flushed \cup Skipped
        \/ cycle \in Claimed /\ b \in flushed
        \/ cycle = "redirty"

\* A claimed block stays local until it is evicted.
ClaimKept ==
    cycle \in Claimed =>
        /\ \A b \in flushed \cup Skipped : b \in Blocks /\ state[b] \in Unsaved
        /\ flushed \cap Skipped = {}

\* A write under way is in the active file, and its block is not evicted.
WritingInPlace ==
    \A b \in Blocks :
        /\ writing[b] # None => /\ active[b] = writing[b]
                                /\ active[b] \in last[b]
                                /\ state[b] # "NOT_PRESENT"
                                /\ state[b] = "SYNCING" => cycle = "redirty"
        /\ state[b] = "CLEAN" => writing[b] # None
        /\ ~up => writing[b] = None /\ state[b] = "NOT_PRESENT" /\ crc[b] = None

LocalIsLast == \A b \in Blocks \ lost : Local(b) => Live(b) \in last[b]
RemoteIsLast == \A b \in Blocks \ lost : ~Local(b) => Merged(Base, b) \in last[b]
S3IsLast == up => \A b \in Blocks \ (lost \cup unput) : ~Local(b) => Merged(s3, b) \in last[b]

IsNewest(m, b, i) ==
    i \in DOMAIN m /\ b \in DOMAIN m[i] /\ \A j \in DOMAIN m : b \in DOMAIN m[j] => j <= i

\* Every block the manifest holds has a newest pack with it.
HasNewest(m) == \A b \in Blocks : Holds(m, b) => \E i \in DOMAIN m : IsNewest(m, b, i)

NewestExists == HasNewest(mem) /\ HasNewest(s3)

Fresh == {b \in flushed : ~Dominated(b)}

\* The pack has every claimed block the manifest does not already give, unless
\* it was passed over.
Staged ==
    cycle = "upload" =>
        \/ pack = << >> /\ Fresh \subseteq missed
        \/ pack = <<[b \in Fresh |-> flushing[b]]>>

\* Once the packs are uploaded, the manifest gives every claimed block that was
\* not missed.
Uploaded ==
    cycle \in {"put", "evict"} => \A b \in flushed \ missed : Merged(mem, b) = flushing[b]

\* The manifest in S3 is the one in memory, but for a pack being published and
\* for PUTs that failed.
Published == up /\ ~unsynced /\ cycle # "put" => s3 = mem

\* What the pass has, or will have, in S3 is the content at its rotation.
CutKept ==
    /\ cycle \in Claiming => \A b \in Blocks \ missed :
           IF b \in flushed \cup Skipped THEN flushing[b] \in cut[b]
                                         ELSE Merged(mem, b) \in cut[b]
    /\ cycle \in Later => \A b \in Blocks \ (missed \cup Skipped) : Merged(mem, b) \in cut[b]
    /\ cycle \in Later \ {"put"} /\ pack # << >> => s3 = mem

\* Without zero-copy writes, a checksum is that of the last content, unless a
\* write is under way or has left a new one.
ChecksumsCurrent ==
    "zc" \notin events => \A b \in Blocks :
        /\ crc[b] # NoBaseline /\ drained[b] # NoBaseline
        /\ writing[b] = None /\ state[b] \in Unsaved /\ crc[b] # None => crc[b] = Live(b)
        /\ cycle = "drained" /\ writing[b] = None /\ state[b] = "DIRTY" /\ crc[b] = None =>
              drained[b] \in {None, active[b]}
        /\ cycle = "claimed" /\ b \in flushed /\ state[b] = "SYNCING" /\ crc[b] = None =>
              drained[b] \in {None, flushing[b]}

\* As long as saves succeed, what is marked on disk is local, and the flushing
\* file is there only during a pass.
MarksCurrent ==
    ~saveFailed =>
        /\ flushFile => cycle \in Rotated \cup {"unlink"}
        /\ up /\ cycle # "evicted" => \A b \in Blocks : Marked(b) => state[b] \in Unsaved

IInv ==
    /\ TypeOK /\ Flags /\ SyncingClaimed /\ ClaimKept /\ WritingInPlace
    /\ LocalIsLast /\ RemoteIsLast /\ S3IsLast /\ NewestExists /\ Staged /\ Uploaded
    /\ Published /\ CutKept /\ ChecksumsCurrent /\ MarksCurrent
    /\ PublishedIsTheCut /\ SkipsAreExplained

-----------------------------------------------------------------------------
(* What the manifest gives a block.                                        *)

\* The newest pack with a block is unique.
LEMMA NewestUnique ==
    ASSUME NEW m \in Manifest, NEW b, NEW i, IsNewest(m, b, i)
    PROVE  Holds(m, b) /\ Newest(m, b) = i /\ Merged(m, b) = m[i][b]
<1>1. Len(m) \in Nat /\ DOMAIN m = 1..Len(m)
    BY SMTT(60) DEF Manifest
<1>2. Holds(m, b)
    BY DEF Holds, IsNewest
<1>3. IsNewest(m, b, Newest(m, b))
    BY DEF Newest, IsNewest
<1>4. Newest(m, b) = i
    BY SMTT(60), <1>1, <1>3 DEF IsNewest
<1> QED BY <1>2, <1>4 DEF Merged

\* Pushing a pack on the manifest: its blocks take their contents from it ...
LEMMA PushHit ==
    ASSUME NEW m \in Manifest, NEW p \in Packs, NEW b \in DOMAIN p
    PROVE  Merged(m \o <<p>>, b) = p[b]
<1> DEFINE n == m \o <<p>>
<1>1. Len(m) \in Nat /\ m \in Seq(Packs) /\ <<p>> \in Seq(Packs)
    BY SMTT(60) DEF Manifest
<1>2. n \in Manifest /\ Len(n) = Len(m) + 1 /\ n[Len(m) + 1] = p
    BY SMTT(60), <1>1 DEF Manifest
<1>3. DOMAIN n = 1..(Len(m) + 1)
    BY SMTT(60), <1>1, <1>2
<1> HIDE DEF n
<1>4. IsNewest(n, b, Len(m) + 1)
    BY SMTT(60), <1>1, <1>2, <1>3 DEF IsNewest
<1>5. Merged(n, b) = n[Len(m) + 1][b]
    BY <1>2, <1>4, NewestUnique
<1> QED BY <1>2, <1>5 DEF n

\* ... and the others keep theirs.
LEMMA PushMiss ==
    ASSUME NEW m \in Manifest, HasNewest(m), NEW p \in Packs, NEW b \in Blocks, b \notin DOMAIN p
    PROVE  Merged(m \o <<p>>, b) = Merged(m, b)
<1> DEFINE n == m \o <<p>>
<1>1. Len(m) \in Nat /\ m \in Seq(Packs) /\ <<p>> \in Seq(Packs) /\ DOMAIN m = 1..Len(m)
    BY SMTT(60) DEF Manifest
<1>2. n \in Manifest /\ Len(n) = Len(m) + 1 /\ n[Len(m) + 1] = p
    BY SMTT(60), <1>1 DEF Manifest
<1>3. DOMAIN n = 1..(Len(m) + 1) /\ \A i \in DOMAIN m : n[i] = m[i]
    BY SMTT(60), <1>1, <1>2
<1> HIDE DEF n
<1>4. CASE Holds(m, b)
    <2>1. PICK i \in DOMAIN m : IsNewest(m, b, i)
        BY <1>4 DEF HasNewest
    <2>2. IsNewest(n, b, i)
        BY SMTT(60), <2>1, <1>1, <1>2, <1>3 DEF IsNewest
    <2>3. Merged(n, b) = n[i][b] /\ Merged(m, b) = m[i][b]
        BY <2>1, <2>2, <1>2, NewestUnique
    <2> QED BY <2>1, <2>3, <1>3 DEF n, IsNewest
<1>5. CASE ~Holds(m, b)
    <2>1. ~Holds(n, b)
        BY SMTT(60), <1>5, <1>1, <1>2, <1>3 DEF Holds
    <2> QED BY <2>1, <1>5 DEF Merged, n
<1> QED BY <1>4, <1>5

\* The longer manifest has a newest pack for every block it holds.
LEMMA PushHasNewest ==
    ASSUME NEW m \in Manifest, HasNewest(m), NEW p \in Packs
    PROVE  HasNewest(m \o <<p>>)
<1> DEFINE n == m \o <<p>>
<1>1. Len(m) \in Nat /\ m \in Seq(Packs) /\ <<p>> \in Seq(Packs) /\ DOMAIN m = 1..Len(m)
    BY SMTT(60) DEF Manifest
<1>2. n \in Manifest /\ Len(n) = Len(m) + 1 /\ n[Len(m) + 1] = p
    BY SMTT(60), <1>1 DEF Manifest
<1>3. DOMAIN n = 1..(Len(m) + 1) /\ \A i \in DOMAIN m : n[i] = m[i]
    BY SMTT(60), <1>1, <1>2
<1> HIDE DEF n
<1> SUFFICES ASSUME NEW b \in Blocks, Holds(n, b) PROVE \E i \in DOMAIN n : IsNewest(n, b, i)
    BY DEF HasNewest, n
<1>4. CASE b \in DOMAIN p
    <2>1. IsNewest(n, b, Len(m) + 1)
        BY SMTT(60), <1>1, <1>2, <1>3, <1>4 DEF IsNewest
    <2> QED BY <2>1 DEF IsNewest
<1>5. CASE b \notin DOMAIN p
    <2>1. Holds(m, b)
        BY SMTT(60), <1>1, <1>2, <1>3, <1>5 DEF Holds
    <2>2. PICK i \in DOMAIN m : IsNewest(m, b, i)
        BY <2>1 DEF HasNewest
    <2>3. IsNewest(n, b, i)
        BY SMTT(60), <2>2, <1>1, <1>2, <1>3, <1>5 DEF IsNewest
    <2> QED BY <2>3 DEF IsNewest
<1> QED BY <1>4, <1>5

-----------------------------------------------------------------------------
(* Type correctness.                                                       *)

\* The snapshot of a flush that has published nothing.
LEMMA EmptySnapshot == NoSnapshot.manifest \in Manifest
    BY SMTT(60) DEF NoSnapshot, Manifest

\* Every step keeps the types.
LEMMA TypeStep ==
    ASSUME TypeOK, Flags, [Next]_vars
    PROVE  TypeOK'
<1> USE BoundsAssumption, ContentsAssumption
<1> USE DEF TypeOK, Each, States, NoKey, Manifest
<1>1. ASSUME NEW b \in Blocks, NEW v \in Content, Pwrite(b, v) PROVE TypeOK'
    <2>1. FlagTypeOK' /\ CrcTypeOK' /\ PassTypeOK' /\ StoreTypeOK'
        BY <1>1 DEF Pwrite, fileVars, writeVars, crcVars, passVars, keyVars, manifestVars, logVars, cutVars, lossVars,
            FlagTypeOK, CrcTypeOK, PassTypeOK, StoreTypeOK
    <2>2. CacheTypeOK'
        <3>1. Promoted(b) \in States
            BY DEF Promoted, CacheTypeOK
        <3>2. state' \in [Blocks -> States] /\ active' \in [Blocks -> Content]
              /\ writing' \in [Blocks -> Content \cup {None}]
            BY <1>1, <3>1 DEF Pwrite, CacheTypeOK
        <3>3. writes' \in 0 .. MaxWrites
            BY SMTT(60), <1>1 DEF Pwrite, CacheTypeOK
        <3> QED BY <1>1, <3>2, <3>3 DEF Pwrite, CacheTypeOK
    <2>3. HistoryTypeOK'
        BY <1>1 DEF Pwrite, HistoryTypeOK, cutVars, lossVars
    <2> QED BY <2>1, <2>2, <2>3
<1>2. ASSUME NEW b \in Blocks, NEW zc \in BOOLEAN, Commit(b, zc) PROVE TypeOK'
    <2>1. FlagTypeOK'
        BY <1>2 DEF Commit, Baseline, FlagTypeOK,
            fileVars, writeVars, crcVars, passVars, keyVars, manifestVars, logVars, cutVars, lossVars
    <2>2. CacheTypeOK'
        BY SMTT(60), <1>2 DEF Commit, Baseline, CacheTypeOK,
            fileVars, writeVars, crcVars, passVars, keyVars, manifestVars, logVars, cutVars, lossVars
    <2>3. CrcTypeOK'
        BY <1>2 DEF Commit, Baseline, CrcTypeOK, CacheTypeOK, fileVars, writeVars, crcVars, passVars, keyVars, manifestVars, logVars, cutVars, lossVars
    <2>4. PassTypeOK'
        BY <1>2 DEF Commit, Baseline, PassTypeOK,
            fileVars, writeVars, crcVars, passVars, keyVars, manifestVars, logVars, cutVars, lossVars
    <2>5. StoreTypeOK'
        <3>1. wal' \subseteq Blocks \X (0 .. MaxSeq)
            BY SMTT(60), <1>2 DEF Commit, CacheTypeOK, StoreTypeOK
        <3> QED BY <1>2, <3>1 DEF Commit, StoreTypeOK, manifestVars, keyVars
    <2>6. HistoryTypeOK'
        BY <1>2 DEF Commit, HistoryTypeOK, CacheTypeOK, cutVars, lossVars
    <2> QED BY <2>1, <2>2, <2>3, <2>4, <2>5, <2>6
<1>3. ASSUME BeginFlush PROVE TypeOK'
    <2>1. FlagTypeOK'
        BY <1>3 DEF BeginFlush, BeginPass, FlagTypeOK,
            fileVars, writeVars, crcVars, passVars, keyVars, manifestVars, logVars, cutVars, lossVars
    <2>2. CacheTypeOK'
        BY <1>3 DEF BeginFlush, BeginPass, CacheTypeOK,
            fileVars, writeVars, crcVars, passVars, keyVars, manifestVars, logVars, cutVars, lossVars
    <2>3. CrcTypeOK'
        BY <1>3 DEF BeginFlush, BeginPass, CrcTypeOK,
            fileVars, writeVars, crcVars, passVars, keyVars, manifestVars, logVars, cutVars, lossVars
    <2>4. PassTypeOK'
        BY SMTT(60), <1>3 DEF BeginFlush, BeginPass, PassTypeOK,
            fileVars, writeVars, crcVars, passVars, keyVars, manifestVars, logVars, cutVars, lossVars
    <2>5. StoreTypeOK'
        BY SMTT(60), <1>3, EmptySnapshot DEF BeginFlush, BeginPass, CacheTypeOK, StoreTypeOK, logVars
    <2>6. HistoryTypeOK'
        BY <1>3 DEF BeginFlush, BeginPass, HistoryTypeOK, lossVars, Each, Content
    <2> QED BY <2>1, <2>2, <2>3, <2>4, <2>5, <2>6
<1>4. ASSUME Rotate PROVE TypeOK'
    <2>1. FlagTypeOK' /\ CrcTypeOK' /\ StoreTypeOK' /\ HistoryTypeOK'
        BY <1>4 DEF Rotate, fileVars, writeVars, crcVars, passVars, keyVars, manifestVars, logVars, cutVars, lossVars,
            FlagTypeOK, CrcTypeOK, StoreTypeOK, HistoryTypeOK
    <2>2. CacheTypeOK'
        <3>1. state' \in [Blocks -> States] /\ active' \in [Blocks -> Content] /\ flushing' \in [Blocks -> Content]
            BY <1>4 DEF Rotate, CacheTypeOK, Content
        <3>2. seq' = seq /\ rotation' = seq /\ writing' = writing /\ writes' = writes
            BY <1>4 DEF Rotate, writeVars
        <3> QED BY SMTT(60), <3>1, <3>2 DEF CacheTypeOK
    <2>3. PassTypeOK'
        <3>1. flushed' \subseteq Blocks /\ cycle' \in {"cleanup", "claimed"}
            BY <1>4 DEF Rotate
        <3>2. cycles' \in 0 .. MaxCycles
            BY SMTT(60), <1>4 DEF Rotate, Flags, PassTypeOK
        <3> QED BY <1>4, <3>1, <3>2 DEF Rotate, PassTypeOK
    <2> QED BY <2>1, <2>2, <2>3
<1>5. ASSUME RotateError PROVE TypeOK'
    <2>1. FlagTypeOK' /\ CacheTypeOK' /\ CrcTypeOK' /\ PassTypeOK' /\ StoreTypeOK'
        BY SMTT(60), <1>5 DEF RotateError, EndsFlush, fileVars, writeVars, crcVars, passVars, keyVars, manifestVars, logVars, cutVars, lossVars,
            FlagTypeOK, CacheTypeOK, CrcTypeOK, PassTypeOK, StoreTypeOK
    <2>2. HistoryTypeOK'
        BY <1>5 DEF RotateError, EndsFlush, HistoryTypeOK, Content, cutVars, lossVars
    <2> QED BY <2>1, <2>2
<1>6. ASSUME Compute PROVE TypeOK'
    <2>1. FlagTypeOK' /\ CacheTypeOK' /\ CrcTypeOK' /\ StoreTypeOK' /\ HistoryTypeOK'
        BY <1>6 DEF Compute, fileVars, writeVars, crcVars, passVars, keyVars, manifestVars, logVars, cutVars, lossVars,
            FlagTypeOK, CacheTypeOK, CrcTypeOK, StoreTypeOK, HistoryTypeOK
    <2>2. PassTypeOK'
        <3>1. \A b : Explained(b) \in BOOLEAN
            BY DEF Explained
        <3>2. flushed' \subseteq Blocks /\ skips' \subseteq Blocks \X BOOLEAN
            BY SMTT(60), <1>6, <3>1 DEF Compute, PassTypeOK
        <3> QED BY <1>6, <3>2 DEF Compute, PassTypeOK
    <2> QED BY <2>1, <2>2
<1>7. ASSUME Stage PROVE TypeOK'
    <2>1. FlagTypeOK' /\ CacheTypeOK' /\ CrcTypeOK' /\ StoreTypeOK'
        BY <1>7 DEF Stage, fileVars, writeVars, crcVars, passVars, keyVars, manifestVars, logVars, cutVars, lossVars,
            FlagTypeOK, CacheTypeOK, CrcTypeOK, StoreTypeOK
    <2>0. HistoryTypeOK'
        <3>1. missed' \subseteq missed \cup flushed
            BY <1>7 DEF Stage
        <3> QED BY <1>7, <3>1 DEF Stage, PassTypeOK, HistoryTypeOK, lossVars
    <2>2. PassTypeOK'
        <3> DEFINE fresh == {b \in flushed : ~Dominated(b)}
                   new == [b \in fresh |-> flushing[b]]
        <3> HIDE DEF fresh
        <3>0. fresh \in SUBSET Blocks /\ new \in [fresh -> Content]
            BY DEF fresh, PassTypeOK, CacheTypeOK
        <3>1. new \in Packs
            BY <3>0 DEF Packs
        <3>2. pack' \in {<< >>, <<new>>}
            BY <1>7 DEF Stage, fresh
        <3> HIDE DEF new
        <3>3. <<new>> \in Seq(Packs) /\ << >> \in Seq(Packs)
            BY SMTT(60), <3>1
        <3>4. pack' \in Seq(Packs)
            BY <3>2, <3>3
        <3> QED BY <1>7, <3>4 DEF Stage, PassTypeOK
    <2> QED BY <2>0, <2>1, <2>2
<1>8. ASSUME Upload PROVE TypeOK'
    <2>1. FlagTypeOK' /\ CacheTypeOK' /\ CrcTypeOK' /\ PassTypeOK' /\ HistoryTypeOK'
        BY <1>8 DEF Upload, fileVars, writeVars, crcVars, passVars, keyVars, manifestVars, logVars, cutVars, lossVars,
            FlagTypeOK, CacheTypeOK, CrcTypeOK, PassTypeOK, HistoryTypeOK
    <2>2. StoreTypeOK'
        <3>1. mem' \in Seq(Packs)
            BY SMTT(60), <1>8 DEF Upload, PassTypeOK, StoreTypeOK
        <3> QED BY <1>8, <3>1 DEF Upload, StoreTypeOK, keyVars, logVars
    <2> QED BY <2>1, <2>2
<1>9. ASSUME PutManifest PROVE TypeOK'
    BY <1>9 DEF PutManifest, fileVars, writeVars, crcVars, passVars, keyVars, manifestVars, logVars, cutVars, lossVars,
        FlagTypeOK, CacheTypeOK, CrcTypeOK, PassTypeOK, StoreTypeOK, HistoryTypeOK
<1>10. ASSUME FlushFailed PROVE TypeOK'
    <2>1. FlagTypeOK'
        BY <1>10 DEF FlushFailed, FlagTypeOK,
            fileVars, writeVars, crcVars, passVars, keyVars, manifestVars, logVars, cutVars, lossVars
    <2>2. CacheTypeOK'
        BY SMTT(60), <1>10 DEF FlushFailed, CacheTypeOK,
            fileVars, writeVars, crcVars, passVars, keyVars, manifestVars, logVars, cutVars, lossVars
    <2>3. CrcTypeOK'
        BY <1>10 DEF FlushFailed, CrcTypeOK,
            fileVars, writeVars, crcVars, passVars, keyVars, manifestVars, logVars, cutVars, lossVars
    <2>4. PassTypeOK'
        BY <1>10 DEF FlushFailed, PassTypeOK,
            fileVars, writeVars, crcVars, passVars, keyVars, manifestVars, logVars, cutVars, lossVars
    <2>5. StoreTypeOK'
        BY <1>10 DEF FlushFailed, StoreTypeOK,
            fileVars, writeVars, crcVars, passVars, keyVars, manifestVars, logVars, cutVars, lossVars
    <2>6. HistoryTypeOK'
        BY <1>10 DEF FlushFailed, HistoryTypeOK,
            fileVars, writeVars, crcVars, passVars, keyVars, manifestVars, logVars, cutVars, lossVars
    <2> QED BY <2>1, <2>2, <2>3, <2>4, <2>5, <2>6
<1>11. ASSUME Redirty PROVE TypeOK'
    <2>1. FlagTypeOK' /\ CacheTypeOK' /\ CrcTypeOK' /\ PassTypeOK' /\ StoreTypeOK'
        BY SMTT(60), <1>11 DEF Redirty, EndsFlush, fileVars, writeVars, crcVars, passVars, keyVars, manifestVars, logVars, cutVars, lossVars,
            FlagTypeOK, CacheTypeOK, CrcTypeOK, PassTypeOK, StoreTypeOK
    <2>2. HistoryTypeOK'
        BY <1>11 DEF Redirty, EndsFlush, HistoryTypeOK, Content, cutVars, lossVars
    <2> QED BY <2>1, <2>2
<1>12. ASSUME Evict PROVE TypeOK'
    <2>1. FlagTypeOK' /\ CacheTypeOK' /\ CrcTypeOK' /\ PassTypeOK' /\ StoreTypeOK'
        BY <1>12 DEF Evict, fileVars, writeVars, crcVars, passVars, keyVars, manifestVars, logVars, cutVars,
            FlagTypeOK, CacheTypeOK, CrcTypeOK, PassTypeOK, StoreTypeOK
    <2>2. HistoryTypeOK'
        BY <1>12 DEF Evict, EvictedIs, HistoryTypeOK, PassTypeOK, cutVars
    <2> QED BY <2>1, <2>2
<1>13. ASSUME CycleCheckpoint PROVE TypeOK'
    <2>1. FlagTypeOK' /\ CacheTypeOK' /\ CrcTypeOK' /\ PassTypeOK' /\ HistoryTypeOK'
        BY <1>13 DEF CycleCheckpoint, Saved, fileVars, writeVars, crcVars, passVars, keyVars, manifestVars, logVars, cutVars, lossVars,
            FlagTypeOK, CacheTypeOK, CrcTypeOK, PassTypeOK, HistoryTypeOK
    <2>2. StoreTypeOK'
        <3>1. Saved \in [states : [Blocks -> States], maxSeq : 0 .. MaxSeq, rot : 0 .. MaxSeq]
            BY SMTT(60) DEF Saved, CacheTypeOK
        <3> QED BY <1>13, <3>1 DEF CycleCheckpoint, StoreTypeOK, manifestVars, keyVars, logVars
    <2> QED BY <2>1, <2>2
<1>14. ASSUME Cleanup PROVE TypeOK'
    <2>1. FlagTypeOK'
        BY <1>14 DEF Cleanup, FlagTypeOK,
            fileVars, writeVars, crcVars, passVars, keyVars, manifestVars, logVars, cutVars, lossVars
    <2>2. CacheTypeOK'
        BY SMTT(60), <1>14 DEF Cleanup, CacheTypeOK,
            fileVars, writeVars, crcVars, passVars, keyVars, manifestVars, logVars, cutVars, lossVars
    <2>3. CrcTypeOK'
        BY <1>14 DEF Cleanup, CrcTypeOK,
            fileVars, writeVars, crcVars, passVars, keyVars, manifestVars, logVars, cutVars, lossVars
    <2>4. PassTypeOK'
        BY <1>14 DEF Cleanup, PassTypeOK,
            fileVars, writeVars, crcVars, passVars, keyVars, manifestVars, logVars, cutVars, lossVars
    <2>5. StoreTypeOK'
        BY <1>14 DEF Cleanup, StoreTypeOK,
            fileVars, writeVars, crcVars, passVars, keyVars, manifestVars, logVars, cutVars, lossVars
    <2>6. HistoryTypeOK'
        BY <1>14 DEF Cleanup, HistoryTypeOK,
            fileVars, writeVars, crcVars, passVars, keyVars, manifestVars, logVars, cutVars, lossVars
    <2> QED BY <2>1, <2>2, <2>3, <2>4, <2>5, <2>6
<1>15. ASSUME Unlink PROVE TypeOK'
    BY <1>15 DEF Unlink, fileVars, writeVars, crcVars, passVars, keyVars, manifestVars, logVars, cutVars, lossVars,
        FlagTypeOK, CacheTypeOK, CrcTypeOK, PassTypeOK, StoreTypeOK, HistoryTypeOK
<1>16. ASSUME RetryPass PROVE TypeOK'
    <2>1. FlagTypeOK'
        BY <1>16 DEF RetryPass, BeginPass, FlagTypeOK,
            fileVars, writeVars, crcVars, passVars, keyVars, manifestVars, logVars, cutVars, lossVars
    <2>2. CacheTypeOK'
        BY <1>16 DEF RetryPass, BeginPass, CacheTypeOK,
            fileVars, writeVars, crcVars, passVars, keyVars, manifestVars, logVars, cutVars, lossVars
    <2>3. CrcTypeOK'
        BY <1>16 DEF RetryPass, BeginPass, CrcTypeOK,
            fileVars, writeVars, crcVars, passVars, keyVars, manifestVars, logVars, cutVars, lossVars
    <2>4. PassTypeOK'
        BY SMTT(60), <1>16 DEF RetryPass, BeginPass, PassTypeOK,
            fileVars, writeVars, crcVars, passVars, keyVars, manifestVars, logVars, cutVars, lossVars
    <2>5. StoreTypeOK'
        BY SMTT(60), <1>16, EmptySnapshot DEF RetryPass, BeginPass, CacheTypeOK, StoreTypeOK, logVars
    <2>6. HistoryTypeOK'
        BY <1>16 DEF RetryPass, BeginPass, HistoryTypeOK, lossVars, Each, Content
    <2> QED BY <2>1, <2>2, <2>3, <2>4, <2>5, <2>6
<1>17. ASSUME EndFlush PROVE TypeOK'
    <2>1. FlagTypeOK' /\ CacheTypeOK' /\ CrcTypeOK' /\ PassTypeOK' /\ StoreTypeOK'
        BY SMTT(60), <1>17 DEF EndFlush, EndsFlush, fileVars, writeVars, crcVars, passVars, keyVars, manifestVars, logVars, cutVars, lossVars,
            FlagTypeOK, CacheTypeOK, CrcTypeOK, PassTypeOK, StoreTypeOK
    <2>2. HistoryTypeOK'
        BY <1>17 DEF EndFlush, EndsFlush, HistoryTypeOK, Content, cutVars, lossVars
    <2> QED BY <2>1, <2>2
<1>18. ASSUME Publish PROVE TypeOK'
    <2>1. FlagTypeOK' /\ CacheTypeOK' /\ CrcTypeOK' /\ PassTypeOK' /\ StoreTypeOK'
        BY SMTT(60), <1>18 DEF Publish, EndsFlush, fileVars, writeVars, crcVars, passVars, keyVars, manifestVars, logVars, cutVars, lossVars,
            FlagTypeOK, CacheTypeOK, CrcTypeOK, PassTypeOK, StoreTypeOK
    <2>2. HistoryTypeOK'
        BY <1>18 DEF Publish, EndsFlush, HistoryTypeOK, Content, cutVars, lossVars
    <2> QED BY <2>1, <2>2
<1>19. ASSUME PublishError PROVE TypeOK'
    <2>1. FlagTypeOK' /\ CacheTypeOK' /\ CrcTypeOK' /\ PassTypeOK' /\ StoreTypeOK'
        BY SMTT(60), <1>19 DEF PublishError, EndsFlush, fileVars, writeVars, crcVars, passVars, keyVars, manifestVars, logVars, cutVars, lossVars,
            FlagTypeOK, CacheTypeOK, CrcTypeOK, PassTypeOK, StoreTypeOK
    <2>2. HistoryTypeOK'
        BY <1>19 DEF PublishError, EndsFlush, HistoryTypeOK, Content, cutVars, lossVars
    <2> QED BY <2>1, <2>2
<1>20. ASSUME TimerCheckpoint PROVE TypeOK'
    <2>1. FlagTypeOK' /\ CacheTypeOK' /\ CrcTypeOK' /\ PassTypeOK' /\ HistoryTypeOK'
        BY <1>20 DEF TimerCheckpoint, Saved, fileVars, writeVars, crcVars, passVars, keyVars, manifestVars, logVars, cutVars, lossVars,
            FlagTypeOK, CacheTypeOK, CrcTypeOK, PassTypeOK, HistoryTypeOK
    <2>2. StoreTypeOK'
        <3>1. Saved \in [states : [Blocks -> States], maxSeq : 0 .. MaxSeq, rot : 0 .. MaxSeq]
            BY SMTT(60) DEF Saved, CacheTypeOK
        <3> QED BY <1>20, <3>1 DEF TimerCheckpoint, StoreTypeOK, manifestVars, keyVars, logVars
    <2> QED BY <2>1, <2>2
<1>21. ASSUME Crash PROVE TypeOK'
    <2>1. FlagTypeOK'
        BY <1>21 DEF Crash, FlagTypeOK,
            fileVars, writeVars, crcVars, passVars, keyVars, manifestVars, logVars, cutVars, lossVars
    <2>2. CacheTypeOK'
        BY SMTT(60), <1>21 DEF Crash, CacheTypeOK,
            fileVars, writeVars, crcVars, passVars, keyVars, manifestVars, logVars, cutVars, lossVars
    <2>3. CrcTypeOK'
        BY <1>21 DEF Crash, CrcTypeOK,
            fileVars, writeVars, crcVars, passVars, keyVars, manifestVars, logVars, cutVars, lossVars
    <2>4. PassTypeOK'
        BY SMTT(60), <1>21 DEF Crash, PassTypeOK,
            fileVars, writeVars, crcVars, passVars, keyVars, manifestVars, logVars, cutVars, lossVars
    <2>5. StoreTypeOK'
        BY SMTT(60), <1>21, EmptySnapshot DEF Crash, StoreTypeOK, logVars
    <2>6. HistoryTypeOK'
        BY <1>21 DEF Crash, HistoryTypeOK,
            fileVars, writeVars, crcVars, passVars, keyVars, manifestVars, logVars, cutVars, lossVars
    <2> QED BY <2>1, <2>2, <2>3, <2>4, <2>5, <2>6
<1>22. ASSUME Open PROVE TypeOK'
    <2>1. FlagTypeOK' /\ CrcTypeOK' /\ PassTypeOK'
        BY <1>22 DEF Open, fileVars, writeVars, crcVars, passVars, keyVars, manifestVars, logVars, cutVars, lossVars,
            FlagTypeOK, CrcTypeOK, PassTypeOK
    <2>2. CacheTypeOK'
        <3>1. state' \in [Blocks -> States]
            BY <1>22 DEF Open, RecoveredState
        <3>2. active' \in [Blocks -> Content]
            BY <1>22 DEF Open, Recovered, CacheTypeOK
        <3>3. seq' \in 0 .. MaxSeq /\ rotation' = rotation /\ flushing' = flushing /\ writing' = writing /\ writes' = writes
            BY <1>22 DEF Open, writeVars
        <3>4. rotation = 0
            BY <1>22 DEF Open, Flags
        <3> QED BY SMTT(60), <3>1, <3>2, <3>3, <3>4 DEF CacheTypeOK
    <2>3. StoreTypeOK'
        <3>1. state' \in [Blocks -> States] /\ seq' \in 0 .. MaxSeq
            BY <1>22 DEF Open, RecoveredState
        <3>2. meta' \in [states : [Blocks -> States], maxSeq : 0 .. MaxSeq, rot : 0 .. MaxSeq]
            BY SMTT(60), <1>22, <3>1 DEF Open, StoreTypeOK
        <3>3. wal' \subseteq Blocks \X (0 .. MaxSeq)
            BY <1>22 DEF Open, Replayed, StoreTypeOK
        <3> QED BY <1>22, <3>2, <3>3 DEF Open, StoreTypeOK, keyVars
    <2>4. HistoryTypeOK'
        BY <1>22 DEF Open, HistoryTypeOK, cutVars, lossVars
    <2> QED BY <2>1, <2>2, <2>3, <2>4
<1>23. CASE UNCHANGED vars
    BY <1>23 DEF vars, fileVars, writeVars, crcVars, passVars, keyVars, manifestVars, logVars, cutVars, lossVars,
        FlagTypeOK, CacheTypeOK, CrcTypeOK, PassTypeOK, StoreTypeOK, HistoryTypeOK
<1> QED BY <1>1, <1>2, <1>3, <1>4, <1>5, <1>6, <1>7, <1>8, <1>9, <1>10, <1>11, <1>12, <1>13,
            <1>14, <1>15, <1>16, <1>17, <1>18, <1>19, <1>20, <1>21, <1>22, <1>23 DEF Next

-----------------------------------------------------------------------------
(* Every step keeps the invariant.                                         *)

\* A manifest without packs gives zeroes.
LEMMA MergedEmpty == ASSUME NEW b PROVE Merged(<< >>, b) = Zero
    BY SMTT(60) DEF Merged, Holds

\* A checkpoint marks exactly the local blocks.
LEMMA SavedMarks ==
    ASSUME NEW b, meta' = Saved, wal' = {}
    PROVE  Marked(b)' <=> state[b] \in Unsaved
    BY DEF Marked, RecoveredState, ReplayedBlocks, Replayed, Saved

\* What open() leaves on disk marks the same blocks.
LEMMA ReopenedMarks ==
    ASSUME TypeOK, Open, NEW b \in Blocks
    PROVE  Marked(b)' <=> Marked(b)
<1> USE DEF TypeOK
<1>1. state'[b] \in Unsaved <=> Marked(b)
    BY DEF Open, Marked, RecoveredState, Unsaved
<1>2. wal' = Replayed(meta, wal) /\ IsResumePoint(meta, wal, seq') /\ seq' \in Nat
    BY SMTT(60) DEF Open
<1>3. CASE meta' = meta
    <2>1. Replayed(meta, Replayed(meta, wal)) = Replayed(meta, wal)
        BY DEF Replayed
    <2>2. Replayed(meta', wal') = Replayed(meta, wal)
        BY <1>2, <1>3, <2>1
    <2>3. ReplayedBlocks(meta', wal') = ReplayedBlocks(meta, wal)
        BY <2>2 DEF ReplayedBlocks
    <2> QED BY <1>3, <2>3 DEF Marked, RecoveredState
<1>4. CASE meta' = [states |-> state', maxSeq |-> seq', rot |-> 0]
    <2>1. ReplayFrom(meta') = seq'
        BY SMTT(60), <1>4 DEF ReplayFrom
    <2>2. ASSUME NEW e \in wal' PROVE ~(e[2] > seq')
        <3>1. e \in Blocks \X (0 .. MaxSeq)
            BY <1>2, <2>2 DEF Replayed, StoreTypeOK
        <3>2. seq' >= e[2]
            BY <1>2, <2>2 DEF IsResumePoint
        <3> QED BY SMTT(60), <1>2, <3>1, <3>2, BoundsAssumption
    <2>3. Replayed(meta', wal') = {}
        BY <2>1, <2>2 DEF Replayed
    <2>4. ReplayedBlocks(meta', wal') = {}
        BY <2>3 DEF ReplayedBlocks
    <2>5. Marked(b)' <=> state'[b] \in Unsaved
        BY <1>4, <2>4 DEF Marked, RecoveredState
    <2> QED BY <1>1, <2>5
<1> QED BY <1>3, <1>4 DEF Open

\* A guest's pwrite: the promoted block is read from the active file.
LEMMA PwriteStep ==
    ASSUME IInv, TypeOK', NEW b \in Blocks, NEW v \in Content, Pwrite(b, v)
    PROVE  IInv'
<1> USE DEF IInv
<1>1. UNCHANGED <<up, seq, rotation, flushing, ff, flushFile, crc, drained, cycle, passes,
          kind, pack, flushed, skips, mem, s3, snap, seqCut, kept, wal, meta, cut, missed, lost, unput, unsynced, saveFailed,
          cycles, events>>
    BY DEF Pwrite, crcVars, passVars, manifestVars, keyVars, logVars, cutVars, lossVars
<1>2. v # None
    BY MarksAssumption DEF Content, None
<1>3. /\ up /\ state'[b] # "NOT_PRESENT" /\ active'[b] = v /\ writing'[b] = v
      /\ v \in last'[b]
    BY DEF TypeOK, Pwrite, Promoted, CacheTypeOK, HistoryTypeOK, States
<1>4. state'[b] = "SYNCING" => ~ff /\ state[b] = "SYNCING"
    BY DEF TypeOK, Pwrite, Promoted, CacheTypeOK
<1>5. \A c \in Blocks \ {b} : /\ state'[c] = state[c] /\ active'[c] = active[c]
                               /\ writing'[c] = writing[c] /\ last'[c] = last[c]
    BY DEF TypeOK, Pwrite, CacheTypeOK, HistoryTypeOK
<1>6. state'[b] = "SYNCING" => cycle = "redirty"
    BY <1>1, <1>4 DEF SyncingClaimed, Flags, Rotated, Claimed, Claiming
<1>7. Live(b)' = v /\ \A c \in Blocks \ {b} : Live(c)' = Live(c) /\ (Local(c)' <=> Local(c))
    BY <1>1, <1>3, <1>4, <1>5 DEF Live, Local
<1>8. flushed \subseteq Blocks /\ (state[b] \in Unsaved => state'[b] \in Unsaved)
      /\ (state[b] = "DIRTY" => state'[b] = "DIRTY")
    BY DEF TypeOK, PassTypeOK, Pwrite, Promoted, CacheTypeOK, Unsaved
<1>9. last[b] \subseteq last'[b]
    BY DEF TypeOK, Pwrite, HistoryTypeOK
<1>10. Flags'
    BY <1>1, <1>3 DEF Flags, Rotated, Claimed, Claiming
<1>11. SyncingClaimed'
    BY <1>1, <1>4, <1>5 DEF SyncingClaimed, Claimed, Claiming, Skipped
<1>12. ClaimKept'
    BY <1>1, <1>5, <1>8 DEF ClaimKept, Claimed, Claiming, Skipped, Unsaved
<1>13. WritingInPlace'
    BY <1>1, <1>2, <1>3, <1>5, <1>6 DEF WritingInPlace
<1>14. LocalIsLast'
    BY <1>1, <1>3, <1>5, <1>7 DEF LocalIsLast
<1>15. RemoteIsLast'
    <2> SUFFICES ASSUME NEW c \in Blocks \ lost, ~Local(c)' PROVE Merged(mem, c) \in last'[c]
        BY <1>1, <1>3 DEF RemoteIsLast, Base
    <2>1. CASE c = b
        BY <2>1, <1>1, <1>3, <1>8, <1>9 DEF Local, RemoteIsLast, Base
    <2>2. CASE c # b
        BY <2>2, <1>1, <1>3, <1>5, <1>7 DEF RemoteIsLast, Base
    <2> QED BY <2>1, <2>2
<1>16. NewestExists'
    BY <1>1 DEF NewestExists
<1>17. S3IsLast'
    <2> SUFFICES ASSUME NEW c \in Blocks \ (lost \cup unput), ~Local(c)' PROVE Merged(s3, c) \in last'[c]
        BY <1>1 DEF S3IsLast
    <2>1. CASE c = b
        BY <2>1, <1>1, <1>3, <1>8, <1>9 DEF Local, S3IsLast
    <2>2. CASE c # b
        BY <2>2, <1>1, <1>3, <1>5, <1>7 DEF S3IsLast
    <2> QED BY <2>1, <2>2
<1>18. Staged' /\ Uploaded'
    BY <1>1 DEF Staged, Fresh, Dominated, Uploaded
<1>20. Published' /\ CutKept'
    BY <1>1 DEF Published, CutKept, Claiming, Later, Skipped
<1>21. ChecksumsCurrent'
    <2>1. cycle = "claimed" => state'[b] # "SYNCING"
        BY <1>6
    <2>2. \A c \in Blocks \ {b} : Live(c)' = Live(c)
        BY <1>7
    <2> QED BY <1>1, <1>2, <1>3, <1>5, <2>1, <2>2 DEF ChecksumsCurrent
<1>22. MarksCurrent'
    BY <1>1, <1>3, <1>5, <1>8 DEF MarksCurrent, Rotated, Claimed, Claiming, Marked
<1>23. PublishedIsTheCut' /\ SkipsAreExplained'
    BY <1>1 DEF PublishedIsTheCut, SkipsAreExplained
<1> QED BY <1>10, <1>11, <1>12, <1>13, <1>14, <1>15, <1>16, <1>17, <1>18, <1>20,
            <1>21, <1>22, <1>23

\* A guest's commit: the content it wrote becomes the last one, the block DIRTY.
LEMMA CommitStep ==
    ASSUME IInv, TypeOK', NEW b \in Blocks, NEW zc \in BOOLEAN, Commit(b, zc)
    PROVE  IInv'
<1> USE DEF IInv
<1>1. UNCHANGED <<up, rotation, active, flushing, ff, flushFile, writes, drained, cycle,
          passes, kind, pack, flushed, skips, mem, s3, snap, seqCut, kept, meta, cut, missed, unsynced,
          saveFailed, cycles, events>>
    BY DEF Commit, fileVars, passVars, manifestVars, keyVars, cutVars
<1>2. /\ up /\ writing[b] # None /\ writing'[b] = None
      /\ last'[b] = {writing[b]} /\ state'[b] = "DIRTY" /\ lost' = lost \ {b} /\ unput' = unput \ {b}
    BY DEF TypeOK, Commit, CacheTypeOK, HistoryTypeOK
<1>3. \A c \in Blocks \ {b} : /\ state'[c] = state[c] /\ writing'[c] = writing[c]
                               /\ crc'[c] = crc[c] /\ last'[c] = last[c]
    BY SMTT(60) DEF TypeOK, Commit, CacheTypeOK, CrcTypeOK, HistoryTypeOK
<1>4. active[b] = writing[b] /\ (state[b] = "SYNCING" => cycle = "redirty")
    BY <1>2 DEF WritingInPlace
<1>5. ~ff \/ state[b] # "SYNCING"
    BY <1>4 DEF Flags, Rotated, Claimed, Claiming
<1>6. Live(b) = active[b] /\ Live(b)' = active[b]
      /\ \A c \in Blocks \ {b} : Live(c)' = Live(c) /\ (state'[c] \in Unsaved <=> state[c] \in Unsaved)
    BY <1>1, <1>2, <1>3, <1>5 DEF Live
<1>7. flushed \subseteq Blocks /\ "DIRTY" \in Unsaved
    BY DEF TypeOK, PassTypeOK, Unsaved
<1>8. Flags'
    BY <1>1, <1>2 DEF Flags, Rotated, Claimed, Claiming
<1>9. SyncingClaimed'
    BY <1>1, <1>2, <1>3 DEF SyncingClaimed, Claimed, Claiming, Skipped
<1>10. ClaimKept'
    BY <1>1, <1>2, <1>3, <1>7 DEF ClaimKept, Skipped
<1>11. WritingInPlace'
    BY <1>1, <1>2, <1>3 DEF WritingInPlace
<1>12. LocalIsLast'
    BY <1>1, <1>2, <1>3, <1>4, <1>6 DEF LocalIsLast, Local
<1>13. RemoteIsLast'
    BY <1>1, <1>2, <1>3, <1>6, <1>7 DEF RemoteIsLast, Local, Base
<1>14. NewestExists'
    BY <1>1 DEF NewestExists
<1>15. S3IsLast'
    BY <1>1, <1>2, <1>3, <1>6, <1>7 DEF S3IsLast, Local
<1>16. Staged' /\ Uploaded'
    BY <1>1 DEF Staged, Fresh, Dominated, Uploaded
<1>18. Published' /\ CutKept'
    BY <1>1 DEF Published, CutKept, Claiming, Later, Skipped
<1>19. ChecksumsCurrent'
    <2>1. "zc" \notin events => crc'[b] = active[b] /\ crc'[b] # None /\ crc'[b] # NoBaseline
        <3>1. "zc" \notin events => crc'[b] = writing[b]
            BY DEF TypeOK, Commit, Baseline, CrcTypeOK
        <3>2. writing[b] \in Content /\ NoBaseline \notin Content
            BY <1>2, MarksAssumption DEF TypeOK, CacheTypeOK, Content, NoBaseline
        <3> QED BY <3>1, <3>2, <1>2, <1>4
    <2> QED BY <1>1, <1>2, <1>3, <1>6, <2>1 DEF ChecksumsCurrent
<1>20. MarksCurrent'
    <2> SUFFICES ASSUME NEW c \in Blocks, c # b, Marked(c)' PROVE Marked(c)
        BY <1>1, <1>2, <1>6, <1>7 DEF MarksCurrent, Rotated, Claimed, Claiming
    <2>1. wal' \subseteq wal \cup {<<b, seq + 1>>}
        BY DEF Commit
    <2>2. c \in ReplayedBlocks(meta, wal') => c \in ReplayedBlocks(meta, wal)
        BY SMTT(60), <2>1 DEF ReplayedBlocks, Replayed
    <2> QED BY <1>1, <2>2 DEF Marked, RecoveredState
<1>21. PublishedIsTheCut' /\ SkipsAreExplained'
    BY <1>1 DEF PublishedIsTheCut, SkipsAreExplained
<1> QED BY <1>8, <1>9, <1>10, <1>11, <1>12, <1>13, <1>14, <1>15, <1>16, <1>18, <1>19,
            <1>20, <1>21

\* A pass begins: the checksums move to the pass.
LEMMA BeginPassStep ==
    ASSUME IInv, TypeOK', NEW k, NEW n, cycle \in {"idle", "passed"}, BeginPass(k, n)
    PROVE  IInv'
<1> USE DEF IInv
<1>1. UNCHANGED <<up, state, seq, rotation, active, flushing, ff, writing, writes, mem, s3,
          kept, wal, meta, last, lost, unput, unsynced, saveFailed, cycles, events>>
    BY DEF BeginPass, writeVars, logVars, lossVars
<1>2. /\ up /\ cycles < MaxCycles /\ cycle' = "drained" /\ ~flushFile' /\ snap' = NoSnapshot
      /\ pack' = << >> /\ flushed' = {} /\ skips' = {}
    BY DEF BeginPass
<1>3. \A c \in Blocks : drained'[c] = crc[c] /\ crc'[c] = None
    BY DEF BeginPass, Each
<1>4. \A c \in Blocks : state[c] # "SYNCING"
    BY DEF SyncingClaimed, Claimed, Claiming
<1>5. Flags'
    BY <1>1, <1>2 DEF Flags, Rotated, Claimed, Claiming
<1>6. SyncingClaimed'
    BY <1>1, <1>4 DEF SyncingClaimed
<1>7. ClaimKept' /\ Staged' /\ Uploaded'
    BY <1>1, <1>2 DEF ClaimKept, Claimed, Claiming, Skipped, Unsaved, Staged, Fresh, Dominated, Uploaded
<1>8. WritingInPlace'
    BY <1>1, <1>2, <1>4 DEF WritingInPlace
<1>9. LocalIsLast'
    BY <1>1 DEF LocalIsLast, Local, Live, Marked
<1>10. RemoteIsLast'
    BY <1>1 DEF RemoteIsLast, Local, Base, Marked
<1>11. NewestExists'
    BY <1>1 DEF NewestExists
<1>12. S3IsLast'
    BY <1>1 DEF S3IsLast, Local, Marked
<1>13. Published'
    <2>1. cycle # "put" /\ cycle' # "put"
        BY <1>2
    <2> QED BY <1>1, <1>2, <2>1 DEF Published
<1>14. CutKept'
    BY <1>1, <1>2 DEF CutKept, Claiming, Later, Skipped
<1>15. ChecksumsCurrent'
    <2>1. NoBaseline # None
        BY DEF NoBaseline, None
    <2>2. ASSUME "zc" \notin events, NEW c \in Blocks
          PROVE  /\ crc'[c] = None /\ crc'[c] # NoBaseline /\ drained'[c] # NoBaseline
                 /\ writing[c] = None /\ state[c] = "DIRTY" => drained'[c] \in {None, active[c]}
        <3>1. crc[c] # NoBaseline /\ drained'[c] = crc[c] /\ crc'[c] = None
            BY <1>3, <2>2 DEF ChecksumsCurrent
        <3>2. ASSUME writing[c] = None, state[c] = "DIRTY" PROVE crc[c] \in {None, active[c]}
            <4>1. crc[c] # None => crc[c] = Live(c)
                BY <2>2, <3>2 DEF ChecksumsCurrent, Unsaved
            <4> QED BY <3>2, <4>1 DEF Live
        <3> QED BY <2>1, <3>1, <3>2
    <2>3. cycle' = "drained"
        BY <1>2
    <2> QED BY <1>1, <2>2, <2>3 DEF ChecksumsCurrent
<1>16. MarksCurrent'
    BY <1>1, <1>2 DEF MarksCurrent, Rotated, Claimed, Claiming, Marked
<1>17. PublishedIsTheCut'
    BY <1>2, MergedEmpty DEF PublishedIsTheCut, NoSnapshot
<1>18. SkipsAreExplained'
    BY <1>2 DEF SkipsAreExplained
<1> QED BY <1>5, <1>6, <1>7, <1>8, <1>9, <1>10, <1>11, <1>12, <1>13, <1>14, <1>15, <1>16,
            <1>17, <1>18

\* A flush ends without publishing: RotateError, EndFlush and PublishError.
EndsUnpublished ==
    /\ cycle \in {"drained", "passed"} /\ EndsFlush
    /\ UNCHANGED <<up, state, seq, rotation, fileVars, writeVars, crc, mem, s3, snap, kept,
                   logVars, last, lossVars, cycles, events>>

\* Such an end drops only the pass's own bookkeeping, and no block is SYNCING.
LEMMA EndsFlushStep ==
    ASSUME IInv, TypeOK', EndsUnpublished
    PROVE  IInv'
<1> USE DEF IInv
<1>1. UNCHANGED <<up, state, seq, rotation, active, flushing, ff, flushFile, writing, writes,
          crc, mem, s3, snap, kept, wal, meta, last, lost, unput, unsynced,
          saveFailed, cycles, events>>
    BY DEF EndsUnpublished, fileVars, writeVars, logVars, lossVars
<1>2. /\ cycle' = "idle" /\ pack' = << >> /\ flushed' = {} /\ skips' = {}
      /\ \A c \in Blocks : drained'[c] = None /\ state[c] # "SYNCING"
    BY DEF EndsUnpublished, EndsFlush, Each, SyncingClaimed, Claimed, Claiming
<1>3. up /\ ~ff /\ cycle \in {"drained", "passed"}
    BY DEF EndsUnpublished, Flags, Rotated, Claimed, Claiming
<1>4. Flags'
    BY <1>1, <1>2, <1>3 DEF Flags, Rotated, Claimed, Claiming
<1>5. SyncingClaimed'
    BY <1>1, <1>2 DEF SyncingClaimed
<1>6. ClaimKept' /\ Staged' /\ Uploaded'
    BY <1>1, <1>2 DEF ClaimKept, Claimed, Claiming, Skipped, Unsaved, Staged, Fresh, Dominated, Uploaded
<1>7. WritingInPlace'
    BY <1>1, <1>2 DEF WritingInPlace
<1>8. LocalIsLast'
    BY <1>1 DEF LocalIsLast, Local, Live, Marked
<1>9. RemoteIsLast'
    BY <1>1 DEF RemoteIsLast, Local, Base, Marked
<1>10. NewestExists'
    BY <1>1 DEF NewestExists
<1>11. S3IsLast'
    BY <1>1 DEF S3IsLast, Local, Marked
<1>12. Published'
    BY <1>1, <1>2, <1>3 DEF Published
<1>13. CutKept'
    BY <1>1, <1>2 DEF CutKept, Claiming, Later, Skipped
<1>14. ChecksumsCurrent'
    <2>1. NoBaseline # None
        BY DEF NoBaseline, None
    <2> QED BY <1>1, <1>2, <2>1 DEF ChecksumsCurrent, Live
<1>15. MarksCurrent'
    BY <1>1, <1>2, <1>3 DEF MarksCurrent, Rotated, Claimed, Claiming, Marked
<1>16. PublishedIsTheCut' /\ SkipsAreExplained'
    BY <1>1, <1>2 DEF PublishedIsTheCut, SkipsAreExplained
<1> QED BY <1>4, <1>5, <1>6, <1>7, <1>8, <1>9, <1>10, <1>11, <1>12, <1>13, <1>14, <1>15,
            <1>16

\* The rotation: every local block is claimed and read from the flushing file.
LEMMA RotateStep ==
    ASSUME IInv, TypeOK', Rotate
    PROVE  IInv'
<1> USE DEF IInv
<1>1. UNCHANGED <<up, seq, writing, writes, crc, drained, passes, kind, pack, skips, mem, s3,
          snap, seqCut, kept, wal, meta, last, lost, unput, unsynced, saveFailed, events>>
    BY DEF Rotate, writeVars, crcVars, manifestVars, keyVars, logVars, lossVars
<1>2. /\ cycle = "drained" /\ flushing' = active /\ ff' /\ flushFile' /\ cut' = last /\ missed' = lost
      /\ cycle' = IF flushed' = {} THEN "cleanup" ELSE "claimed"
    BY DEF Rotate
<1>3. up /\ skips = {} /\ pack = << >>
    BY <1>2 DEF Flags
<1>4. \A c \in Blocks : writing[c] = None /\ state[c] \in {"DIRTY", "NOT_PRESENT"}
    BY <1>2 DEF TypeOK, Rotate, Gate, WritingInPlace, SyncingClaimed, Claimed, Claiming, CacheTypeOK, States
<1>5. flushed' = {c \in Blocks : state[c] = "DIRTY"}
    BY DEF Rotate
<1>6. \A c \in Blocks : state'[c] = IF c \in flushed' THEN "SYNCING" ELSE "NOT_PRESENT"
    BY <1>4, <1>5 DEF Rotate
<1>7. \A c \in Blocks : /\ Local(c) <=> c \in flushed'
                        /\ Local(c)' <=> c \in flushed'
                        /\ c \in flushed' => Live(c) = active[c] /\ Live(c)' = active[c]
    BY <1>1, <1>2, <1>3, <1>4, <1>5, <1>6 DEF Local, Live, Unsaved
<1>8. Flags'
    <2>1. cycle' \in {"cleanup", "claimed"}
        BY <1>2
    <2> QED BY <1>1, <1>2, <1>3, <2>1 DEF Flags, Rotated, Claimed, Claiming
<1>9. SyncingClaimed'
    BY <1>2, <1>5, <1>6 DEF SyncingClaimed, Claimed, Claiming
<1>10. ClaimKept'
    BY <1>1, <1>3, <1>5, <1>6 DEF ClaimKept, Skipped, Unsaved
<1>11. WritingInPlace'
    BY <1>1, <1>3, <1>4, <1>6 DEF WritingInPlace
<1>12. LocalIsLast'
    BY <1>1, <1>7 DEF LocalIsLast
<1>13. RemoteIsLast'
    BY <1>1, <1>7 DEF RemoteIsLast, Base
<1>14. NewestExists'
    BY <1>1 DEF NewestExists
<1>15. S3IsLast'
    BY <1>1, <1>7 DEF S3IsLast
<1>18. Staged' /\ Uploaded'
    BY <1>2 DEF Staged, Uploaded
<1>19. Published'
    <2>1. cycle # "put" /\ cycle' # "put"
        BY <1>2
    <2> QED BY <1>1, <2>1 DEF Published
<1>20. CutKept'
    <2>1. \A c \in Blocks \ missed' : IF c \in flushed' THEN flushing'[c] \in cut'[c] ELSE Merged(mem, c) \in cut'[c]
        BY <1>2, <1>3, <1>7 DEF LocalIsLast, RemoteIsLast, Base
    <2>2. cycle' \in Later => flushed' = {}
        BY <1>2 DEF Later
    <2> QED BY <1>1, <1>3, <2>1, <2>2 DEF CutKept, Skipped
<1>21. ChecksumsCurrent'
    <2>1. "zc" \notin events => \A c \in Blocks : state'[c] \in Unsaved /\ crc[c] # None => crc[c] = Live(c)'
        <3>1. \A c \in Blocks : state'[c] \in Unsaved => state[c] \in Unsaved /\ Live(c)' = Live(c)
            BY <1>3, <1>6, <1>7 DEF Local, Unsaved
        <3> QED BY <3>1, <1>4 DEF ChecksumsCurrent
    <2>2. "zc" \notin events => \A c \in flushed' : crc[c] = None => drained[c] \in {None, flushing'[c]}
        BY <1>2, <1>4, <1>5 DEF ChecksumsCurrent
    <2> QED BY <1>1, <1>2, <2>1, <2>2 DEF ChecksumsCurrent
<1>22. MarksCurrent'
    <2>1. cycle' \in Rotated
        BY <1>2 DEF Rotated, Claimed, Claiming
    <2>2. \A c \in Blocks : state[c] \in Unsaved => state'[c] \in Unsaved
        BY <1>1, <1>3, <1>7 DEF Local
    <2> QED BY <1>1, <1>2, <1>3, <2>1, <2>2 DEF MarksCurrent, Marked
<1>23. PublishedIsTheCut' /\ SkipsAreExplained'
    BY <1>1 DEF PublishedIsTheCut, SkipsAreExplained
<1> QED BY <1>8, <1>9, <1>10, <1>11, <1>12, <1>13, <1>14, <1>15, <1>18, <1>19,
            <1>20, <1>21, <1>22, <1>23

\* compute_flush_batch: only a block written since the checksums were taken is skipped.
LEMMA ComputeStep ==
    ASSUME IInv, TypeOK', Compute
    PROVE  IInv'
<1> USE DEF IInv
<1>1. UNCHANGED <<up, state, seq, rotation, active, flushing, ff, flushFile, writing, writes,
          crc, drained, passes, kind, pack, mem, s3, snap, seqCut, kept, wal, meta, last, cut,
          missed, lost, unput, unsynced, saveFailed, cycles, events>>
    BY DEF Compute, fileVars, writeVars, crcVars, manifestVars, keyVars, logVars, cutVars, lossVars
<1>2. cycle = "claimed" /\ cycle' = "computed" /\ flushed' = {c \in flushed : ~Mismatched(c)}
    BY DEF Compute
<1>3. skips = {} /\ Skipped = {} /\ pack = << >>
    BY <1>2 DEF Flags, Skipped
<1>4. skips' = {<<c, Explained(c)>> : c \in {d \in flushed : Mismatched(d)}}
    BY DEF Compute
<1>5. Skipped' = {c \in flushed : Mismatched(c)}
    <2> DEFINE M == {c \in flushed : Mismatched(c)}
                E(c) == Explained(c)
    <2>1. skips' = {<<c, E(c)>> : c \in M}
        BY <1>4
    <2> HIDE DEF M, E
    <2>2. ASSUME NEW c \in M PROVE c \in Skipped'
        <3>1. <<c, E(c)>> \in skips' /\ <<c, E(c)>>[1] = c
            BY <2>1
        <3> QED BY <3>1 DEF Skipped
    <2>3. ASSUME NEW s \in skips' PROVE s[1] \in M
        BY SMTT(60), <2>1
    <2>4. \A x \in Skipped' : x \in M
        BY <2>3 DEF Skipped
    <2>5. Skipped' = M
        BY <2>2, <2>4
    <2> QED BY <2>5 DEF M
<1>6. flushed' \cup Skipped' = flushed /\ flushed' \subseteq flushed /\ flushed' \cap Skipped' = {}
    BY <1>2, <1>5
<1>7. Flags'
    BY <1>1, <1>2, <1>3 DEF Flags, Rotated, Claimed, Claiming
<1>8. SyncingClaimed'
    BY <1>1, <1>2, <1>3, <1>6 DEF SyncingClaimed, Claimed, Claiming
<1>9. ClaimKept'
    BY <1>1, <1>2, <1>3, <1>6 DEF ClaimKept, Claimed, Claiming
<1>10. WritingInPlace'
    BY <1>1, <1>2 DEF WritingInPlace
<1>11. LocalIsLast'
    BY <1>1 DEF LocalIsLast, Local, Live, Marked
<1>12. RemoteIsLast'
    BY <1>1 DEF RemoteIsLast, Local, Base, Marked
<1>13. NewestExists'
    BY <1>1 DEF NewestExists
<1>14. S3IsLast'
    BY <1>1 DEF S3IsLast, Local, Marked
<1>17. Staged' /\ Uploaded'
    BY <1>2 DEF Staged, Uploaded
<1>18. Published'
    BY <1>1, <1>2 DEF Published
<1>19. CutKept'
    BY <1>1, <1>2, <1>3, <1>6 DEF CutKept, Claiming, Later
<1>20. ChecksumsCurrent'
    BY <1>1, <1>2 DEF ChecksumsCurrent, Live, Unsaved
<1>21. MarksCurrent'
    BY <1>1, <1>2 DEF MarksCurrent, Rotated, Claimed, Claiming, Marked
<1>22. PublishedIsTheCut'
    BY <1>1 DEF PublishedIsTheCut
<1>23. SkipsAreExplained'
    <2>1. ASSUME "zc" \notin events, NEW c \in flushed, Mismatched(c) PROVE Explained(c)
        <3>1. c \in Blocks /\ None \notin Content
            BY MarksAssumption DEF TypeOK, PassTypeOK, Content, None
        <3>2. drained[c] \notin {None, flushing[c]}
            BY <3>1, <2>1 DEF Mismatched
        <3> QED BY <1>2, <2>1, <3>1, <3>2 DEF ChecksumsCurrent, Explained
    <2>2. ASSUME "zc" \notin events, NEW s \in skips' PROVE s[2]
        <3>1. PICK c \in flushed : Mismatched(c) /\ s = <<c, Explained(c)>>
            BY <2>2, <1>4
        <3>2. Explained(c)
            BY <2>1, <2>2, <3>1
        <3>3. s[2] = Explained(c)
            BY <3>1
        <3> QED BY <3>2, <3>3
    <2> QED BY <1>1, <2>2 DEF SkipsAreExplained
<1> QED BY <1>7, <1>8, <1>9, <1>10, <1>11, <1>12, <1>13, <1>14, <1>17, <1>18,
            <1>19, <1>20, <1>21, <1>22, <1>23

\* The skipped blocks go back to the active file, the others make up the pack,
\* or are missed if the manifest names that pack already.
LEMMA StageStep ==
    ASSUME IInv, TypeOK', Stage
    PROVE  IInv'
<1> USE DEF IInv
<1>1. UNCHANGED <<up, seq, rotation, flushing, ff, flushFile, writing, writes, crc, drained,
          passes, kind, flushed, skips, mem, s3, snap, seqCut, kept, wal, meta, last, cut, lost,
          unput, unsynced, saveFailed, cycles, events>>
    BY DEF Stage, writeVars, crcVars, manifestVars, keyVars, logVars, lossVars
<1>2. cycle = "computed" /\ cycle' = "upload" /\ (\A c \in Blocks : writing[c] = None)
    BY DEF Stage, Gate
<1>3. up /\ ff
    BY <1>2 DEF Flags, Rotated, Claimed, Claiming
<1>4. \A c \in Blocks : /\ active'[c] = IF c \in Skipped /\ state[c] = "SYNCING" THEN flushing[c] ELSE active[c]
                        /\ state'[c] = IF c \in Skipped THEN "DIRTY" ELSE state[c]
    BY DEF Stage, Skipped
<1>5. /\ flushed \subseteq Blocks /\ flushed \cap Skipped = {}
      /\ \A c \in flushed \cup Skipped : c \in Blocks /\ state[c] \in Unsaved
    BY <1>2 DEF TypeOK, ClaimKept, Claimed, Claiming, PassTypeOK
<1>6. \A c \in Blocks : Local(c)' <=> Local(c)
    BY <1>1, <1>3, <1>4, <1>5 DEF Local, Unsaved
<1>7. \A c \in Blocks : Live(c)' = Live(c)
    BY <1>1, <1>3, <1>4 DEF Live
<1>8. Skipped' = Skipped
    BY <1>1 DEF Skipped
<1>9. Flags'
    BY <1>1, <1>2 DEF Flags, Rotated, Claimed, Claiming
<1>10. SyncingClaimed'
    BY <1>1, <1>2, <1>4, <1>8 DEF SyncingClaimed, Claimed, Claiming
<1>11. ClaimKept'
    BY <1>1, <1>4, <1>5, <1>8 DEF ClaimKept, Unsaved
<1>12. WritingInPlace'
    BY <1>1, <1>2, <1>3, <1>4 DEF WritingInPlace
<1>13. LocalIsLast'
    BY <1>1, <1>6, <1>7 DEF LocalIsLast
<1>14. RemoteIsLast'
    BY <1>1, <1>6 DEF RemoteIsLast, Base
<1>15. NewestExists'
    BY <1>1 DEF NewestExists
<1>16. S3IsLast'
    BY <1>1, <1>6 DEF S3IsLast
<1>19. Staged' /\ missed \subseteq missed'
    <2> DEFINE new == [c \in Fresh |-> flushing[c]]
    <2>1. IF \E i \in DOMAIN mem : mem[i] = new
          THEN pack' = << >> /\ missed' = missed \cup Fresh
          ELSE pack' = (IF Fresh = {} THEN << >> ELSE <<new>>) /\ missed' = missed
        BY DEF Stage, Fresh
    <2>2. Fresh' = Fresh /\ flushing' = flushing
        BY <1>1 DEF Fresh, Dominated
    <2> HIDE DEF new
    <2>3. /\ (pack' = << >> /\ Fresh \subseteq missed') \/ pack' = <<new>>
          /\ missed \subseteq missed'
        BY <2>1
    <2> QED BY <2>2, <2>3 DEF Staged, new
<1>20. Uploaded'
    BY <1>2 DEF Uploaded
<1>21. Published'
    BY <1>1, <1>2 DEF Published
<1>22. CutKept'
    BY <1>1, <1>2, <1>8, <1>19 DEF CutKept, Claiming, Later
<1>23. ChecksumsCurrent'
    <2>1. \A c \in Blocks : state'[c] \in Unsaved <=> state[c] \in Unsaved
        BY <1>4, <1>5 DEF Unsaved
    <2> QED BY <1>1, <1>2, <1>7, <2>1 DEF ChecksumsCurrent
<1>24. MarksCurrent'
    <2>1. \A c \in Blocks : state[c] \in Unsaved => state'[c] \in Unsaved
        BY <1>4 DEF Unsaved
    <2> QED BY <1>1, <1>2, <1>3, <2>1 DEF MarksCurrent, Rotated, Claimed, Claiming, Marked
<1>25. PublishedIsTheCut' /\ SkipsAreExplained'
    BY <1>1 DEF PublishedIsTheCut, SkipsAreExplained
<1> QED BY <1>9, <1>10, <1>11, <1>12, <1>13, <1>14, <1>15, <1>16, <1>19, <1>20,
            <1>21, <1>22, <1>23, <1>24, <1>25

\* The packs are uploaded: the manifest in memory gives every claimed block its
\* claimed content, and the other blocks what they had.
LEMMA UploadStep ==
    ASSUME IInv, TypeOK', Upload
    PROVE  IInv'
<1> USE DEF IInv
<1>1. UNCHANGED <<up, state, seq, rotation, active, flushing, ff, flushFile, writing, writes,
          crc, drained, passes, kind, pack, flushed, skips, s3, snap, seqCut, kept, wal, meta,
          last, cut, missed, lost, unput, unsynced, saveFailed, cycles, events>>
    BY DEF Upload, fileVars, writeVars, crcVars, passVars, keyVars, logVars, cutVars, lossVars
<1>2. /\ cycle = "upload" /\ mem' = mem \o pack
      /\ cycle' = IF pack = << >> THEN "evict" ELSE "put"
    BY DEF Upload
<1>3. cycle' \in {"put", "evict"} /\ up /\ ff
    BY <1>2 DEF Flags, Rotated, Claimed, Claiming
<1>4. /\ flushed \subseteq Blocks /\ Skipped' = Skipped
      /\ \A c \in flushed \cup Skipped : c \in Blocks /\ state[c] \in Unsaved
    BY <1>1, <1>2 DEF TypeOK, ClaimKept, Claimed, Claiming, PassTypeOK, Skipped
<1>5. mem \in Manifest /\ Fresh \subseteq flushed /\ \A c \in flushed \ Fresh : Merged(mem, c) = flushing[c]
    BY DEF TypeOK, StoreTypeOK, Fresh, Dominated, Merged
<1>6. \/ pack = << >> /\ mem' = mem /\ Fresh \subseteq missed
      \/ \E p \in Packs : /\ pack = <<p>> /\ mem' = mem \o <<p>>
                            /\ DOMAIN p = Fresh /\ \A c \in Fresh : p[c] = flushing[c]
    <2> DEFINE p == [c \in Fresh |-> flushing[c]]
    <2>1. (pack = << >> /\ Fresh \subseteq missed) \/ pack = <<p>>
        BY <1>2 DEF Staged
    <2>2. CASE pack = << >> /\ Fresh \subseteq missed
        BY SMTT(60), <1>2, <1>5, <2>2 DEF Manifest
    <2>3. CASE pack = <<p>>
        <3>1. Fresh \in SUBSET Blocks /\ p \in [Fresh -> Content]
            BY <1>4, <1>5 DEF TypeOK, CacheTypeOK
        <3>2. p \in Packs
            BY <3>1 DEF Packs
        <3>3. DOMAIN p = Fresh /\ \A c \in Fresh : p[c] = flushing[c]
            OBVIOUS
        <3>4. pack = <<p>> /\ mem' = mem \o <<p>>
            BY <1>2, <2>3
        <3> HIDE DEF p
        <3> QED BY <3>2, <3>3, <3>4
    <2> QED BY <2>1, <2>2, <2>3
<1>7. \A c \in Blocks : c \notin flushed \cap missed => Merged(mem', c) = IF c \in flushed THEN flushing[c] ELSE Merged(mem, c)
    <2> SUFFICES ASSUME NEW c \in Blocks, c \notin flushed \cap missed
                 PROVE  Merged(mem', c) = IF c \in flushed THEN flushing[c] ELSE Merged(mem, c)
        OBVIOUS
    <2>1. CASE pack = << >> /\ mem' = mem /\ Fresh \subseteq missed
        BY <2>1, <1>5
    <2>2. ASSUME NEW p \in Packs, mem' = mem \o <<p>>, DOMAIN p = Fresh, \A d \in Fresh : p[d] = flushing[d]
          PROVE  Merged(mem', c) = IF c \in flushed THEN flushing[c] ELSE Merged(mem, c)
        <3>1. CASE c \in Fresh
            BY <3>1, <2>2, <1>5, PushHit
        <3>2. CASE c \notin Fresh
            <4>1. Merged(mem', c) = Merged(mem, c)
                <5>1. HasNewest(mem)
                    BY DEF NewestExists
                <5> QED BY <3>2, <2>2, <1>5, <5>1, PushMiss
            <4> QED BY <4>1, <3>2, <1>5
        <3> QED BY <3>1, <3>2
    <2> QED BY <1>6, <2>1, <2>2
<1>8. Flags'
    BY <1>1, <1>2, <1>3 DEF Flags, Rotated, Claimed, Claiming
<1>9. SyncingClaimed'
    BY <1>1, <1>2, <1>3 DEF SyncingClaimed, Claimed, Claiming
<1>10. ClaimKept'
    BY <1>1, <1>2, <1>4 DEF ClaimKept, Claimed, Claiming
<1>11. WritingInPlace'
    <2>1. cycle # "redirty"
        BY <1>2
    <2> QED BY <1>1, <1>3, <2>1 DEF WritingInPlace
<1>12. LocalIsLast'
    BY <1>1 DEF LocalIsLast, Local, Live, Marked
<1>13. RemoteIsLast'
    <2>1. \A c \in Blocks : ~Local(c)' => ~Local(c) /\ c \notin flushed
        BY <1>1, <1>3, <1>4 DEF Local
    <2> QED BY <1>1, <1>3, <1>7, <2>1 DEF RemoteIsLast, Base
<1>14. NewestExists'
    <2>1. HasNewest(mem) /\ HasNewest(s3)
        BY DEF NewestExists
    <2>2. HasNewest(mem')
        BY <1>5, <1>6, <2>1, PushHasNewest
    <2> QED BY <1>1, <2>1, <2>2 DEF NewestExists
<1>15. S3IsLast'
    BY <1>1 DEF S3IsLast, Local, Marked
<1>16. Staged'
    BY <1>3 DEF Staged
<1>17. Uploaded'
    BY <1>1, <1>4, <1>7 DEF Uploaded
<1>18. Published'
    <2>1. cycle' # "put" => mem' = mem
        <3>1. \A p : <<p>> # << >>
            OBVIOUS
        <3> QED BY <1>2, <1>6, <3>1
    <2> QED BY <1>1, <1>2, <2>1 DEF Published
<1>19. CutKept'
    <2>1. \A c \in Blocks \ (missed \cup Skipped) : Merged(mem', c) \in cut[c]
        BY <1>2, <1>7 DEF CutKept, Claiming
    <2>2. cycle' \notin Claiming /\ (cycle' # "put" => pack = << >>)
        BY <1>2, <1>3 DEF Claiming
    <2> QED BY <1>1, <1>4, <2>1, <2>2 DEF CutKept
<1>20. ChecksumsCurrent'
    BY <1>1, <1>3 DEF ChecksumsCurrent, Live
<1>21. MarksCurrent'
    <2>1. cycle' \in Rotated /\ cycle' # "evicted" /\ cycle # "evicted"
        BY <1>2, <1>3 DEF Rotated, Claimed
    <2> QED BY <1>1, <1>3, <2>1 DEF MarksCurrent, Marked
<1>22. PublishedIsTheCut' /\ SkipsAreExplained'
    BY <1>1 DEF PublishedIsTheCut, SkipsAreExplained
<1> QED BY <1>8, <1>9, <1>10, <1>11, <1>12, <1>13, <1>14, <1>15, <1>16, <1>17, <1>18, <1>19,
            <1>20, <1>21, <1>22

\* The manifest is in S3.
LEMMA PutManifestStep ==
    ASSUME IInv, TypeOK', PutManifest
    PROVE  IInv'
<1> USE DEF IInv
<1>1. UNCHANGED <<up, state, seq, rotation, active, flushing, ff, flushFile, writing, writes,
          crc, drained, passes, kind, pack, flushed, skips, mem, snap, seqCut, kept, wal, meta,
          last, cut, missed, lost, saveFailed, cycles, events>>
    BY DEF PutManifest, fileVars, writeVars, crcVars, passVars, keyVars, logVars, cutVars
<1>2. cycle = "put" /\ cycle' = "evict" /\ s3' = mem
    BY DEF PutManifest
<1>3. up /\ ff
    BY <1>2 DEF Flags, Rotated, Claimed, Claiming
<1>4. Flags'
    BY <1>1, <1>2 DEF Flags, Rotated, Claimed, Claiming
<1>5. SyncingClaimed'
    BY <1>1, <1>2 DEF SyncingClaimed, Claimed, Claiming, Skipped
<1>6. ClaimKept'
    BY <1>1, <1>2 DEF ClaimKept, Claimed, Claiming, Skipped, Unsaved
<1>7. WritingInPlace'
    BY <1>1, <1>2, <1>3 DEF WritingInPlace
<1>8. LocalIsLast'
    BY <1>1 DEF LocalIsLast, Local, Live, Marked
<1>9. RemoteIsLast'
    BY <1>1, <1>3 DEF RemoteIsLast, Local, Base
<1>10. NewestExists'
    BY <1>1, <1>2 DEF NewestExists
<1>11. S3IsLast'
    BY <1>1, <1>2, <1>3 DEF S3IsLast, RemoteIsLast, Local, Base
<1>12. Staged'
    BY <1>2 DEF Staged, Claiming
<1>13. Uploaded'
    BY <1>1, <1>2 DEF Uploaded
<1>14. Published'
    BY <1>1, <1>2 DEF Published
<1>15. CutKept'
    BY <1>1, <1>2 DEF CutKept, Claiming, Later, Skipped
<1>16. ChecksumsCurrent'
    BY <1>1, <1>2 DEF ChecksumsCurrent, Live, Unsaved
<1>17. MarksCurrent'
    BY <1>1, <1>2 DEF MarksCurrent, Rotated, Claimed, Claiming, Marked
<1>18. PublishedIsTheCut' /\ SkipsAreExplained'
    BY <1>1 DEF PublishedIsTheCut, SkipsAreExplained
<1> QED BY <1>4, <1>5, <1>6, <1>7, <1>8, <1>9, <1>10, <1>11, <1>12, <1>13, <1>14, <1>15,
            <1>16, <1>17, <1>18

\* A failed pass copies what is still claimed back to the active file.
LEMMA FlushFailedStep ==
    ASSUME IInv, TypeOK', FlushFailed
    PROVE  IInv'
<1> USE DEF IInv
<1>1. UNCHANGED <<up, state, seq, flushing, writing, writes, crc, drained, passes, kind, pack,
          flushed, skips, mem, s3, snap, seqCut, kept, wal, meta, last, cut, missed,
          lost, unput, saveFailed, cycles, events>>
    BY DEF FlushFailed, writeVars, crcVars, passVars, manifestVars, keyVars, logVars, cutVars
<1>2. /\ cycle' = "redirty" /\ (\A c \in Blocks : writing[c] = None) /\ ~ff' /\ ~flushFile'
      /\ cycle \in {"claimed", "upload", "put"} /\ (~unsynced' => ~unsynced /\ cycle # "put")
    BY DEF FlushFailed, Gate
<1>3. up /\ ff
    BY <1>2 DEF Flags, Rotated, Claimed, Claiming
<1>4. \A c \in Blocks : active'[c] = IF state[c] = "SYNCING" THEN flushing[c] ELSE active[c]
    BY DEF FlushFailed
<1>5. \A c \in Blocks : Live(c)' = Live(c) /\ (Local(c)' <=> Local(c))
    BY <1>1, <1>2, <1>3, <1>4 DEF Live, Local
<1>6. Flags'
    BY <1>1, <1>2, <1>3 DEF Flags, Rotated, Claimed, Claiming
<1>7. SyncingClaimed'
    BY <1>2 DEF SyncingClaimed
<1>8. ClaimKept' /\ Staged' /\ Uploaded'
    BY <1>2 DEF ClaimKept, Claimed, Claiming, Skipped, Unsaved, Staged, Fresh, Dominated, Uploaded
<1>9. WritingInPlace'
    BY <1>1, <1>2, <1>3 DEF WritingInPlace
<1>10. LocalIsLast'
    BY <1>1, <1>5 DEF LocalIsLast
<1>11. RemoteIsLast'
    BY <1>1, <1>5 DEF RemoteIsLast, Base
<1>12. NewestExists'
    BY <1>1 DEF NewestExists
<1>13. S3IsLast'
    BY <1>1, <1>5 DEF S3IsLast
<1>14. Published'
    BY <1>1, <1>2 DEF Published
<1>15. CutKept'
    BY <1>2 DEF CutKept, Claiming, Later, Skipped
<1>16. ChecksumsCurrent'
    BY <1>1, <1>2, <1>5 DEF ChecksumsCurrent
<1>17. MarksCurrent'
    <2>1. cycle # "evicted"
        BY <1>2
    <2> QED BY <1>1, <1>2, <1>3, <2>1 DEF MarksCurrent, Marked
<1>18. PublishedIsTheCut' /\ SkipsAreExplained'
    BY <1>1 DEF PublishedIsTheCut, SkipsAreExplained
<1> QED BY <1>6, <1>7, <1>8, <1>9, <1>10, <1>11, <1>12, <1>13, <1>14, <1>15, <1>16, <1>17,
            <1>18

\* ... and marks it DIRTY again.
LEMMA RedirtyStep ==
    ASSUME IInv, TypeOK', Redirty
    PROVE  IInv'
<1> USE DEF IInv
<1>1. UNCHANGED <<up, seq, rotation, active, flushing, ff, flushFile, writing, writes, crc,
          mem, s3, snap, kept, wal, meta, last, lost, unput, unsynced, saveFailed, cycles, events>>
    BY DEF Redirty, fileVars, writeVars, logVars, lossVars
<1>2. cycle = "redirty" /\ cycle' = "idle" /\ pack' = << >> /\ flushed' = {} /\ skips' = {}
    BY DEF Redirty, EndsFlush
<1>3. up /\ ~ff
    BY <1>2 DEF Flags, Rotated, Claimed, Claiming
<1>4. \A c \in Blocks : /\ state'[c] = IF state[c] = "SYNCING" THEN "DIRTY" ELSE state[c]
                        /\ drained'[c] = None
    BY DEF Redirty, EndsFlush, Each
<1>5. \A c \in Blocks : /\ Live(c)' = Live(c) /\ (Local(c)' <=> Local(c))
                        /\ state'[c] \in Unsaved <=> state[c] \in Unsaved
    BY <1>1, <1>3, <1>4 DEF Live, Local, Unsaved
<1>6. Flags'
    BY <1>1, <1>2, <1>3 DEF Flags, Rotated, Claimed, Claiming
<1>7. SyncingClaimed'
    BY <1>4 DEF SyncingClaimed
<1>8. ClaimKept' /\ Staged' /\ Uploaded'
    BY <1>2 DEF ClaimKept, Claimed, Claiming, Skipped, Unsaved, Staged, Fresh, Dominated, Uploaded
<1>9. WritingInPlace'
    BY <1>1, <1>3, <1>4 DEF WritingInPlace
<1>10. LocalIsLast'
    BY <1>1, <1>5 DEF LocalIsLast
<1>11. RemoteIsLast'
    BY <1>1, <1>5 DEF RemoteIsLast, Base
<1>12. NewestExists'
    BY <1>1 DEF NewestExists
<1>13. S3IsLast'
    BY <1>1, <1>5 DEF S3IsLast
<1>14. Published'
    BY <1>1, <1>2 DEF Published
<1>15. CutKept'
    BY <1>2 DEF CutKept, Claiming, Later, Skipped
<1>16. ChecksumsCurrent'
    <2>1. NoBaseline # None
        BY DEF NoBaseline, None
    <2> QED BY <1>1, <1>2, <1>4, <1>5, <2>1 DEF ChecksumsCurrent
<1>17. MarksCurrent'
    <2>1. cycle \notin Rotated \cup {"evicted", "unlink"}
        BY <1>2 DEF Rotated, Claimed, Claiming
    <2> QED BY <1>1, <1>3, <1>5, <2>1 DEF MarksCurrent, Marked
<1>18. PublishedIsTheCut' /\ SkipsAreExplained'
    BY <1>1, <1>2 DEF PublishedIsTheCut, SkipsAreExplained
<1> QED BY <1>6, <1>7, <1>8, <1>9, <1>10, <1>11, <1>12, <1>13, <1>14, <1>15, <1>16, <1>17,
            <1>18

\* The eviction: the manifest gives every block that loses its local copy.
LEMMA EvictStep ==
    ASSUME IInv, TypeOK', Evict
    PROVE  IInv'
<1> USE DEF IInv
<1>1. UNCHANGED <<up, seq, rotation, active, flushing, ff, flushFile, writing, writes, crc,
          drained, passes, kind, pack, flushed, skips, mem, s3, snap, seqCut, kept, wal, meta,
          last, cut, missed, unsynced, saveFailed, cycles, events>>
    BY DEF Evict, EvictedIs, fileVars, writeVars, crcVars, passVars, manifestVars, keyVars, logVars, cutVars
<1>2. cycle = "evict" /\ cycle' = "evicted" /\ (\A c \in Blocks : writing[c] = None)
    BY DEF Evict, Gate
<1>3. up /\ ff
    BY <1>2 DEF Flags, Rotated, Claimed, Claiming
<1>4. \A c \in Blocks : state[c] = "SYNCING" => c \in flushed
    BY <1>2 DEF SyncingClaimed
<1>5. \A c \in Blocks : state'[c] = IF state[c] = "SYNCING" THEN "NOT_PRESENT" ELSE state[c]
    BY <1>4 DEF Evict
<1>6. \A c \in Blocks : /\ Local(c)' => Local(c) /\ Live(c)' = Live(c)
                        /\ ~Local(c)' /\ Local(c) => c \in flushed /\ Live(c) = flushing[c]
    BY <1>1, <1>3, <1>4, <1>5 DEF Local, Live, Unsaved
<1>20. /\ lost \subseteq lost' /\ unput \subseteq unput'
       /\ \A c \in Blocks \ lost' : ~Local(c)' /\ Local(c) => c \notin missed
       /\ unsynced => \A c \in Blocks \ unput' : ~Local(c)' => ~Local(c)
    <2>1. \A c \in Blocks : ~Local(c)' /\ Local(c) => c \in {d \in flushed : state[d] = "SYNCING"}
        BY <1>1, <1>3, <1>4, <1>5 DEF Local, Unsaved
    <2> QED BY <2>1 DEF Evict, EvictedIs
<1>7. Flags'
    BY <1>1, <1>2 DEF Flags, Rotated, Claimed, Claiming
<1>8. SyncingClaimed'
    BY <1>5 DEF SyncingClaimed
<1>9. ClaimKept' /\ Staged' /\ Uploaded'
    BY <1>2 DEF ClaimKept, Claimed, Claiming, Skipped, Unsaved, Staged, Fresh, Dominated, Uploaded
<1>10. WritingInPlace'
    BY <1>1, <1>2, <1>3, <1>5 DEF WritingInPlace
<1>11. LocalIsLast'
    BY <1>1, <1>6, <1>20 DEF LocalIsLast
<1>12. RemoteIsLast'
    <2> SUFFICES ASSUME NEW c \in Blocks \ lost', ~Local(c)' PROVE Merged(mem, c) \in last[c]
        BY <1>1, <1>3 DEF RemoteIsLast, Base
    <2>1. CASE Local(c)
        BY <1>2, <1>6, <1>20, <2>1 DEF Uploaded, LocalIsLast
    <2>2. CASE ~Local(c)
        BY <1>3, <1>20, <2>2 DEF RemoteIsLast, Base
    <2> QED BY <2>1, <2>2
<1>13. NewestExists'
    BY <1>1 DEF NewestExists
<1>14. S3IsLast'
    <2>1. CASE unsynced
        BY <1>1, <1>3, <1>20, <2>1 DEF S3IsLast
    <2>2. CASE ~unsynced
        <3>1. s3 = mem
            BY <1>2, <1>3, <2>2 DEF Published
        <3> QED BY <1>1, <1>3, <1>12, <3>1 DEF S3IsLast, RemoteIsLast, Base
    <2> QED BY <2>1, <2>2
<1>15. Published'
    <2>1. cycle # "put" /\ cycle' # "put"
        BY <1>2
    <2> QED BY <1>1, <2>1 DEF Published
<1>16. CutKept'
    BY <1>1, <1>2 DEF CutKept, Claiming, Later, Skipped
<1>17. ChecksumsCurrent'
    <2>1. \A c \in Blocks : state'[c] \in Unsaved => state[c] \in Unsaved /\ Live(c)' = Live(c)
        BY <1>1, <1>3, <1>6 DEF Local
    <2> QED BY <1>1, <1>2, <2>1 DEF ChecksumsCurrent
<1>18. MarksCurrent'
    BY <1>1, <1>2 DEF MarksCurrent, Rotated, Claimed, Claiming, Marked
<1>19. PublishedIsTheCut' /\ SkipsAreExplained'
    BY <1>1 DEF PublishedIsTheCut, SkipsAreExplained
<1> QED BY <1>7, <1>8, <1>9, <1>10, <1>11, <1>12, <1>13, <1>14, <1>15, <1>16, <1>17, <1>18,
            <1>19

\* The checkpoint of the pass marks what is still local.
LEMMA CycleCheckpointStep ==
    ASSUME IInv, TypeOK', CycleCheckpoint
    PROVE  IInv'
<1> USE DEF IInv
<1>1. UNCHANGED <<up, state, seq, rotation, active, flushing, ff, flushFile, writing, writes,
          crc, drained, passes, kind, pack, flushed, skips, mem, s3, snap, seqCut, kept, last,
          cut, missed, lost, unput, unsynced, cycles, events>>
    BY DEF CycleCheckpoint, fileVars, writeVars, crcVars, passVars, manifestVars, keyVars, cutVars
<1>2. cycle = "evicted" /\ cycle' \in {"cleanup", "keep"} /\ up
    BY DEF CycleCheckpoint, Flags
<1>3. cycle' = "keep" => saveFailed'
    BY DEF CycleCheckpoint
<1>4. cycle' = "keep" \/ (meta' = Saved /\ wal' = {})
    BY DEF CycleCheckpoint
<1>5. \A c \in Blocks : state[c] # "SYNCING"
    BY <1>2 DEF SyncingClaimed, Claimed, Claiming
<1>6. Flags'
    BY <1>1, <1>2, <1>3 DEF Flags, Rotated, Claimed, Claiming
<1>7. SyncingClaimed'
    BY <1>1, <1>5 DEF SyncingClaimed
<1>8. ClaimKept' /\ Staged' /\ Uploaded'
    BY <1>2 DEF ClaimKept, Claimed, Claiming, Skipped, Unsaved, Staged, Fresh, Dominated, Uploaded
<1>9. WritingInPlace'
    BY <1>1, <1>2, <1>5 DEF WritingInPlace
<1>10. LocalIsLast'
    BY <1>1, <1>2 DEF LocalIsLast, Local, Live
<1>11. RemoteIsLast'
    BY <1>1, <1>2 DEF RemoteIsLast, Local, Base
<1>12. NewestExists'
    BY <1>1 DEF NewestExists
<1>13. S3IsLast'
    BY <1>1, <1>2 DEF S3IsLast, Local
<1>14. Published'
    <2>1. cycle # "put" /\ cycle' # "put"
        BY <1>2
    <2> QED BY <1>1, <2>1 DEF Published
<1>15. CutKept'
    BY <1>1, <1>2 DEF CutKept, Claiming, Later, Skipped
<1>16. ChecksumsCurrent'
    BY <1>1, <1>2 DEF ChecksumsCurrent, Live, Unsaved
<1>17. MarksCurrent'
    <2> SUFFICES ASSUME ~saveFailed' PROVE MarksCurrent'
        BY DEF MarksCurrent
    <2>2. meta' = Saved /\ wal' = {}
        BY <1>3, <1>4
    <2>3. \A c \in Blocks : Marked(c)' => state[c] \in Unsaved
        BY <2>2, SavedMarks
    <2>4. cycle' \in Rotated
        BY <1>2 DEF Rotated
    <2> QED BY <1>1, <2>3, <2>4 DEF MarksCurrent
<1>18. PublishedIsTheCut' /\ SkipsAreExplained'
    BY <1>1 DEF PublishedIsTheCut, SkipsAreExplained
<1> QED BY <1>6, <1>7, <1>8, <1>9, <1>10, <1>11, <1>12, <1>13, <1>14, <1>15, <1>16, <1>17,
            <1>18

\* ... and so does the checkpoint of the timer.
LEMMA TimerCheckpointStep ==
    ASSUME IInv, TypeOK', TimerCheckpoint
    PROVE  IInv'
<1> USE DEF IInv
<1>1. UNCHANGED <<up, state, seq, rotation, active, flushing, ff, flushFile, writing, writes,
          crc, drained, cycle, passes, kind, pack, flushed, skips, mem, s3, snap, seqCut, kept,
          last, cut, missed, lost, unput, unsynced, saveFailed, cycles, events>>
    BY DEF TimerCheckpoint, fileVars, writeVars, crcVars, passVars, manifestVars, keyVars, cutVars, lossVars
<1>2. up
    BY DEF TimerCheckpoint
<1>3. \A c \in Blocks : Marked(c)' => state[c] \in Unsaved
    BY SavedMarks DEF TimerCheckpoint
<1>4. Flags'
    BY <1>1, <1>2 DEF Flags, Rotated, Claimed, Claiming
<1>5. SyncingClaimed'
    BY <1>1 DEF SyncingClaimed, Claimed, Claiming, Skipped
<1>6. ClaimKept'
    BY <1>1 DEF ClaimKept, Claimed, Claiming, Skipped, Unsaved
<1>7. WritingInPlace'
    BY <1>1 DEF WritingInPlace
<1>8. LocalIsLast'
    BY <1>1, <1>2 DEF LocalIsLast, Local, Live
<1>9. RemoteIsLast'
    BY <1>1, <1>2 DEF RemoteIsLast, Local, Base
<1>10. NewestExists'
    BY <1>1 DEF NewestExists
<1>11. S3IsLast'
    BY <1>1, <1>2 DEF S3IsLast, Local
<1>13. Staged' /\ Uploaded'
    BY <1>1 DEF Staged, Fresh, Dominated, Uploaded
<1>14. Published'
    BY <1>1 DEF Published
<1>15. CutKept'
    BY <1>1 DEF CutKept, Claiming, Later, Skipped
<1>16. ChecksumsCurrent'
    BY <1>1 DEF ChecksumsCurrent, Live, Unsaved
<1>17. MarksCurrent'
    BY <1>1, <1>3 DEF MarksCurrent
<1>18. PublishedIsTheCut' /\ SkipsAreExplained'
    BY <1>1 DEF PublishedIsTheCut, SkipsAreExplained
<1> QED BY <1>4, <1>5, <1>6, <1>7, <1>8, <1>9, <1>10, <1>11, <1>13, <1>14, <1>15,
            <1>16, <1>17, <1>18

\* The flushing file is closed when no block is read from it.
LEMMA CleanupStep ==
    ASSUME IInv, TypeOK', Cleanup
    PROVE  IInv'
<1> USE DEF IInv
<1>1. UNCHANGED <<up, state, seq, active, flushing, flushFile, writing, writes, crc, drained,
          passes, kind, pack, flushed, skips, mem, s3, snap, seqCut, kept, wal, meta, last, cut,
          missed, lost, unput, unsynced, saveFailed, cycles, events>>
    BY DEF Cleanup, writeVars, crcVars, passVars, manifestVars, keyVars, logVars, cutVars, lossVars
<1>2. /\ cycle \in {"cleanup", "keep"} /\ ~ff'
      /\ cycle' = IF cycle = "cleanup" THEN "unlink" ELSE "passed"
    BY DEF Cleanup
<1>3. up /\ (cycle = "keep" => saveFailed)
    BY <1>2 DEF Flags
<1>4. \A c \in Blocks : state[c] # "SYNCING"
    BY <1>2 DEF SyncingClaimed, Claimed, Claiming
<1>5. cycle' \in {"unlink", "passed"}
    BY <1>2
<1>6. \A c \in Blocks : Live(c)' = Live(c) /\ (Local(c)' <=> Local(c))
    BY <1>1, <1>3, <1>4 DEF Live, Local
<1>7. Flags'
    BY <1>1, <1>2, <1>3, <1>5 DEF Flags, Rotated, Claimed, Claiming
<1>8. SyncingClaimed'
    BY <1>1, <1>4 DEF SyncingClaimed
<1>9. ClaimKept' /\ Staged' /\ Uploaded'
    BY <1>5 DEF ClaimKept, Claimed, Claiming, Skipped, Unsaved, Staged, Fresh, Dominated, Uploaded
<1>10. WritingInPlace'
    BY <1>1, <1>3, <1>4 DEF WritingInPlace
<1>11. LocalIsLast'
    BY <1>1, <1>6 DEF LocalIsLast
<1>12. RemoteIsLast'
    BY <1>1, <1>6 DEF RemoteIsLast, Base
<1>13. NewestExists'
    BY <1>1 DEF NewestExists
<1>14. S3IsLast'
    BY <1>1, <1>6 DEF S3IsLast
<1>15. Published'
    <2>1. cycle # "put" /\ cycle' # "put"
        BY <1>2, <1>5
    <2> QED BY <1>1, <2>1 DEF Published
<1>16. CutKept'
    BY <1>1, <1>2, <1>5 DEF CutKept, Claiming, Later, Skipped
<1>17. ChecksumsCurrent'
    BY <1>1, <1>5, <1>6 DEF ChecksumsCurrent
<1>18. MarksCurrent'
    <2> SUFFICES ASSUME ~saveFailed PROVE MarksCurrent'
        BY <1>1 DEF MarksCurrent
    <2>1. cycle = "cleanup"
        BY <1>2, <1>3
    <2> QED BY <1>1, <1>2, <1>3, <2>1 DEF MarksCurrent, Marked
<1>19. PublishedIsTheCut' /\ SkipsAreExplained'
    BY <1>1 DEF PublishedIsTheCut, SkipsAreExplained
<1> QED BY <1>7, <1>8, <1>9, <1>10, <1>11, <1>12, <1>13, <1>14, <1>15, <1>16, <1>17, <1>18,
            <1>19

\* The flushing file is removed.
LEMMA UnlinkStep ==
    ASSUME IInv, TypeOK', Unlink
    PROVE  IInv'
<1> USE DEF IInv
<1>1. UNCHANGED <<up, state, seq, rotation, active, flushing, ff, writing, writes, crc,
          drained, passes, kind, pack, flushed, skips, mem, s3, snap, seqCut, kept, wal, meta,
          last, cut, missed, lost, unput, unsynced, saveFailed, cycles, events>>
    BY DEF Unlink, writeVars, crcVars, passVars, manifestVars, keyVars, logVars, cutVars, lossVars
<1>2. cycle = "unlink" /\ cycle' = "passed" /\ ~flushFile'
    BY DEF Unlink
<1>3. up
    BY <1>2 DEF Flags
<1>4. \A c \in Blocks : state[c] # "SYNCING"
    BY <1>2 DEF SyncingClaimed, Claimed, Claiming
<1>5. Flags'
    BY <1>1, <1>2, <1>3 DEF Flags, Rotated, Claimed, Claiming
<1>6. SyncingClaimed'
    BY <1>1, <1>4 DEF SyncingClaimed
<1>7. ClaimKept' /\ Staged' /\ Uploaded'
    BY <1>2 DEF ClaimKept, Claimed, Claiming, Skipped, Unsaved, Staged, Fresh, Dominated, Uploaded
<1>8. WritingInPlace'
    BY <1>1, <1>3, <1>4 DEF WritingInPlace
<1>9. LocalIsLast'
    BY <1>1 DEF LocalIsLast, Local, Live, Marked
<1>10. RemoteIsLast'
    BY <1>1 DEF RemoteIsLast, Local, Base, Marked
<1>11. NewestExists'
    BY <1>1 DEF NewestExists
<1>12. S3IsLast'
    BY <1>1 DEF S3IsLast, Local, Marked
<1>13. Published'
    <2>1. cycle # "put" /\ cycle' # "put"
        BY <1>2
    <2> QED BY <1>1, <2>1 DEF Published
<1>14. CutKept'
    BY <1>1, <1>2 DEF CutKept, Claiming, Later, Skipped
<1>15. ChecksumsCurrent'
    BY <1>1, <1>2 DEF ChecksumsCurrent, Live, Unsaved
<1>16. MarksCurrent'
    BY <1>1, <1>2, <1>3 DEF MarksCurrent, Marked
<1>17. PublishedIsTheCut' /\ SkipsAreExplained'
    BY <1>1 DEF PublishedIsTheCut, SkipsAreExplained
<1> QED BY <1>5, <1>6, <1>7, <1>8, <1>9, <1>10, <1>11, <1>12, <1>13, <1>14, <1>15, <1>16,
            <1>17

\* What a drain or a snapshot publishes gives every block its content at the cut.
LEMMA PublishStep ==
    ASSUME IInv, TypeOK', Publish
    PROVE  IInv'
<1> USE DEF IInv
<1>1. UNCHANGED <<up, state, seq, rotation, active, flushing, ff, flushFile, writing, writes,
          crc, mem, wal, meta, last, lost, saveFailed, cycles, events>>
    BY DEF Publish, fileVars, writeVars, logVars
<1>2. /\ cycle = "passed" /\ cycle' = "idle" /\ skips = {}
      /\ pack' = << >> /\ flushed' = {} /\ skips' = {}
    BY DEF Publish, EndsFlush
<1>3. up /\ ~ff
    BY <1>2 DEF Flags, Rotated, Claimed, Claiming
<1>4. \A c \in Blocks : drained'[c] = None /\ state[c] # "SYNCING"
    BY <1>2 DEF Publish, EndsFlush, Each, SyncingClaimed, Claimed, Claiming
<1>5. /\ s3' \in {s3, mem} /\ (s3 = mem => s3' = mem)
      /\ s3' = mem \/ (s3' = s3 /\ unput' = unput /\ (unsynced' <=> unsynced))
    BY DEF Publish
<1>6. snap'.manifest = mem /\ snap'.cut = [c \in Blocks \ missed |-> cut[c]]
    <2>1. kind = "drain" => s3' = mem
        BY <1>2 DEF Publish, CutKept, Later
    <2> QED BY <2>1 DEF Publish
<1>7. Flags'
    BY <1>1, <1>2, <1>3 DEF Flags, Rotated, Claimed, Claiming
<1>8. SyncingClaimed'
    BY <1>1, <1>4 DEF SyncingClaimed
<1>9. ClaimKept' /\ Staged' /\ Uploaded'
    BY <1>1, <1>2 DEF ClaimKept, Claimed, Claiming, Skipped, Unsaved, Staged, Fresh, Dominated, Uploaded
<1>10. WritingInPlace'
    BY <1>1, <1>3, <1>4 DEF WritingInPlace
<1>11. LocalIsLast'
    BY <1>1 DEF LocalIsLast, Local, Live, Marked
<1>12. RemoteIsLast'
    BY <1>1, <1>3 DEF RemoteIsLast, Local, Base
<1>13. NewestExists'
    BY <1>1, <1>5 DEF NewestExists
<1>14. S3IsLast'
    <2>1. \A c \in Blocks : Local(c)' <=> Local(c)
        BY <1>1, <1>3 DEF Local
    <2> QED BY <1>1, <1>3, <1>5, <2>1 DEF S3IsLast, RemoteIsLast, Base
<1>15. Published'
    <2>1. cycle # "put"
        BY <1>2
    <2> QED BY <1>1, <1>5, <2>1 DEF Published
<1>16. CutKept'
    BY <1>2 DEF CutKept, Claiming, Later, Skipped
<1>17. ChecksumsCurrent'
    <2>1. NoBaseline # None
        BY DEF NoBaseline, None
    <2> QED BY <1>1, <1>2, <1>4, <2>1 DEF ChecksumsCurrent, Live
<1>18. MarksCurrent'
    BY <1>1, <1>2 DEF MarksCurrent, Rotated, Claimed, Claiming, Marked
<1>19. PublishedIsTheCut'
    BY <1>2, <1>6 DEF PublishedIsTheCut, CutKept, Later, Skipped
<1>20. SkipsAreExplained'
    BY <1>2 DEF SkipsAreExplained
<1> QED BY <1>7, <1>8, <1>9, <1>10, <1>11, <1>12, <1>13, <1>14, <1>15, <1>16, <1>17, <1>18,
            <1>19, <1>20

\* A crash outside a flush: but for the blocks it loses, the marks on disk name
\* the local blocks and the manifest in S3 has the others.
LEMMA CrashStep ==
    ASSUME IInv, TypeOK', Crash
    PROVE  IInv'
<1> USE DEF IInv
<1>1. UNCHANGED <<active, flushing, flushFile, writes, s3, kept, wal, meta, last, cut, missed,
          saveFailed, cycles, events>>
    BY DEF Crash, logVars, cutVars
<1>2. /\ "crash_marked" \in events /\ up /\ ~up' /\ cycle = "idle" /\ cycle' = "idle"
      /\ rotation' = 0 /\ ~ff' /\ pack' = << >> /\ flushed' = {} /\ skips' = {}
      /\ mem' = << >> /\ snap' = NoSnapshot
    BY DEF Crash
<1>3. \A c \in Blocks : /\ state'[c] = "NOT_PRESENT" /\ writing'[c] = None
                        /\ crc'[c] = None /\ drained'[c] = None
    BY DEF Crash, Each
<1>4. \A c \in Blocks : state[c] = "DIRTY" => Marked(c)
    BY DEF Crash
<1>5. ~ff /\ \A c \in Blocks : state[c] # "SYNCING"
    BY <1>2 DEF Flags, Rotated, Claimed, Claiming, SyncingClaimed
<1>6. ~saveFailed => ~flushFile /\ \A c \in Blocks : Marked(c) => state[c] \in Unsaved
    BY <1>2 DEF MarksCurrent, Rotated, Claimed, Claiming
<1>7. lost' = lost \cup unput \cup {c \in Blocks : saveFailed /\ Marked(c)}
    BY DEF Crash
<1>8. \A c \in Blocks : /\ Marked(c)' <=> Marked(c)
                        /\ c \notin lost' => (Local(c)' <=> Local(c)) /\ Live(c)' = Live(c)
    <2>1. \A c \in Blocks : Marked(c)' <=> Marked(c)
        BY <1>1 DEF Marked
    <2>2. \A c \in Blocks : Local(c)' <=> Marked(c)'
        BY <1>2 DEF Local
    <2>3. \A c \in Blocks \ lost' : Local(c) <=> Marked(c)
        BY <1>2, <1>4, <1>5, <1>6, <1>7 DEF Local, Unsaved
    <2>4. \A c \in Blocks : Live(c)' = Live(c)
        BY <1>1, <1>3, <1>5 DEF Live
    <2> QED BY <2>1, <2>2, <2>3, <2>4
<1>9. Base' = s3 /\ \A c \in Blocks \ lost' : c \notin lost /\ c \notin unput
    BY <1>1, <1>2, <1>7 DEF Base
<1>10. Flags'
    BY <1>1, <1>2, <1>6, <1>7, <1>8 DEF Flags, Rotated, Claimed, Claiming
<1>11. SyncingClaimed'
    BY <1>3 DEF SyncingClaimed
<1>12. ClaimKept' /\ Staged' /\ Uploaded'
    BY <1>2 DEF ClaimKept, Claimed, Claiming, Skipped, Unsaved, Staged, Fresh, Dominated, Uploaded
<1>13. WritingInPlace'
    BY <1>3 DEF WritingInPlace
<1>14. LocalIsLast'
    BY <1>1, <1>8, <1>9 DEF LocalIsLast
<1>15. RemoteIsLast'
    BY <1>1, <1>2, <1>8, <1>9 DEF RemoteIsLast, S3IsLast
<1>16. NewestExists'
    <2>1. mem' = << >>
        BY <1>2
    <2>2. DOMAIN mem' = {} /\ HasNewest(mem')
        BY SMTT(60), <2>1 DEF HasNewest, Holds
    <2> QED BY <1>1, <2>2 DEF NewestExists
<1>17. S3IsLast'
    BY <1>2 DEF S3IsLast
<1>18. Published'
    BY <1>2 DEF Published
<1>19. CutKept'
    BY <1>2 DEF CutKept, Claiming, Later, Skipped
<1>20. ChecksumsCurrent'
    <2>1. NoBaseline # None
        BY DEF NoBaseline, None
    <2>2. cycle' # "drained" /\ cycle' # "claimed"
        BY <1>2
    <2> HIDE DEF IInv
    <2>3. ASSUME NEW c \in Blocks
          PROVE  crc'[c] = None /\ crc'[c] # NoBaseline /\ drained'[c] # NoBaseline
        <3>1. crc'[c] = None /\ drained'[c] = None
            BY <1>3
        <3> QED BY <2>1, <3>1
    <2> QED BY <2>2, <2>3 DEF ChecksumsCurrent
<1>21. MarksCurrent'
    BY <1>1, <1>2, <1>6 DEF MarksCurrent
<1>22. PublishedIsTheCut'
    BY <1>2, MergedEmpty DEF PublishedIsTheCut, NoSnapshot
<1>23. SkipsAreExplained'
    BY <1>2 DEF SkipsAreExplained
<1> QED BY <1>10, <1>11, <1>12, <1>13, <1>14, <1>15, <1>16, <1>17, <1>18, <1>19, <1>20,
            <1>21, <1>22, <1>23

\* A restart: every marked block is local again, with the content of the active
\* file, and the others are read from S3.
LEMMA OpenStep ==
    ASSUME IInv, TypeOK', Open
    PROVE  IInv'
<1> USE DEF IInv
<1>1. UNCHANGED <<rotation, flushing, ff, writing, writes, crc, drained, cycle, passes, kind,
          pack, flushed, skips, s3, snap, seqCut, kept, cut, missed, lost, unput, unsynced, cycles, events>>
    BY DEF Open, writeVars, crcVars, passVars, keyVars, cutVars
<1>2. /\ ~up /\ up' /\ ~flushFile' /\ mem' = s3
    BY DEF Open
<1>3. cycle = "idle" /\ \A c \in Blocks \ lost : Marked(c) => ~flushFile
    BY <1>2 DEF Flags
<1>4. ~ff
    BY <1>3 DEF Flags, Rotated, Claimed, Claiming
<1>5. \A c \in Blocks : state[c] = "NOT_PRESENT" /\ writing[c] = None
    BY <1>2 DEF WritingInPlace
<1>6. \A c \in Blocks : state'[c] \in {"DIRTY", "NOT_PRESENT"} /\ (state'[c] = "DIRTY" <=> Marked(c))
    BY DEF Open, Marked, RecoveredState
<1>7. \A c \in Blocks \ lost : Marked(c) => active'[c] = active[c]
    BY <1>3 DEF Open, Recovered
<1>8. \A c \in Blocks \ lost : /\ Local(c)' <=> Local(c)
                               /\ Local(c) => Live(c) = active[c] /\ Live(c)' = active[c]
    BY <1>1, <1>2, <1>4, <1>5, <1>6, <1>7 DEF Local, Live, Unsaved
<1>9. \A c \in Blocks \ lost : AfterCrash(c) = IF Local(c) THEN active[c] ELSE Merged(s3, c)
    BY <1>2, <1>3 DEF AfterCrash, Recovered, Local, Marked
<1>10. \A c \in Blocks \ lost : AfterCrash(c) \in last[c]
    BY <1>2, <1>8, <1>9 DEF LocalIsLast, RemoteIsLast, Base
<1>11. \A c \in Blocks \ lost : last'[c] = {AfterCrash(c)}
    BY <1>10 DEF Open
<1>12. Base' = Base
    BY <1>1, <1>2 DEF Base
<1>13. Flags'
    BY <1>1, <1>2, <1>3, <1>4 DEF Flags, Rotated, Claimed, Claiming
<1>14. SyncingClaimed'
    BY <1>6 DEF SyncingClaimed
<1>15. ClaimKept' /\ Staged' /\ Uploaded'
    BY <1>1, <1>3 DEF ClaimKept, Claimed, Claiming, Skipped, Unsaved, Staged, Fresh, Dominated, Uploaded
<1>16. WritingInPlace'
    BY <1>1, <1>2, <1>5, <1>6 DEF WritingInPlace
<1>17. LocalIsLast'
    BY <1>1, <1>8, <1>9, <1>11 DEF LocalIsLast
<1>18. RemoteIsLast'
    BY <1>1, <1>2, <1>8, <1>9, <1>11 DEF RemoteIsLast, Base
<1>19. NewestExists'
    BY <1>1, <1>2 DEF NewestExists
<1>20. S3IsLast'
    BY <1>1, <1>2, <1>18 DEF S3IsLast, RemoteIsLast, Base
<1>21. Published'
    BY <1>1, <1>2 DEF Published
<1>22. CutKept'
    BY <1>1, <1>3 DEF CutKept, Claiming, Later, Skipped
<1>23. ChecksumsCurrent'
    <2>1. \A c \in Blocks : crc'[c] = None
        BY <1>1, <1>2 DEF WritingInPlace
    <2> QED BY <1>1, <1>3, <2>1 DEF ChecksumsCurrent
<1>24. MarksCurrent'
    <2>1. \A c \in Blocks : Marked(c)' => state'[c] \in Unsaved
        BY <1>6, ReopenedMarks DEF Unsaved
    <2> QED BY <1>2, <2>1 DEF MarksCurrent
<1>25. PublishedIsTheCut' /\ SkipsAreExplained'
    BY <1>1 DEF PublishedIsTheCut, SkipsAreExplained
<1> QED BY <1>13, <1>14, <1>15, <1>16, <1>17, <1>18, <1>19, <1>20, <1>21, <1>22, <1>23,
            <1>24, <1>25

\* A volume opened for the first time: every block is absent and zero.
LEMMA InitHolds == ASSUME Init PROVE IInv
<1> USE DEF Init, Each
<1>1. TypeOK
    <2>1. FlagTypeOK /\ HistoryTypeOK
        BY DEF FlagTypeOK, HistoryTypeOK, Content
    <2>2. CacheTypeOK
        BY SMTT(60), BoundsAssumption DEF CacheTypeOK, States, Content
    <2>3. CrcTypeOK
        BY DEF CrcTypeOK
    <2>4. PassTypeOK
        BY SMTT(60), BoundsAssumption DEF PassTypeOK, Manifest
    <2>5. StoreTypeOK
        BY SMTT(60), BoundsAssumption, EmptySnapshot DEF StoreTypeOK, Manifest, NoKey, States
    <2> QED BY <2>1, <2>2, <2>3, <2>4, <2>5 DEF TypeOK
<1>2. \A b \in Blocks : ~Local(b) /\ Merged(Base, b) = Zero
    BY MergedEmpty DEF Local, Base, Unsaved
<1>3. Flags /\ SyncingClaimed /\ ClaimKept /\ WritingInPlace
    BY DEF Flags, Rotated, Claimed, Claiming, SyncingClaimed, ClaimKept, WritingInPlace
<1>4. LocalIsLast /\ RemoteIsLast
    BY <1>2 DEF LocalIsLast, RemoteIsLast
<1>5. NewestExists
    <2>1. mem = << >> /\ s3 = << >>
        OBVIOUS
    <2>2. DOMAIN mem = {} /\ DOMAIN s3 = {}
        BY SMTT(60), <2>1
    <2>3. HasNewest(mem) /\ HasNewest(s3)
        BY <2>2 DEF HasNewest, Holds
    <2> QED BY <2>3 DEF NewestExists
<1>6. S3IsLast
    BY <1>2 DEF S3IsLast, Base
<1>7. Staged /\ Uploaded /\ Published /\ CutKept
    BY DEF Staged, Uploaded, Published, CutKept, Claiming, Later
<1>8. ChecksumsCurrent
    BY DEF ChecksumsCurrent, None, NoBaseline
<1>9. MarksCurrent
    BY DEF MarksCurrent, Marked, RecoveredState, ReplayedBlocks, Replayed, Unsaved
<1>10. PublishedIsTheCut /\ SkipsAreExplained
    BY MergedEmpty DEF PublishedIsTheCut, SkipsAreExplained, NoSnapshot
<1> QED BY <1>1, <1>3, <1>4, <1>5, <1>6, <1>7, <1>8, <1>9, <1>10 DEF IInv

\* Every step of the cache, its guests, its flusher and its restarts.
LEMMA Step == ASSUME IInv, [Next]_vars PROVE IInv'
<1>1. TypeOK'
    BY TypeStep DEF IInv
<1>2. CASE \E b \in Blocks : \E v \in Content : Pwrite(b, v)
    BY <1>1, <1>2, PwriteStep
<1>3. CASE \E b \in Blocks : \E zc \in BOOLEAN : Commit(b, zc)
    BY <1>1, <1>3, CommitStep
<1>4. CASE BeginFlush
    <2>1. cycle \in {"idle", "passed"}
        BY <1>4 DEF BeginFlush
    <2>2. PICK k : BeginPass(k, 1)
        BY <1>4 DEF BeginFlush
    <2> QED BY SMTT(60), <1>1, <2>1, <2>2, BeginPassStep
<1>5. CASE RetryPass
    <2>1. cycle \in {"idle", "passed"}
        BY <1>5 DEF RetryPass
    <2>2. BeginPass(kind, passes + 1)
        BY <1>5 DEF RetryPass
    <2> QED BY SMTT(60), <1>1, <2>1, <2>2, BeginPassStep
<1>6. CASE RotateError
    BY <1>1, <1>6, EndsFlushStep DEF EndsUnpublished, RotateError
<1>7. CASE EndFlush
    BY <1>1, <1>7, EndsFlushStep DEF EndsUnpublished, EndFlush
<1>8. CASE PublishError
    BY <1>1, <1>8, EndsFlushStep DEF EndsUnpublished, PublishError
<1>9. CASE Rotate \/ Compute \/ Stage \/ Upload \/ PutManifest
    BY <1>1, <1>9, RotateStep, ComputeStep, StageStep, UploadStep, PutManifestStep
<1>10. CASE FlushFailed \/ Redirty \/ Evict \/ CycleCheckpoint \/ Cleanup \/ Unlink
    BY <1>1, <1>10, FlushFailedStep, RedirtyStep, EvictStep, CycleCheckpointStep, CleanupStep,
        UnlinkStep
<1>11. CASE Publish \/ TimerCheckpoint \/ Crash \/ Open
    BY <1>1, <1>11, PublishStep, TimerCheckpointStep, CrashStep, OpenStep
<1>12. CASE UNCHANGED vars
    <2>1. UNCHANGED <<up, state, seq, rotation, active, flushing, ff, flushFile, writing, writes,
                      crc, drained, cycle, passes, kind, pack, flushed, skips>>
        BY <1>12 DEF vars, fileVars, writeVars, crcVars, passVars
    <2>2. UNCHANGED <<mem, s3, snap, seqCut, kept, wal, meta, last, cut, missed, lost, unput,
                      unsynced, saveFailed, cycles, events>>
        BY <1>12 DEF vars, manifestVars, keyVars, logVars, cutVars, lossVars
    <2>3. \A b \in Blocks : (Marked(b)' <=> Marked(b)) /\ (Local(b)' <=> Local(b)) /\ Live(b)' = Live(b)
        BY <2>1, <2>2 DEF Marked, Local, Live
    <2>4. Base' = Base /\ Skipped' = Skipped /\ Fresh' = Fresh
        BY <2>1, <2>2 DEF Base, Skipped, Fresh, Dominated
    <2>5. Flags' /\ SyncingClaimed' /\ ClaimKept' /\ WritingInPlace'
        BY <2>1, <2>2, <2>3, <2>4 DEF IInv, Flags, SyncingClaimed, ClaimKept, WritingInPlace
    <2>6. LocalIsLast' /\ RemoteIsLast' /\ NewestExists' /\ S3IsLast'
        BY <2>1, <2>2, <2>3, <2>4 DEF IInv, LocalIsLast, RemoteIsLast, NewestExists, S3IsLast
    <2>7. Staged' /\ Uploaded'
        BY <2>1, <2>2, <2>4 DEF IInv, Staged, Uploaded
    <2>8. Published' /\ CutKept' /\ PublishedIsTheCut' /\ SkipsAreExplained'
        BY <2>1, <2>2, <2>4 DEF IInv, Published, CutKept, PublishedIsTheCut, SkipsAreExplained
    <2>9. ChecksumsCurrent' /\ MarksCurrent'
        BY <2>1, <2>2, <2>3 DEF IInv, ChecksumsCurrent, MarksCurrent
    <2> QED BY <1>1, <2>5, <2>6, <2>7, <2>8, <2>9 DEF IInv
<1> QED BY <1>2, <1>3, <1>4, <1>5, <1>6, <1>7, <1>8, <1>9, <1>10, <1>11, <1>12 DEF Next

-----------------------------------------------------------------------------
(* The theorems.                                                           *)

\* The invariant holds throughout every behaviour of the cache.
LEMMA Invariance == Spec => []IInv
<1>1. Init => IInv
    BY InitHolds
<1>2. IInv /\ [Next]_vars => IInv'
    BY Step
<1> QED BY <1>1, <1>2, PTL DEF Spec

\* WriteCache::read returns what was last written, through rotations, promotions,
\* failed passes, skips, evictions and restarts: the state of a block always
\* names the place where its last content is.  No event is ruled out; the blocks
\* in lost are the ones the code does lose.
THEOREM ReadsCorrect == Spec => []ReadsReturnLastWrite
<1>1. Spec => []IInv
    BY Invariance
<1>2. ASSUME IInv PROVE ReadsReturnLastWrite
    <2> SUFFICES ASSUME up, NEW b \in Blocks \ lost PROVE ReadBack(b) \in last[b]
        BY DEF ReadsReturnLastWrite
    <2>1. CASE state[b] \in Unsaved
        <3>1. Local(b)
            BY <2>1 DEF Local
        <3>2. ReadBack(b) = Live(b)
            BY <2>1 DEF ReadBack, Live
        <3> QED BY <3>1, <3>2, <1>2 DEF IInv, LocalIsLast
    <2>2. CASE state[b] \notin Unsaved
        <3>1. ~Local(b)
            BY <2>2 DEF Local
        <3>2. ReadBack(b) = Merged(Base, b)
            BY <2>2 DEF ReadBack, Base, Unsaved
        <3> QED BY <3>1, <3>2, <1>2 DEF IInv, RemoteIsLast
    <2> QED BY <2>1, <2>2
<1> QED BY <1>1, <1>2, PTL

\* flush_dirty_body evicts a block only once S3 has its pack and a manifest that
\* names it: another host reads the last content of every evicted block, but for
\* the ones in lost and those evicted after a PUT that failed (unput).
THEOREM EvictionSafe == Spec => []EvictedIsInS3
<1>1. Spec => []IInv
    BY Invariance
<1>2. ASSUME IInv PROVE EvictedIsInS3
    <2> SUFFICES ASSUME up, NEW b \in Blocks \ (lost \cup unput), state[b] = "NOT_PRESENT"
                 PROVE  Merged(s3, b) \in last[b]
        BY DEF EvictedIsInS3
    <2>1. ~Local(b)
        BY DEF Local, Unsaved
    <2> QED BY <1>2, <2>1 DEF IInv, S3IsLast
<1> QED BY <1>1, <1>2, PTL

\* flush_until_no_skips: what a drain or a snapshot publishes is the content at
\* the rotation of its last pass, for every block whose pack was not passed over,
\* and only a write race makes it skip a block.
THEOREM DrainsCorrect == Spec => []DrainsAreExact
<1>1. Spec => []IInv
    BY Invariance
<1>2. IInv => DrainsAreExact
    BY DEF IInv, DrainsAreExact
<1> QED BY <1>1, <1>2, PTL

\* Every variable keeps the shape of what it models.
THEOREM TypesKept == Spec => []TypeOK
<1>1. Spec => []IInv
    BY Invariance
<1>2. IInv => TypeOK
    BY DEF IInv
<1> QED BY <1>1, <1>2, PTL
=============================================================================
