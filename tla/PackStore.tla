------------------------------- MODULE PackStore -------------------------------
(*****************************************************************************)
(* The objects in S3 and everything that writes or deletes them: flushes that *)
(* upload a pack and then publish it in the volume's manifest, the compaction *)
(* that replaces a chunk's packs by their merge, the backfill of live-block   *)
(* counts, snapshots, forks, purges, the shared OCI layers, and `glidefs gc`, *)
(* a process of its own that reads the objects one by one and deletes what no *)
(* manifest and no snapshot names for a grace period.                         *)
(*                                                                            *)
(* One chunk is modelled: chunks share no state.  A pack id is a hash of the  *)
(* pack's content, so a pack is its content: a function from the offsets it   *)
(* holds to values, Zero being a tombstone.  A manifest is the chunk's packs, *)
(* oldest first, and the cached live-block count.  Time is kept as ages.      *)
(*****************************************************************************)
EXTENDS Naturals, FiniteSets, Sequences, SequencesExt, FiniteSetsExt, TLC

CONSTANTS
    Vols,
    Shared, Apart,  \* s3_prefixes: the one the volumes share, or each one's own
    First,        \* the volumes that exist at the start
    Layers,       \* the digests of the OCI layers
    None,
    Batches,      \* the contents the guests' dirty blocks may take
    Zero,
    Grace,        \* the grace period of gc, in ticks
    OpTicks,      \* bound: ticks an upload takes to be published, or a gc run
    MaxDeletes,   \* --max-deletes
    MaxOps, MaxFlushes, MaxGcFlushes, MaxFaults,
    Scenarios     \* the sets of occurrences a behaviour may draw from: "compact",
                  \* "legacy", "snapshot", "create", "fork", "purge", "layers",
                  \* "fault", "gc", "gc_dies", "gc_error", "sidecar",
                  \* "dedup", "mid_flush", "pools"

VARIABLES
    occurring,  \* the scenario of this behaviour
    objects,    \* per prefix: the packs in S3
    manifest,   \* per volume: the manifest object, or None
    snaps,      \* per prefix: the snapshot objects
    vm,         \* per volume: the in-memory VolumeManifest while it is open
    truth,      \* per volume: what its flushes have put there (history)
    skipped,    \* per volume: offsets whose pack was skipped (history)
    unlisted,   \* per prefix: deleted snapshots that are cached and still indexed
    flush, comp, fill, fork,   \* per volume: the calls in progress
    layers,     \* per layer: the objects below layers/{digest}
    images,     \* the image descriptors, each a set of layers
    bless,      \* the layered bless in progress
    gc,         \* the gc process
    scan,       \* per prefix: reconcile_prefix of this gc run
    marks,      \* GcState.dead_packs: the age of each mark
    layerMarks, \* GcState.dead_layers
    left        \* how often each kind of operation may still happen

s3Vars == <<objects, manifest, snaps>>
calls == <<flush, comp, fill, fork>>
layerVars == <<layers, images, bless, layerMarks>>
gcVars == <<gc, scan, marks>>
past == <<truth, skipped, unlisted>>
storeVars == <<occurring, s3Vars, vm, past, calls, layerVars, gcVars, left>>

May(e) == e \in occurring

PoolOf(v) == IF May("pools") THEN Apart[v] ELSE Shared

Pools == {PoolOf(v) : v \in Vols}

(*****************************************************************************)
(* Packs and manifests                                                        *)
(*****************************************************************************)
\* The newest pack wins, offset by offset.
Merged(packs) == FoldLeft(LAMBDA acc, p : p @@ acc, <<>>, packs)

\* A tombstone is an entry, and not a live block.
LiveBlocks(content) == Cardinality({o \in DOMAIN content : content[o] # Zero})

Empty == [packs |-> <<>>, live |-> 0]

\* A chunk with no packs left is removed from the manifest.
WithPacks(m, packs) == IF packs = <<>> THEN Empty ELSE [m EXCEPT !.packs = packs]

AppendPack(m, pack, live) == [packs |-> Append(m.packs, pack), live |-> live]

\* Mutant of ReplaceCas: packs appended meanwhile are lost.
SwapBlindly(m, old, new) == WithPacks(m, new)

ReplaceCas(m, old, new) == WithPacks(m, new \o SubSeq(m.packs, Len(old) + 1, Len(m.packs)))

Named(m) == IF m = None THEN {} ELSE ToSet(m.packs)

Referenced(p) == UNION ({Named(manifest[v]) : v \in {u \in Vols : PoolOf(u) = p}}
                        \cup {Named(s) : s \in snaps[p]})

Idle == [pc |-> "idle"]

\* The packs uploaded by calls in progress, and not yet published by them.
Uploaded(v) == (IF flush[v].pc \in {"append", "put"} THEN {flush[v].pack} ELSE {})
               \cup (IF comp[v].pc \in {"swap", "sync"} THEN {comp[v].pack} ELSE {})

FlushBound == IF May("layers") THEN 0 ELSE IF May("gc") THEN MaxGcFlushes ELSE MaxFlushes

StoreInit ==
  /\ occurring \in Scenarios
  /\ \E b \in Batches :
       LET m == IF May("legacy") THEN [packs |-> <<b>>, live |-> None] ELSE Empty IN
         /\ manifest = [v \in Vols |-> IF v \in First THEN m ELSE None]
         /\ objects = [p \in Pools |-> Named(m)]
         /\ truth = [v \in Vols |-> IF v \in First THEN Merged(m.packs) ELSE <<>>]
  /\ snaps = [p \in Pools |-> {}] /\ unlisted = snaps
  /\ skipped = [v \in Vols |-> {}]
  /\ vm = manifest
  /\ flush = [v \in Vols |-> Idle] /\ comp = flush /\ fill = flush /\ fork = flush
  /\ layers = [l \in Layers |-> "absent"] /\ images = {} /\ bless = Idle
  /\ gc = Idle /\ scan = [p \in Pools |-> Idle]
  /\ marks = <<>> /\ layerMarks = <<>>
  /\ left = [flush |-> FlushBound, op |-> MaxOps, fault |-> MaxFaults]

Spend(kind) == /\ left[kind] > 0
               /\ left' = [left EXCEPT ![kind] = @ - 1]

\* PutMode::Create: an object that is there already is left alone and the
\* upload answers Ok.  Whether the object is one that gc may be about to
\* delete is not looked at.
Put(p, pack) == /\ May("dedup") \/ pack \notin objects[p]
                /\ May("mid_flush") \/ gc.pc = "idle"
                /\ objects' = [objects EXCEPT ![p] = @ \cup {pack}]

(*****************************************************************************)
(* A flush (of the scheduler, a drain or a snapshot; flush_lock admits one).  *)
(* Blocks whose content an existing pack already holds are left out of the    *)
(* pack, and so is a pack the manifest already lists.                         *)
(*****************************************************************************)
FlushPack(m, batch) ==
  LET existing == Merged(m.packs)
      dominated(o) == IF o \in DOMAIN existing THEN existing[o] = batch[o]
                                               ELSE batch[o] = Zero
  IN [o \in {x \in DOMAIN batch : ~dominated(x)} |-> batch[o]]

FlushLive(m, pack) == LiveBlocks(pack @@ Merged(m.packs))

FlushBegin(v, batch) ==
  /\ vm[v] # None /\ flush[v].pc = "idle"
  /\ LET pack == FlushPack(vm[v], batch) IN
       /\ DOMAIN pack # {} /\ pack \notin Named(vm[v])
       /\ flush' = [flush EXCEPT ![v] = [pc |-> "upload", age |-> 0, pack |-> pack,
                                         live |-> FlushLive(vm[v], pack)]]
  /\ Spend("flush")
  /\ UNCHANGED <<occurring, s3Vars, vm, past, comp, fill, fork, layerVars, gcVars>>

\* The pack is one the manifest lists already: it is neither uploaded nor
\* appended, and its blocks count as flushed all the same.
FlushSkips(v, batch) ==
  /\ vm[v] # None /\ flush[v].pc = "idle"
  /\ LET pack == FlushPack(vm[v], batch) IN
       /\ pack \in Named(vm[v])
       /\ truth' = [truth EXCEPT ![v] = pack @@ @]
       /\ skipped' = [skipped EXCEPT ![v] = @ \cup DOMAIN pack]
  /\ Spend("flush")
  /\ UNCHANGED <<occurring, s3Vars, vm, unlisted, calls, layerVars, gcVars>>

FlushUpload(v) ==
  /\ flush[v].pc = "upload"
  /\ Put(PoolOf(v), flush[v].pack)
  /\ flush' = [flush EXCEPT ![v].pc = "append", ![v].age = 0]
  /\ UNCHANGED <<occurring, manifest, snaps, vm, past, comp, fill, fork, layerVars, gcVars, left>>

\* The appended manifest is serialised at once; the PUT is on its way.
FlushAppend(v) ==
  /\ flush[v].pc = "append"
  /\ LET m == AppendPack(vm[v], flush[v].pack, flush[v].live) IN
       /\ vm' = [vm EXCEPT ![v] = m]
       /\ flush' = [flush EXCEPT ![v] = [pc |-> "put", age |-> @.age, pack |-> @.pack, body |-> m]]
  /\ truth' = [truth EXCEPT ![v] = flush[v].pack @@ @]
  /\ skipped' = [skipped EXCEPT ![v] = @ \ DOMAIN flush[v].pack]
  /\ UNCHANGED <<occurring, s3Vars, unlisted, comp, fill, fork, layerVars, gcVars, left>>

FlushPut(v) ==
  /\ flush[v].pc = "put"
  /\ manifest' = [manifest EXCEPT ![v] = flush[v].body]
  /\ flush' = [flush EXCEPT ![v] = Idle]
  /\ UNCHANGED <<occurring, objects, snaps, vm, past, comp, fill, fork, layerVars, gcVars, left>>

\* An upload or the manifest PUT fails; the next flush publishes what the
\* in-memory manifest holds.
FlushFails(v) ==
  /\ May("fault") /\ flush[v].pc # "idle" /\ Spend("fault")
  /\ flush' = [flush EXCEPT ![v] = Idle]
  /\ UNCHANGED <<occurring, s3Vars, vm, past, comp, fill, fork, layerVars, gcVars>>

(*****************************************************************************)
(* Compaction: inline in the scheduler, without flush_lock, so a drain's or a *)
(* snapshot's flush may append between its reading of the packs and its swap. *)
(*****************************************************************************)
CompactBegin(v) ==
  /\ May("compact") /\ vm[v] # None /\ comp[v].pc = "idle"
  /\ Len(vm[v].packs) >= 2
  /\ Spend("op")
  /\ comp' = [comp EXCEPT ![v] = [pc |-> "upload", age |-> 0, old |-> vm[v].packs]]
  /\ UNCHANGED <<occurring, s3Vars, vm, past, flush, fill, fork, layerVars, gcVars>>

CompactPack(old) == Merged(old)

CompactUpload(v) ==
  /\ comp[v].pc = "upload"
  /\ ToSet(comp[v].old) \subseteq objects[PoolOf(v)]
  /\ LET pack == CompactPack(comp[v].old) IN
       /\ Put(PoolOf(v), pack)
       /\ comp' = [comp EXCEPT ![v] = [pc |-> "swap", age |-> 0, old |-> @.old, pack |-> pack]]
  /\ UNCHANGED <<occurring, manifest, snaps, vm, past, flush, fill, fork, layerVars, gcVars, left>>

CompactSwap(v) ==
  /\ comp[v].pc = "swap"
  /\ IF vm[v] # None /\ IsPrefix(comp[v].old, vm[v].packs)
     THEN /\ vm' = [vm EXCEPT ![v] = ReplaceCas(@, comp[v].old, <<comp[v].pack>>)]
          /\ comp' = [comp EXCEPT ![v].pc = "sync"]
     ELSE /\ comp' = [comp EXCEPT ![v] = Idle]
          /\ UNCHANGED vm
  /\ UNCHANGED <<occurring, s3Vars, past, flush, fill, fork, layerVars, gcVars, left>>

CompactSync(v) ==
  /\ comp[v].pc = "sync" /\ flush[v].pc = "idle"
  /\ comp' = [comp EXCEPT ![v] = Idle]
  /\ manifest' = IF vm[v] = None THEN manifest ELSE [manifest EXCEPT ![v] = vm[v]]
  /\ UNCHANGED <<occurring, objects, snaps, vm, past, flush, fill, fork, layerVars, gcVars, left>>

\* A block cannot be read, the upload fails, or every PUT of the sync does.
CompactFails(v) ==
  /\ \/ May("fault") /\ comp[v].pc \in {"upload", "sync"} /\ Spend("fault")
     \/ /\ comp[v].pc = "upload" /\ ~(ToSet(comp[v].old) \subseteq objects[PoolOf(v)])
        /\ UNCHANGED left
  /\ comp' = [comp EXCEPT ![v] = Idle]
  /\ UNCHANGED <<occurring, s3Vars, vm, past, flush, fill, fork, layerVars, gcVars>>

(*****************************************************************************)
(* Live-block counts: manifests written before counts existed have none.  The *)
(* count is computed from the packs' indexes outside the lock and recorded    *)
(* only if the packs are still the same and the count still unknown.          *)
(*****************************************************************************)
FillBegin(v) ==
  /\ vm[v] # None /\ vm[v].live = None /\ fill[v].pc = "idle"
  /\ fill' = [fill EXCEPT ![v] = [pc |-> "set", packs |-> vm[v].packs]]
  /\ UNCHANGED <<occurring, s3Vars, vm, past, flush, comp, fork, layerVars, gcVars, left>>

\* Mutant of SetLiveIfUnknown: a pack list that has changed is not noticed.
SetLiveAnyway(m, packs) == [m EXCEPT !.live = LiveBlocks(Merged(packs))]

SetLiveIfUnknown(m, packs) == IF m.live = None /\ m.packs = packs
                              THEN [m EXCEPT !.live = LiveBlocks(Merged(packs))] ELSE m

FillSet(v) ==
  /\ fill[v].pc = "set"
  /\ fill' = [fill EXCEPT ![v] = Idle]
  /\ vm' = IF vm[v] = None \/ ~(ToSet(fill[v].packs) \subseteq objects[PoolOf(v)]) THEN vm
           ELSE [vm EXCEPT ![v] = SetLiveIfUnknown(@, fill[v].packs)]
  /\ UNCHANGED <<occurring, s3Vars, past, flush, comp, fork, layerVars, gcVars, left>>

(*****************************************************************************)
(* Snapshots, forks, purges                                                   *)
(*****************************************************************************)
Snapshot(v) ==
  /\ May("snapshot") /\ vm[v] # None /\ flush[v].pc = "idle"
  /\ Spend("op")
  /\ snaps' = [snaps EXCEPT ![PoolOf(v)] =
                 @ \cup {[of |-> v, packs |-> vm[v].packs, live |-> vm[v].live]}]
  /\ UNCHANGED <<occurring, objects, manifest, vm, past, calls, layerVars, gcVars>>

\* The snapshot object, and then its index entry, whose deletion may fail.
DeleteSnapshot(p, s) ==
  /\ s \in snaps[p]
  /\ snaps' = [snaps EXCEPT ![p] = @ \ {s}]
  /\ \/ UNCHANGED <<unlisted, left>>
     \/ /\ May("fault") /\ Spend("fault")
        /\ unlisted' = [unlisted EXCEPT ![p] = @ \cup {s}]
  /\ UNCHANGED <<occurring, objects, manifest, vm, truth, skipped, calls, layerVars, gcVars>>

\* create_export of a volume S3 knows nothing of: it has no manifest object
\* until its first flush.
Create(v) ==
  /\ May("create") /\ vm[v] = None /\ manifest[v] = None /\ fork[v].pc = "idle"
  /\ Spend("op")
  /\ vm' = [vm EXCEPT ![v] = Empty]
  /\ UNCHANGED <<occurring, s3Vars, past, calls, layerVars, gcVars>>

\* create_export with a source: its manifest is read, then written under the
\* fork's own name, before the fork serves.  A snapshot that is still indexed is
\* taken from manifest_cache, its object deleted or not.
Sources(p) == snaps[p] \cup unlisted[p] \cup {manifest[u] : u \in {w \in Vols : PoolOf(w) = p /\ manifest[w] # None}}

ForkRead(v, m) ==
  /\ May("fork") /\ vm[v] = None /\ manifest[v] = None /\ fork[v].pc = "idle"
  /\ Spend("op")
  /\ fork' = [fork EXCEPT ![v] = [pc |-> "put", age |-> 0,
                                  copy |-> [packs |-> m.packs, live |-> m.live]]]
  /\ UNCHANGED <<occurring, s3Vars, vm, past, flush, comp, fill, layerVars, gcVars>>

ForkPut(v) ==
  /\ fork[v].pc = "put"
  /\ manifest' = [manifest EXCEPT ![v] = fork[v].copy]
  /\ vm' = [vm EXCEPT ![v] = fork[v].copy]
  /\ truth' = [truth EXCEPT ![v] = Merged(fork[v].copy.packs)]
  /\ fork' = [fork EXCEPT ![v] = Idle]
  /\ UNCHANGED <<occurring, objects, snaps, skipped, unlisted, flush, comp, fill, layerVars, gcVars, left>>

\* The scheduler is stopped first; the snapshots go with the volume, the packs
\* are left for gc.
Purge(v) ==
  /\ May("purge") /\ vm[v] # None
  /\ flush[v].pc = "idle" /\ comp[v].pc = "idle"
  /\ Spend("op")
  /\ vm' = [vm EXCEPT ![v] = None]
  /\ manifest' = [manifest EXCEPT ![v] = None]
  /\ snaps' = [snaps EXCEPT ![PoolOf(v)] = {s \in @ : s.of # v}]
  /\ unlisted' = [unlisted EXCEPT ![PoolOf(v)] = {s \in @ : s.of # v}]
  /\ truth' = [truth EXCEPT ![v] = <<>>] /\ skipped' = [skipped EXCEPT ![v] = {}]
  /\ UNCHANGED <<occurring, objects, calls, layerVars, gcVars>>

(*****************************************************************************)
(* Shared OCI layers: a layer's packs, then its manifest, then, when all the  *)
(* layers are there, the image's descriptor.  A layer whose manifest exists   *)
(* is not stored again.                                                       *)
(*****************************************************************************)
LayersNamed == UNION images

HasManifest(l) == layers[l] \in {"full", "broken"}

BlessBegin(ls) ==
  /\ May("layers") /\ bless.pc = "idle" /\ Spend("op")
  /\ bless' = [pc |-> "layers", age |-> 0, image |-> ls, todo |-> ls, up |-> {}]
  /\ UNCHANGED <<occurring, s3Vars, vm, past, calls, layers, images, layerMarks, gcVars>>

BlessHit(l) == /\ HasManifest(l) /\ l \notin bless.up
               /\ May("dedup") \/ l \in LayersNamed
               /\ bless' = [bless EXCEPT !.todo = @ \ {l}]
               /\ UNCHANGED layers

BlessPacks(l) == /\ ~HasManifest(l) /\ l \notin bless.up
                 /\ layers' = [layers EXCEPT ![l] = "packs"]
                 /\ bless' = [bless EXCEPT !.up = @ \cup {l}]

\* The packs are uploaded; gc may have removed them since.
BlessManifest(l) == /\ l \in bless.up
                    /\ layers' = [layers EXCEPT ![l] = IF @ = "packs" THEN "full" ELSE "broken"]
                    /\ bless' = [bless EXCEPT !.todo = @ \ {l}]

BlessLayer(l) ==
  /\ bless.pc = "layers" /\ l \in bless.todo
  /\ BlessHit(l) \/ BlessPacks(l) \/ BlessManifest(l)
  /\ UNCHANGED <<occurring, s3Vars, vm, past, calls, images, layerMarks, gcVars, left>>

\* The bless gives up: at an error, or (a bound) at an unreferenced layer that
\* this scenario does not let it find.
BlessStops ==
  /\ bless.pc = "layers"
  /\ \/ May("fault") /\ Spend("fault")
     \/ /\ ~May("dedup") /\ UNCHANGED left
        /\ \E l \in bless.todo \ (bless.up \cup LayersNamed) : HasManifest(l)
  /\ bless' = Idle
  /\ UNCHANGED <<occurring, s3Vars, vm, past, calls, layers, images, layerMarks, gcVars>>

\* images/{name}: one name is modelled, so a bless replaces the descriptor.
BlessPublish ==
  /\ bless.pc = "layers" /\ bless.todo = {}
  /\ images' = {bless.image}
  /\ bless' = Idle
  /\ UNCHANGED <<occurring, s3Vars, vm, past, calls, layers, layerMarks, gcVars, left>>

(*****************************************************************************)
(* glidefs gc.  The marks are loaded at the start and saved at the end; what  *)
(* the run learns is collected in `new` and `cleared` until then.             *)
(*****************************************************************************)
GcStart ==
  /\ May("gc") /\ gc.pc = "idle"
  /\ May("mid_flush") \/ \A v \in Vols : Uploaded(v) = {}
  /\ gc' = [pc |-> "scan", age |-> 0, budget |-> MaxDeletes, new |-> <<>>, cleared |-> {}]
  /\ scan' = [p \in Pools |-> [pc |-> "list"]]
  /\ UNCHANGED <<occurring, s3Vars, vm, past, calls, layerVars, marks, left>>

InScan == UNCHANGED <<occurring, s3Vars, vm, past, calls, layerVars, marks, left>>

\* Everything below manifests/ but *.boot-set and *.hot-set is taken for a
\* manifest, the *.boot-set.meta and *.runspec sidecars of a base too; what
\* does not parse ends the prefix.
GcList(p) ==
  /\ scan[p].pc = "list"
  /\ scan' = [scan EXCEPT ![p] =
                IF May("sidecar") THEN [pc |-> "done"]
                ELSE [pc |-> "get", live |-> {},
                      todo |-> {v \in Vols : PoolOf(v) = p /\ manifest[v] # None}]]
  /\ UNCHANGED gc /\ InScan

GcGet(p, v) ==
  /\ scan[p].pc = "get" /\ v \in scan[p].todo
  /\ scan' = [scan EXCEPT ![p].todo = @ \ {v}, ![p].live = @ \cup Named(manifest[v])]
  /\ UNCHANGED gc /\ InScan

\* Pass 1b: the packs of the live manifests lose their mark.
GcPacks(p) ==
  /\ scan[p].pc = "get" /\ scan[p].todo = {}
  /\ LET dead == objects[p] \ scan[p].live IN
       scan' = [scan EXCEPT ![p] = IF dead = {} THEN [pc |-> "done"]
                                   ELSE [pc |-> "snaps", dead |-> dead, todo |-> snaps[p]]]
  /\ gc' = [gc EXCEPT !.cleared = @ \cup (objects[p] \cap scan[p].live \cap DOMAIN marks)]
  /\ InScan

\* Pass 2: the packs of the snapshots are not dead either.
GcSnapshot(p, s) ==
  /\ scan[p].pc = "snaps" /\ s \in scan[p].todo
  /\ scan' = [scan EXCEPT ![p].todo = @ \ {s},
                          ![p].dead = IF s \in snaps[p] THEN @ \ Named(s) ELSE @]
  /\ UNCHANGED gc /\ InScan

Eligible(dead) == {x \in dead : \/ x \in DOMAIN marks /\ marks[x] >= Grace
                                \/ x \notin DOMAIN marks /\ Grace = 0}

Claims(elig) == {c \in SUBSET elig : Cardinality(c) = Min({gc.budget, Cardinality(elig)})}

GcMark(p) ==
  /\ scan[p].pc = "snaps" /\ scan[p].todo = {}
  /\ \E c \in Claims(Eligible(scan[p].dead)) :
       /\ scan' = [scan EXCEPT ![p] = [pc |-> "delete", todo |-> c]]
       /\ gc' = [gc EXCEPT !.budget = @ - Cardinality(c),
                           !.new = @ @@ [x \in scan[p].dead \ DOMAIN marks |-> 0]]
  /\ InScan

\* A delete that fails is not recorded.
GcDelete(p, x) ==
  /\ scan[p].pc = "delete" /\ x \in scan[p].todo
  /\ scan' = [scan EXCEPT ![p].todo = @ \ {x}]
  /\ \/ /\ objects' = [objects EXCEPT ![p] = @ \ {x}]
        /\ gc' = [gc EXCEPT !.cleared = @ \cup {x}]
        /\ UNCHANGED left
     \/ May("gc_error") /\ Spend("fault") /\ UNCHANGED <<objects, gc>>
  /\ UNCHANGED <<occurring, manifest, snaps, vm, past, calls, layerVars, marks>>

GcPrefixDone(p) ==
  /\ scan[p].pc = "delete" /\ scan[p].todo = {}
  /\ scan' = [scan EXCEPT ![p] = [pc |-> "done"]]
  /\ UNCHANGED gc /\ InScan

\* A manifest, or a snapshot, cannot be fetched: nothing of the prefix is dead.
GcPrefixError(p) ==
  /\ May("gc_error") /\ scan[p].pc \in {"get", "snaps"} /\ scan[p].todo # {}
  /\ Spend("fault")
  /\ scan' = [scan EXCEPT ![p] = [pc |-> "done"]]
  /\ UNCHANGED <<occurring, s3Vars, vm, past, calls, layerVars, marks, gc>>

\* Mutant of SavedMarks: a pack still dead is marked anew.
MarksRenewed == [x \in (DOMAIN marks \ gc.cleared) \cup DOMAIN gc.new |-> 0]

\* When every prefix is done its findings are applied, then the layers are
\* reconciled: the descriptors are read, then the layers listed.
SavedMarks == [x \in (DOMAIN marks \ gc.cleared) \cup DOMAIN gc.new |->
                 IF x \in DOMAIN marks THEN marks[x] ELSE gc.new[x]]

GcDescriptors ==
  /\ gc.pc = "scan" /\ \A p \in Pools : scan[p].pc = "done"
  /\ gc' = [gc EXCEPT !.pc = "descriptors"] @@ [live |-> LayersNamed]
  /\ UNCHANGED <<occurring, s3Vars, vm, past, calls, layerVars, scan, marks, left>>

GcLayers ==
  /\ gc.pc = "descriptors"
  /\ gc' = [gc EXCEPT !.pc = "layers"]
           @@ [todo |-> {l \in Layers : layers[l] # "absent"}, lnew |-> <<>>, lcleared |-> {}]
  /\ UNCHANGED <<occurring, s3Vars, vm, past, calls, layerVars, scan, marks, left>>

LayerEligible(l) == l \in DOMAIN layerMarks /\ layerMarks[l] >= Grace

GcLayer(l) ==
  /\ gc.pc = "layers" /\ l \in gc.todo
  /\ \/ /\ l \in gc.live
        /\ gc' = [gc EXCEPT !.todo = @ \ {l}, !.lcleared = @ \cup {l}]
        /\ UNCHANGED layers
     \/ /\ l \notin gc.live /\ LayerEligible(l) /\ gc.budget > 0
        /\ gc' = [gc EXCEPT !.todo = @ \ {l}, !.lcleared = @ \cup {l}, !.budget = @ - 1]
        /\ layers' = [layers EXCEPT ![l] = "absent"]
     \/ /\ l \notin gc.live /\ ~(LayerEligible(l) /\ gc.budget > 0)
        /\ gc' = [gc EXCEPT !.todo = @ \ {l},
                            !.lnew = IF l \in DOMAIN layerMarks THEN @ ELSE @ @@ (l :> 0)]
        /\ UNCHANGED layers
  /\ UNCHANGED <<occurring, s3Vars, vm, past, calls, images, bless, layerMarks, scan, marks, left>>

\* chunks/ lists before manifests/: a delete that fails half way leaves the
\* manifest, and the run ends without saving what it did.
GcLayerFails(l) ==
  /\ May("gc_error") /\ Spend("fault")
  /\ gc.pc = "layers" /\ l \in gc.todo \ gc.live /\ LayerEligible(l) /\ gc.budget > 0
  /\ layers' = [layers EXCEPT ![l] = IF @ = "packs" THEN "absent" ELSE "broken"]
  /\ gc' = Idle
  /\ scan' = [p \in Pools |-> Idle]
  /\ UNCHANGED <<occurring, s3Vars, vm, past, calls, images, bless, layerMarks, marks>>

GcSave ==
  /\ gc.pc = "layers" /\ gc.todo = {}
  /\ marks' = SavedMarks
  /\ layerMarks' = [l \in (DOMAIN layerMarks \ gc.lcleared) \cup DOMAIN gc.lnew |->
                      IF l \in DOMAIN layerMarks THEN layerMarks[l] ELSE gc.lnew[l]]
  /\ gc' = Idle
  /\ scan' = [p \in Pools |-> Idle]
  /\ UNCHANGED <<occurring, s3Vars, vm, past, calls, layers, images, bless, left>>

\* The process dies, or a listing fails: the state file keeps the old marks.
GcDies ==
  /\ May("gc_dies") /\ gc.pc # "idle" /\ Spend("fault")
  /\ gc' = Idle
  /\ scan' = [p \in Pools |-> Idle]
  /\ UNCHANGED <<occurring, s3Vars, vm, past, calls, layerVars, marks>>

(*****************************************************************************)
(* Time.  A call that has uploaded or read something publishes it within      *)
(* OpTicks, and a gc run ends within OpTicks.                                 *)
(*****************************************************************************)
Older(f) == [x \in DOMAIN f |-> Min({f[x] + 1, Grace})]

Aged(call) == IF "age" \in DOMAIN call THEN [call EXCEPT !.age = @ + 1] ELSE call

InTime(call) == "age" \in DOMAIN call => call.age < OpTicks

Tick ==
  /\ May("gc")
  /\ \A v \in Vols : /\ flush[v].pc = "upload" \/ InTime(flush[v])
                     /\ comp[v].pc = "upload" \/ InTime(comp[v])
                     /\ InTime(fork[v])
  /\ InTime(bless) /\ InTime(gc)
  /\ flush' = [v \in Vols |-> IF flush[v].pc = "upload" THEN flush[v] ELSE Aged(flush[v])]
  /\ comp' = [v \in Vols |-> IF comp[v].pc = "upload" THEN comp[v] ELSE Aged(comp[v])]
  /\ fork' = [v \in Vols |-> Aged(fork[v])]
  /\ bless' = Aged(bless)
  /\ gc' = IF gc.pc = "idle" THEN gc
           ELSE LET g == [Aged(gc) EXCEPT !.new = Older(@)]
                IN IF "lnew" \in DOMAIN g THEN [g EXCEPT !.lnew = Older(@)] ELSE g
  /\ marks' = Older(marks) /\ layerMarks' = Older(layerMarks)
  /\ UNCHANGED <<occurring, s3Vars, vm, past, fill, layers, images, scan, left>>

GcStep == \/ GcStart \/ GcDescriptors \/ GcLayers \/ GcSave
          \/ \E l \in Layers : GcLayer(l)
          \/ \E p \in Pools :
               \/ GcList(p) \/ GcPacks(p) \/ GcMark(p) \/ GcPrefixDone(p)
               \/ \E v \in Vols : GcGet(p, v)
               \/ scan[p].pc = "snaps" /\ \E s \in scan[p].todo : GcSnapshot(p, s)
               \/ scan[p].pc = "delete" /\ \E x \in scan[p].todo : GcDelete(p, x)

GcFault == \/ GcDies
           \/ \E l \in Layers : GcLayerFails(l)
           \/ \E p \in Pools : GcPrefixError(p)

VolumeStep(v) == \/ FlushUpload(v) \/ FlushAppend(v) \/ FlushPut(v)
                 \/ CompactUpload(v) \/ CompactSwap(v) \/ CompactSync(v)
                 \/ FillSet(v) \/ ForkPut(v)

Request(v) == \/ \E b \in Batches : FlushBegin(v, b) \/ FlushSkips(v, b)
              \/ FlushFails(v) \/ CompactBegin(v) \/ CompactFails(v) \/ FillBegin(v)
              \/ Snapshot(v) \/ Create(v) \/ Purge(v)
              \/ \E m \in Sources(PoolOf(v)) : ForkRead(v, m)

BlessStep == \/ (bless.pc = "layers" /\ \E l \in bless.todo : BlessLayer(l))
             \/ BlessPublish \/ BlessStops

StoreNext ==
  \/ \E v \in Vols : VolumeStep(v) \/ Request(v)
  \/ \E p \in Pools : \E s \in snaps[p] : DeleteSnapshot(p, s)
  \/ \E ls \in (SUBSET Layers) \ {{}} : BlessBegin(ls)
  \/ BlessStep
  \/ GcStep \/ GcFault \/ Tick

StoreSpec == StoreInit /\ [][StoreNext]_storeVars

\* gc is run again and again, by a timer outside the program; the calls in
\* progress are tasks the runtime keeps scheduling.
StoreFairness == /\ WF_storeVars(GcStep) /\ WF_storeVars(Tick) /\ WF_storeVars(BlessStep)
                 /\ \A v \in Vols : WF_storeVars(VolumeStep(v))

StoreLiveSpec == StoreSpec /\ StoreFairness

(*****************************************************************************)
(* Properties                                                                 *)
(*****************************************************************************)
Excludes(combos) == \A c \in combos : ~(c \subseteq occurring)

\* No manifest and no snapshot in S3 ever names a pack that is not there: gc
\* deletes only what nothing refers to, whatever it read before or after a
\* flush, a compaction, a snapshot, a fork or a purge.
NoDangling == \A p \in Pools : Referenced(p) \subseteq objects[p]

\* The same, of the behaviours in which the age of a mark is the time its pack
\* has been unreferenced.  It is not when an upload finds its object there, when
\* a run dies between its deletes and its save, when a mark taken of an upload
\* in progress is not cleared before the pack loses its last reference, when
\* two pools share a mark, or when a manifest PUT failed and the in-memory
\* manifest alone names the pack, or the deletion of an index entry and the
\* cache alone has the snapshot.
PacksKept == \/ ~Excludes({{"gc", "dedup"}, {"gc", "gc_dies"}, {"gc", "fault"},
                           {"mid_flush", "fork"}, {"mid_flush", "pools"}})
             \/ NoDangling

\* Every layer an image descriptor names is complete, although its layers are
\* uploaded before the descriptor exists (gc.rs, reconcile_layers), unless the
\* mark is older than the bless: one of a layer it finds there, or of what a
\* failed attempt left behind.
LayersComplete == \/ ~Excludes({{"layers", "dedup"}, {"layers", "gc_dies"}, {"layers", "fault"}})
                  \/ \A l \in LayersNamed : layers[l] = "full"

\* The packs of a volume always resolve to what its flushes stored: a compaction
\* loses no tombstone and no pack appended while it ran.  Excluded are the
\* offsets of a pack that was skipped because the manifest listed it, below a
\* newer one, until they are packed again.
ContentKept ==
  \A v \in Vols : vm[v] # None =>
     LET kept(f) == [o \in DOMAIN f \ skipped[v] |-> f[o]]
     IN kept(Merged(vm[v].packs)) = kept(truth[v])

\* A live-block count that is known is exact, in memory and in S3, whatever
\* flush or compaction overtook the backfill that computed it.
LiveExact == \A v \in Vols : \A m \in {vm[v], manifest[v]} \ {None} :
               m.live # None => m.live = LiveBlocks(Merged(m.packs))

\* What nothing refers to is deleted in the end, within the deletes a run is
\* allowed: unless a base's sidecar makes every run skip the prefix, or the live
\* pack of another prefix clears the mark of a dead one with the same content.
GarbageReclaimed ==
  \/ ~Excludes({{"sidecar"}, {"pools"}})
  \/ <>[](/\ May("gc") => \A p \in Pools : objects[p] \subseteq Referenced(p)
          /\ May("gc") => \A l \in Layers : layers[l] # "absent" => l \in LayersNamed)

\* Collection, compaction, forks and image uploads beside each other lose no
\* pack, no layer and no block that a volume or an image can still reach.
DataKept == PacksKept /\ LayersComplete /\ ContentKept
=============================================================================
