------------------------------ MODULE Exports ------------------------------
(***************************************************************************)
(* The life cycle of the exports of one node, as driven by the HTTP API    *)
(* (block/api.rs, block/router.rs, block/registry.rs) and by the start-up  *)
(* and shutdown of cli/server.rs: a PUT creates, forks, re-attaches or     *)
(* resizes a volume, a DELETE removes or purges it, snapshots are taken,   *)
(* deleted and promoted to bases, and the daemon crashes, stops and        *)
(* restarts.  Every call to the object store is a step of its own, so      *)
(* another request, a crash or an S3 error falls between any two of them.  *)
(*                                                                         *)
(* The content of a volume is the set of guest writes it holds.  What the  *)
(* flush, the checkpoint and the recovery of one write cache do step by    *)
(* step is in FlushCycle and Checkpoint, the tokens of the attach fence    *)
(* are in Fencing; here each of them is one step.                          *)
(***************************************************************************)
EXTENDS Naturals, Sequences, FiniteSets, FiniteSetsExt, Functions

CONSTANTS
    Vols,          \* volume names; the pool of a blank volume has its name
    Base,          \* the name of the one image
    Reqs,          \* slots for API requests in progress
    None,          \* "no such object"
    NbdVols,       \* the volumes whose transport is nbd; the others use ublk
    MaxSize,       \* device sizes are 1..MaxSize
    MaxWrites,     \* bound on guest writes
    MaxOps,        \* bound on API requests
    MaxFailures,     \* bound on failing S3 and device calls
    MaxCrashes,    \* bound on crashes and orderly stops
    ExScenarios    \* sets of events, one of which a behaviour may contain

(* The events: "overlap" (two requests for one volume at a time),          *)
(* "disconnect" (a client goes away and its handler is dropped),           *)
(* "recreate" (a purged name is used again), "resize", "snapshot",         *)
(* "purge", "crash", "attach_error" (the fence, export.json or the device  *)
(* fails a PUT) and "boot_error" (S3 fails a start-up).                    *)

ASSUME ExportsAssumption ==
    /\ NbdVols \subseteq Vols
    /\ Base \notin Vols
    /\ {MaxSize, MaxWrites, MaxOps, MaxFailures, MaxCrashes} \subseteq Nat

VARIABLES
    events,        \* the events of this behaviour, chosen initially
    defs,          \* S3: export.json of each volume, or None
    objects,       \* S3: manifests and snapshots by key
    index,         \* S3: snapshot index, <<volume, sequence>> to pool
    image,         \* S3: image index entry of Base (a key), or None
    exports,       \* memory: the live exports, None when not attached
    cached,        \* memory: manifest_cache
    devices,       \* the volumes with a registered kernel device
    disk,          \* SSD: the cache files of each volume, or None
    devMap,        \* SSD: the volumes in the persisted device maps
    up,            \* whether the daemon runs
    reqs,          \* the API request in each slot
    accepted,      \* history: what each volume must contain
    answered,      \* history: volumes a PUT reported attached, not removed since
    grown,         \* history: the largest size a PUT reported
    purges,        \* history: the purge of each volume: None, asked for, or done
    taken,         \* history: content of each snapshot in S3
    promoted,      \* history: volumes written on a block a snapshot was flushing
    writes, ops, failures, crashes

bucket == <<defs, objects, index, image>>
memory == <<exports, cached, devices, up>>
ssd == <<disk, devMap>>
exHistory == <<accepted, answered, grown, purges, taken, promoted>>
bounds == <<writes, ops, failures, crashes>>
exportsVars == <<events, bucket, memory, ssd, reqs, exHistory, bounds>>

Idle == [pc |-> "idle", vol |-> None]
Larger(a, b) == IF a >= b THEN a ELSE b
Put(f, k, x) == [i \in DOMAIN f \cup {k} |-> IF i = k THEN x ELSE f[i]]
Drop(f, ks) == Restrict(f, DOMAIN f \ ks)
Empty == [k \in {} |-> None]

(* Keys: manifests/{name}, manifests/bases/{name} and the snapshots of a   *)
(* volume, all within a pool.                                              *)
Live(pool, v) == <<"live", pool, v, 0>>
BaseKey(pool) == <<"base", pool, Base, 0>>
Snap(pool, v, n) == <<"snap", pool, v, n>>

-----------------------------------------------------------------------------
(* One write cache and its files.                                          *)

NoFiles == [meta |-> 0, saved |-> {}, wal |-> {}]
Files(v) == IF disk[v] = None THEN NoFiles ELSE disk[v]

\* Mutant of Recovered: the log is not replayed.
RecoveredWithoutWal(f) == f.saved

(* Recovery: the saved block states, and the WAL entries above the         *)
(* sequence they were saved at.                                            *)
Recovered(f) == f.saved \cup {e[2] : e \in {x \in f.wal : x[1] > f.meta}}
RecoveredSeq(f) == Max({f.meta} \cup {e[1] : e \in f.wal})

(* shutdown() saves the block states and leaves the WAL; a checkpoint, the *)
(* end of a flush included, truncates it.                                  *)
ShutDown(e, f) == [meta |-> e.seq, saved |-> e.dirty, wal |-> f.wal]
Checkpointed(e) == [meta |-> e.seq, saved |-> e.dirty, wal |-> {}]

Flushed(e) == [e EXCEPT !.man = @ \cup e.dirty, !.dirty = {}]
ManifestOf(e) == [data |-> e.man, size |-> e.size]
Publish(e, v) == Put(objects, Live(e.pool, v), ManifestOf(e))

-----------------------------------------------------------------------------
(* Requests and failures.                                                  *)

At(r, step) == up /\ reqs[r].pc = step
Goto(r, rec) == reqs' = [reqs EXCEPT ![r] = rec]
Ends(r) == Goto(r, Idle)
Busy(v) == \E r \in Reqs : reqs[r].vol = v

Succeeds == UNCHANGED failures
Fails == failures < MaxFailures /\ failures' = failures + 1
AttachFails == "attach_error" \in events /\ Fails

Arrives(r, v) ==
    /\ up /\ reqs[r] = Idle
    /\ ops < MaxOps /\ ops' = ops + 1
    /\ "overlap" \in events \/ ~Busy(v)

(* A snapshot holds flush_lock until its copy is put.                      *)
Flushing(v) == \E r \in Reqs : reqs[r].vol = v /\ reqs[r].pc \in {"snapshot", "version"}

(* persist_devices rewrites the whole map of one transport from memory.    *)
Transport(v) == IF v \in NbdVols THEN NbdVols ELSE Vols \ NbdVols
MapAfter(devs, v) == (devMap \ Transport(v)) \cup (devs \cap Transport(v))

RemoveDevice(v) ==
    /\ devices' = devices \ {v}
    /\ devMap' = IF v \in devices THEN MapAfter(devices \ {v}, v) ELSE devMap

(* cleanup_failed_create: drop the export undrained, device and files.     *)
CleanUp(v) ==
    IF exports[v] = None
    THEN UNCHANGED <<exports, devices, devMap, disk>>
    ELSE /\ exports' = [exports EXCEPT ![v] = None]
         /\ disk' = [disk EXCEPT ![v] = None]
         /\ RemoveDevice(v)

-----------------------------------------------------------------------------
(* PUT /api/exports/{name}                                                 *)

(* resolve_source: a logical reference to a pool and a manifest key.       *)
Source(from, v) ==
    CASE from.kind = "blank" -> [pool |-> v, key |-> None]
      [] from.kind = "image" -> [pool |-> image[2], key |-> image]
      [] from.kind = "volume" ->
            [pool |-> defs[from.vol].pool, key |-> Live(defs[from.vol].pool, from.vol)]
      [] from.kind = "snapshot" ->
            [pool |-> index[from.id], key |-> Snap(index[from.id], from.id[1], from.id[2])]

Sources(v) ==
    {[kind |-> "blank"]}
        \cup (IF image = None THEN {} ELSE {[kind |-> "image"]})
        \cup {[kind |-> "volume", vol |-> u] : u \in {x \in Vols \ {v} : defs[x] # None}}
        \cup {[kind |-> "snapshot", id |-> i] : i \in {x \in DOMAIN index : x[1] # v}}

(* A volume attached here goes to the fence and may be resized; one with   *)
(* an export.json is re-attached as recorded; any other is created.        *)
PutVolume(r, v, from, size) ==
    /\ Arrives(r, v)
    /\ "resize" \in events \/ size = 1
    /\ "recreate" \in events \/ purges[v] = None
    /\ purges' = [purges EXCEPT ![v] = None]
    /\ \/ /\ exports[v] # None
          /\ Goto(r, [pc |-> "fence", vol |-> v, attached |-> TRUE, size |-> size])
          /\ UNCHANGED answered
       \/ /\ exports[v] = None /\ defs[v] # None
          /\ Goto(r, [pc |-> "create", vol |-> v, resizing |-> FALSE, key |-> None,
                      pool |-> defs[v].pool, size |-> Larger(size, defs[v].size),
                      src |-> defs[v].src, want |-> accepted[v]])
          /\ answered' = answered \ {v}
       \/ /\ exports[v] = None /\ defs[v] = None
          /\ Goto(r, [pc |-> "create", vol |-> v, resizing |-> FALSE,
                      key |-> Source(from, v).key, pool |-> Source(from, v).pool,
                      size |-> size, src |-> from.kind # "blank", want |-> {}])
          /\ answered' = answered \ {v}
    /\ UNCHANGED <<events, bucket, memory, ssd, accepted, grown, taken, promoted, writes, failures, crashes>>

(* The manifest a fork starts from: snapshots and bases come from          *)
(* manifest_cache when they are there and are kept in it.                  *)
Cacheable(key) == key[1] \in {"snap", "base"}
Hit(key) == Cacheable(key) /\ key \in DOMAIN cached
Fetched(key) == IF Hit(key) THEN cached[key] ELSE objects[key]

(* What the caller may expect to find in the fork: of a number that two    *)
(* snapshots may share, whichever of them is found.                        *)
Expected(key) ==
    IF key[1] = "snap" /\ <<key[3], key[4]>> \in DOMAIN taken /\ key[3] \notin promoted
    THEN taken[<<key[3], key[4]>>] ELSE Fetched(key).data

(* create_export up to the new cache.  It answers Ok at once for a volume  *)
(* that is already there.  A fork needs its source's manifest; a recorded  *)
(* volume its own, which only a blank one may lack (LineageLost); a failed *)
(* fetch is an error, never an empty volume.                               *)
CreateExport(r) ==
    LET q == reqs[r]
        v == q.vol
        own == Live(q.pool, v)
        new(man, dirty, size, n) ==
            [pool |-> q.pool, man |-> man, dirty |-> dirty, seq |-> n,
             size |-> Larger(q.size, size), src |-> q.src]
    IN  /\ At(r, "create")
        /\ \/ /\ exports[v] # None /\ Succeeds
              /\ Goto(r, [pc |-> "fence", vol |-> v, attached |-> FALSE, size |-> q.size])
              /\ UNCHANGED <<cached, disk>>
           \/ /\ exports[v] = None /\ q.key # None /\ Succeeds
              /\ Hit(q.key) \/ q.key \in DOMAIN objects
              /\ Goto(r, [pc |-> "install", vol |-> v, resizing |-> q.resizing,
                          fork |-> TRUE,
                          want |-> IF q.resizing THEN q.want ELSE Expected(q.key),
                          new |-> new(Fetched(q.key).data, {}, Fetched(q.key).size, 0)])
              /\ cached' = IF Cacheable(q.key) THEN Put(cached, q.key, Fetched(q.key))
                                               ELSE cached
              /\ disk' = [disk EXCEPT ![v] = Files(v)]
           \/ /\ exports[v] = None /\ q.key = None /\ Succeeds
              /\ own \in DOMAIN objects \/ ~q.src
              /\ LET m == IF own \in DOMAIN objects THEN objects[own]
                                                    ELSE [data |-> {}, size |-> 0]
                 IN  Goto(r, [pc |-> "install", vol |-> v, resizing |-> FALSE,
                              fork |-> FALSE, want |-> q.want,
                              new |-> new(m.data, Recovered(Files(v)), m.size,
                                          RecoveredSeq(Files(v)))])
              /\ disk' = [disk EXCEPT ![v] = Files(v)]
              /\ UNCHANGED cached
           \/ /\ exports[v] = None
              /\ \/ Fails
                 \/ q.key # None /\ ~Hit(q.key) /\ q.key \notin DOMAIN objects /\ Succeeds
                 \/ q.key = None /\ own \notin DOMAIN objects /\ q.src /\ Succeeds
              /\ Ends(r)
              /\ UNCHANGED <<cached, disk>>
        /\ UNCHANGED <<events, bucket, exports, devices, up, devMap, exHistory, writes, ops, crashes>>


(* The rest of create_export: a fork's manifest is made durable, then the  *)
(* export becomes visible unless another create was faster.                *)
MakeLineageDurable(e, v, fork) == IF fork THEN Publish(e, v) ELSE objects
InstallExport(r) ==
    LET q == reqs[r]
        v == q.vol
    IN  /\ At(r, "install")
        /\ \/ /\ Succeeds
              /\ objects' = MakeLineageDurable(q.new, v, q.fork)
              /\ IF exports[v] = None
                 THEN /\ exports' = [exports EXCEPT ![v] = q.new]
                      /\ accepted' = [accepted EXCEPT ![v] = q.want]
                 ELSE UNCHANGED <<exports, accepted>>
              /\ Goto(r, IF q.resizing
                         THEN [pc |-> "resave", vol |-> v, size |-> q.new.size, src |-> q.new.src]
                         ELSE [pc |-> "fence", vol |-> v, attached |-> FALSE, size |-> q.new.size])
           \/ /\ q.fork /\ Fails
              /\ objects' \in {objects, Publish(q.new, v)}
              /\ Ends(r)
              /\ UNCHANGED <<exports, accepted>>
        /\ UNCHANGED <<events, defs, index, image, cached, devices, up, ssd,
                       answered, grown, purges, taken, promoted, writes, ops, crashes>>

(* enforce_attach_fence: a grant may seize, which publishes the manifest.  *)
(* A new attach that is not granted is undone; a repeated one is answered. *)
AttachFence(r) ==
    LET q == reqs[r]
        v == q.vol
    IN  /\ At(r, "fence")
        /\ \/ /\ Succeeds
              /\ exports[v] # None
              /\ objects' \in {objects, Publish(exports[v], v)}
              /\ IF ~q.attached
                 THEN /\ Goto(r, [pc |-> "persist", vol |-> v, saved |-> "no",
                                  device |-> "no", def |-> [pool |-> exports[v].pool,
                                  size |-> exports[v].size, src |-> exports[v].src]])
                      /\ UNCHANGED <<answered, grown>>
                 ELSE IF q.size > exports[v].size
                 THEN /\ Goto(r, [pc |-> "drain", vol |-> v, size |-> q.size,
                                  pool |-> exports[v].pool])
                      /\ answered' = answered \ {v} /\ UNCHANGED grown
                 ELSE /\ Ends(r)
                      /\ answered' = answered \cup {v}
                      /\ grown' = [grown EXCEPT ![v] = Max({@, exports[v].size})]
              /\ UNCHANGED <<exports, devices, ssd>>
           \/ /\ AttachFails \/ (exports[v] = None /\ Succeeds)
              /\ Ends(r)
              /\ IF q.attached THEN UNCHANGED <<exports, devices, ssd>> ELSE CleanUp(v)
              /\ UNCHANGED <<objects, answered, grown>>
        /\ UNCHANGED <<events, defs, index, image, cached, up, accepted, purges, taken, promoted,
                       writes, ops, crashes>>

(* save_export and register_device run concurrently (tokio::join!).        *)
SaveExport(r) ==
    LET q == reqs[r]
    IN  /\ At(r, "persist") /\ q.saved = "no"
        /\ \/ /\ Succeeds
              /\ defs' = [defs EXCEPT ![q.vol] = q.def]
              /\ Goto(r, [q EXCEPT !.saved = "ok"])
           \/ /\ AttachFails
              /\ Goto(r, [q EXCEPT !.saved = "error"])
              /\ UNCHANGED defs
        /\ UNCHANGED <<events, objects, index, image, memory, ssd, exHistory, writes, ops, crashes>>

(* A device that is already registered, or an export that is gone, is an   *)
(* error of add_device.                                                    *)
CanRegister(v) == exports[v] # None /\ v \notin devices
RegisterDevice(r) ==
    LET q == reqs[r]
    IN  /\ At(r, "persist") /\ q.device = "no"
        /\ \/ /\ CanRegister(q.vol) /\ Succeeds
              /\ devices' = devices \cup {q.vol}
              /\ devMap' = MapAfter(devices', q.vol)
              /\ Goto(r, [q EXCEPT !.device = "ok"])
           \/ /\ (~CanRegister(q.vol) /\ Succeeds) \/ AttachFails
              /\ Goto(r, [q EXCEPT !.device = "error"])
              /\ UNCHANGED <<devices, devMap>>
        /\ UNCHANGED <<events, bucket, exports, cached, up, disk, exHistory, writes, ops, crashes>>

(* An export.json that was not written, or a ublk export without a device, *)
(* undoes the attach; an nbd export is served over TCP without one.        *)
AnswerPut(r) ==
    LET q == reqs[r]
        v == q.vol
        failed == q.saved = "error" \/ (q.device = "error" /\ v \notin NbdVols)
    IN  /\ At(r, "persist") /\ q.saved # "no" /\ q.device # "no"
        /\ Ends(r)
        /\ IF failed THEN CleanUp(v) ELSE UNCHANGED <<exports, devices, ssd>>
        /\ IF failed \/ exports[v] = None
           THEN UNCHANGED <<answered, grown>>
           ELSE /\ answered' = answered \cup {v}
                /\ grown' = [grown EXCEPT ![v] = Max({@, exports[v].size})]
        /\ UNCHANGED <<events, bucket, cached, up, accepted, purges, taken, promoted, bounds>>

-----------------------------------------------------------------------------
(* Resizing: resize_export, then the device again.                         *)

ResizeDrain(r) ==
    LET q == reqs[r]
        v == q.vol
    IN  /\ At(r, "drain")
        /\ ~Flushing(v)
        /\ \/ /\ exports[v] # None /\ Succeeds
              /\ exports' = [exports EXCEPT ![v] = Flushed(@)]
              /\ objects' = Publish(Flushed(exports[v]), v)
              /\ disk' = [disk EXCEPT ![v] = Checkpointed(Flushed(exports[v]))]
              /\ Goto(r, [q EXCEPT !.pc = "remove"])
              /\ UNCHANGED answered
           \/ /\ (exports[v] = None /\ Succeeds) \/ Fails
              /\ Ends(r)
              /\ answered' = IF exports[v] = None THEN answered ELSE answered \cup {v}
              /\ UNCHANGED <<exports, objects, disk>>
        /\ UNCHANGED <<events, defs, index, image, cached, devices, up, devMap,
                       accepted, grown, purges, taken, promoted, writes, ops, crashes>>

(* remove_export(purge = false) of the volume that is being resized.       *)
ResizeRemove(r) ==
    LET q == reqs[r]
        v == q.vol
    IN  /\ At(r, "remove")
        /\ IF exports[v] = None
           THEN /\ Goto(r, [q EXCEPT !.pc = "reload"])
                /\ UNCHANGED <<exports, devices, devMap>>
           ELSE /\ Goto(r, [pc |-> "teardown", vol |-> v, old |-> exports[v],
                            purge |-> FALSE, resize |-> q.size])
                /\ exports' = [exports EXCEPT ![v] = None]
                /\ RemoveDevice(v)
        /\ UNCHANGED <<events, bucket, cached, up, disk, exHistory, bounds>>

(* load_export for the recorded source: an S3 error is taken for "none".   *)
ResizeReload(r) ==
    LET q == reqs[r]
        next(src) == [pc |-> "create", vol |-> q.vol, resizing |-> TRUE, pool |-> q.pool,
                      key |-> Live(q.pool, q.vol), size |-> q.size, src |-> src,
                      want |-> accepted[q.vol]]
    IN  /\ At(r, "reload")
        /\ \/ Succeeds /\ Goto(r, next(defs[q.vol] # None /\ defs[q.vol].src))
           \/ Fails /\ Goto(r, next(FALSE))
        /\ UNCHANGED <<events, bucket, memory, ssd, exHistory, writes, ops, crashes>>

ResizeSave(r) ==
    LET q == reqs[r]
        v == q.vol
    IN  /\ At(r, "resave")
        /\ \/ /\ Succeeds
              /\ exports[v] # None
              /\ defs' = [defs EXCEPT ![v] = [pool |-> exports[v].pool, size |-> q.size,
                                              src |-> q.src]]
              /\ Goto(r, [pc |-> "reregister", vol |-> v])
           \/ /\ (exports[v] = None /\ Succeeds) \/ Fails
              /\ Ends(r) /\ UNCHANGED defs
        /\ UNCHANGED <<events, objects, index, image, memory, ssd, exHistory, writes, ops, crashes>>

ResizeRegister(r) ==
    LET v == reqs[r].vol
    IN  /\ At(r, "reregister")
        /\ Ends(r)
        /\ \/ /\ CanRegister(v) /\ Succeeds
              /\ devices' = devices \cup {v}
              /\ devMap' = MapAfter(devices', v)
           \/ /\ (~CanRegister(v) /\ Succeeds) \/ AttachFails
              /\ UNCHANGED <<devices, devMap>>
        /\ IF exports[v] # None /\ (v \in devices' \/ v \in NbdVols)
           THEN /\ answered' = answered \cup {v}
                /\ grown' = [grown EXCEPT ![v] = Max({@, exports[v].size})]
           ELSE UNCHANGED <<answered, grown>>
        /\ UNCHANGED <<events, bucket, exports, cached, up, disk, accepted, purges, taken, promoted,
                       writes, ops, crashes>>

-----------------------------------------------------------------------------
(* DELETE /api/exports/{name}[?purge=true]: remove_export.                 *)

DeleteVolume(r, v, purge) ==
    /\ Arrives(r, v)
    /\ purge => "purge" \in events
    /\ answered' = answered \ {v}
    /\ accepted' = IF purge THEN [accepted EXCEPT ![v] = {}] ELSE accepted
    /\ grown' = IF purge THEN [grown EXCEPT ![v] = 0] ELSE grown
    /\ purges' = IF purge THEN [purges EXCEPT ![v] = [done |-> FALSE, pool |-> None]] ELSE purges
    /\ \/ /\ exports[v] # None
          /\ Goto(r, [pc |-> "teardown", vol |-> v, old |-> exports[v], purge |-> purge,
                      resize |-> 0])
          /\ exports' = [exports EXCEPT ![v] = None]
          /\ RemoveDevice(v)
          /\ UNCHANGED disk
       \/ /\ exports[v] = None
          /\ Goto(r, IF purge THEN [pc |-> "loaddef", vol |-> v] ELSE Idle)
          /\ disk' = IF purge THEN [disk EXCEPT ![v] = None] ELSE disk
          /\ UNCHANGED <<exports, devices, devMap>>
    /\ UNCHANGED <<events, bucket, cached, up, taken, promoted, writes, failures, crashes>>

(* teardown_export: a purge skips the drain and deletes the files; else    *)
(* the drain publishes everything, or gives up and leaves it on the SSD.   *)
Teardown(r) ==
    LET q == reqs[r]
        v == q.vol
    IN  /\ At(r, "teardown")
        /\ \/ /\ q.purge /\ Succeeds
              /\ disk' = [disk EXCEPT ![v] = None]
              /\ Goto(r, [pc |-> "purge", vol |-> v, pool |-> q.old.pool,
                          step |-> 1, error |-> FALSE])
              /\ UNCHANGED objects
           \/ /\ ~q.purge /\ Succeeds
              /\ objects' = Publish(Flushed(q.old), v)
              /\ disk' = [disk EXCEPT ![v] = ShutDown(Flushed(q.old), Files(v))]
              /\ Goto(r, IF q.resize = 0 THEN Idle
                         ELSE [pc |-> "reload", vol |-> v, pool |-> q.old.pool, size |-> q.resize])
           \/ /\ ~q.purge /\ Fails
              /\ disk' = [disk EXCEPT ![v] = ShutDown(q.old, Files(v))]
              /\ Ends(r)
              /\ UNCHANGED objects
        /\ UNCHANGED <<events, defs, index, image, memory, devMap, exHistory, writes, ops, crashes>>

(* A purge of a volume that is not attached finds the pool in export.json; *)
(* without one it only sweeps the snapshot index.                          *)
OfVolume(v) == {i \in DOMAIN index : i[1] = v}
PurgeDetached(r) ==
    LET v == reqs[r].vol
    IN  /\ At(r, "loaddef")
        /\ \/ /\ defs[v] # None /\ Succeeds
              /\ Goto(r, [pc |-> "purge", vol |-> v, pool |-> defs[v].pool,
                          step |-> 1, error |-> FALSE])
              /\ UNCHANGED index
           \/ /\ defs[v] = None /\ Succeeds
              /\ index' = Drop(index, OfVolume(v))
              /\ Ends(r)
           \/ /\ Fails /\ Ends(r) /\ UNCHANGED index
        /\ UNCHANGED <<events, defs, objects, image, memory, ssd, exHistory, writes, ops, crashes>>

(* purge_s3_state: each part is tried in turn whatever became of the one   *)
(* before; export.json, the retry handle, goes last and only if all went.  *)
PurgeOrder == <<"manifest", "snapshots", "index">>
PurgeStep(r) ==
    LET q == reqs[r]
        v == q.vol
        part == PurgeOrder[q.step]
    IN  /\ At(r, "purge") /\ q.step <= Len(PurgeOrder)
        /\ \/ /\ Succeeds
              /\ Goto(r, [q EXCEPT !.step = @ + 1])
              /\ objects' = CASE part = "manifest" -> Drop(objects, {Live(q.pool, v)})
                              [] part = "snapshots" ->
                                    Drop(objects, {k \in DOMAIN objects :
                                            k[1] = "snap" /\ k[2] = q.pool /\ k[3] = v})
                              [] OTHER -> objects
              /\ index' = IF part = "index" THEN Drop(index, OfVolume(v)) ELSE index
           \/ /\ Fails
              /\ Goto(r, [q EXCEPT !.step = @ + 1, !.error = TRUE])
              /\ UNCHANGED <<objects, index>>
        /\ UNCHANGED <<events, defs, image, memory, ssd, exHistory, writes, ops, crashes>>

PurgeDefinition(r) ==
    LET q == reqs[r]
    IN  /\ At(r, "purge") /\ q.step > Len(PurgeOrder)
        /\ Ends(r)
        /\ \/ /\ ~q.error /\ Succeeds
              /\ defs' = [defs EXCEPT ![q.vol] = None]
              /\ purges' = [purges EXCEPT ![q.vol] = [done |-> TRUE, pool |-> q.pool]]
           \/ /\ (q.error /\ Succeeds) \/ Fails
              /\ UNCHANGED <<defs, purges>>
        /\ UNCHANGED <<events, objects, index, image, memory, ssd, accepted, answered, grown,
                       taken, promoted, writes, ops, crashes>>

-----------------------------------------------------------------------------
(* Snapshots, tags and bases.                                              *)

(* snapshot_export: the flush reads the sequence number and claims the     *)
(* DIRTY blocks; guests go on writing while they are uploaded.             *)
SnapshotExport(r, v) ==
    /\ "snapshot" \in events
    /\ Arrives(r, v) /\ exports[v] # None /\ ~Flushing(v)
    /\ Goto(r, [pc |-> "snapshot", vol |-> v, old |-> exports[v]])
    /\ UNCHANGED <<events, bucket, memory, ssd, exHistory, writes, failures, crashes>>

(* The flush ends: the claimed contents are in the manifest, which is put. *)
SnapshotFlush(r) ==
    LET q == reqs[r]
        v == q.vol
        now == IF exports[v] = None THEN q.old ELSE exports[v]
        e == [now EXCEPT !.man = @ \cup q.old.dirty, !.dirty = @ \ q.old.dirty]
    IN  /\ At(r, "snapshot")
        /\ \/ /\ Succeeds
              /\ exports' = [exports EXCEPT ![v] = IF @ = None THEN @ ELSE e]
              /\ objects' = Publish(e, v)
              /\ disk' = [disk EXCEPT ![v] = IF @ = None THEN @ ELSE Checkpointed(e)]
              /\ Goto(r, [pc |-> "version", vol |-> v, pool |-> e.pool, seq |-> q.old.seq,
                          manifest |-> ManifestOf(e)])
           \/ /\ Fails /\ Ends(r)
              /\ UNCHANGED <<exports, objects, disk>>
        /\ UNCHANGED <<events, defs, index, image, cached, devices, up, devMap, exHistory,
                       writes, ops, crashes>>

(* The versioned copy is put, over one of the same number if there is one; *)
(* manifest_cache keeps the first.  Without a copy nothing is indexed.     *)
PutSnapshot(r) ==
    LET q == reqs[r]
        key == Snap(q.pool, q.vol, q.seq)
    IN  /\ At(r, "version")
        /\ \/ /\ Succeeds
              /\ objects' = Put(objects, key, q.manifest)
              /\ cached' = IF key \in DOMAIN cached THEN cached ELSE Put(cached, key, q.manifest)
              /\ taken' = Put(taken, <<q.vol, q.seq>>, q.manifest.data)
              /\ Goto(r, [pc |-> "index", vol |-> q.vol, pool |-> q.pool, seq |-> q.seq])
           \/ /\ Fails /\ Ends(r)
              /\ UNCHANGED <<objects, cached, taken>>
        /\ UNCHANGED <<events, defs, index, image, exports, devices, up, ssd,
                       accepted, answered, grown, purges, promoted, writes, ops, crashes>>

IndexSnapshot(r) ==
    LET q == reqs[r]
    IN  /\ At(r, "index")
        /\ Ends(r)
        /\ \/ Succeeds /\ index' = Put(index, <<q.vol, q.seq>>, q.pool)
           \/ Fails /\ UNCHANGED index
        /\ UNCHANGED <<events, defs, objects, image, memory, ssd, exHistory, writes, ops, crashes>>

(* delete_export_snapshot: the copy, then its index entry.                 *)
DeleteSnapshot(r, v, n) ==
    /\ Arrives(r, v) /\ exports[v] # None
    /\ <<v, n>> \in DOMAIN index
    /\ \/ /\ Succeeds
          /\ objects' = Drop(objects, {Snap(exports[v].pool, v, n)})
          /\ Goto(r, [pc |-> "unindex", vol |-> v, seq |-> n])
       \/ Fails /\ UNCHANGED <<objects, reqs>>
    /\ UNCHANGED <<events, defs, index, image, memory, ssd, exHistory, writes, crashes>>

UnindexSnapshot(r) ==
    LET q == reqs[r]
    IN  /\ At(r, "unindex")
        /\ Ends(r)
        /\ \/ Succeeds /\ index' = Drop(index, {<<q.vol, q.seq>>})
           \/ Fails /\ UNCHANGED index
        /\ UNCHANGED <<events, defs, objects, image, memory, ssd, exHistory, writes, ops, crashes>>

(* tag_export publishes the manifest as it is in memory under the tag.     *)
TagExport(r, v) ==
    LET key == Live(exports[v].pool, Base)
    IN  /\ "snapshot" \in events
        /\ Arrives(r, v) /\ exports[v] # None
        /\ \/ /\ Succeeds
              /\ objects' = Put(objects, key, ManifestOf(exports[v]))
              /\ Goto(r, [pc |-> "image", vol |-> v, key |-> key])
           \/ Fails /\ UNCHANGED <<objects, reqs>>
        /\ UNCHANGED <<events, defs, index, image, memory, ssd, exHistory, writes, crashes>>

(* promote_snapshot_to_base: a base that exists is left as it is.          *)
PromoteSnapshot(r, v, n) ==
    LET key == BaseKey(exports[v].pool)
        from == Snap(exports[v].pool, v, n)
    IN  /\ Arrives(r, v) /\ exports[v] # None
        /\ \/ /\ Succeeds
              /\ key \in DOMAIN objects \/ from \in DOMAIN objects
              /\ objects' = IF key \in DOMAIN objects THEN objects
                                                      ELSE Put(objects, key, objects[from])
              /\ Goto(r, [pc |-> "image", vol |-> v, key |-> key])
           \/ Fails /\ UNCHANGED <<objects, reqs>>
        /\ UNCHANGED <<events, defs, index, image, memory, ssd, exHistory, writes, crashes>>

IndexImage(r) ==
    /\ At(r, "image")
    /\ Ends(r)
    /\ \/ Succeeds /\ image' = reqs[r].key
       \/ Fails /\ UNCHANGED image
    /\ UNCHANGED <<events, defs, objects, index, memory, ssd, exHistory, writes, ops, crashes>>

-----------------------------------------------------------------------------
(* The guest, the write cache's background work, and the daemon.           *)

(* A guest uses the device once a PUT has reported it, and still while a   *)
(* resize has not yet taken it away.                                       *)
InUse(v) ==
    /\ up /\ exports[v] # None
    /\ v \in devices \/ v \in NbdVols
    /\ v \in answered \/ \E r \in Reqs : reqs[r].vol = v /\ reqs[r].pc \in {"drain", "remove"}

(* The guest's write changes what the volume holds.                        *)
Writes(v, w) ==
    /\ InUse(v) /\ writes < MaxWrites
    /\ w = writes + 1 /\ writes' = w
    /\ accepted' = [accepted EXCEPT ![v] = @ \cup {w}]
    /\ UNCHANGED <<events, bucket, cached, devices, up, devMap, reqs, answered, grown, purges,
                   taken, ops, failures, crashes>>

(* A write to a block without local data marks it DIRTY, takes the next    *)
(* number and logs it.                                                     *)
GuestWrite(v) ==
    \E w \in 1..MaxWrites :
        /\ Writes(v, w)
        /\ exports' = [exports EXCEPT ![v].dirty = @ \cup {w}, ![v].seq = @ + 1]
        /\ disk' = IF disk[v] = None THEN disk   \* an overlapping purge unlinked the open log
                   ELSE [disk EXCEPT ![v].wal = @ \cup {<<exports[v].seq + 1, w>>}]
        /\ UNCHANGED promoted

(* A write to the block of an earlier one, DIRTY already or promoted from  *)
(* SYNCING to DIRTY first, finds the block marked: it takes no number and  *)
(* is recovered by the mark that is there.                                 *)
GuestRewrite(v) ==
    /\ exports[v] # None
    /\ \E w \in 1..MaxWrites, old \in exports[v].dirty :
        /\ Writes(v, w)
        /\ exports' = [exports EXCEPT ![v].dirty = @ \cup {w}]
        /\ disk' = IF disk[v] = None THEN disk
                   ELSE [disk EXCEPT ![v].wal = @ \cup {<<x[1], w>> : x \in {y \in @ : y[2] = old}},
                                     ![v].saved = IF old \in @ THEN @ \cup {w} ELSE @]
        /\ promoted' = IF \E r \in Reqs : /\ reqs[r].pc = "snapshot" /\ reqs[r].vol = v
                                          /\ old \in reqs[r].old.dirty
                       THEN promoted \cup {v} ELSE promoted

FlushExport(v) ==
    LET e == Flushed(exports[v])
    IN  /\ up /\ exports[v] # None /\ exports[v].dirty # {} /\ ~Flushing(v)
        /\ exports' = [exports EXCEPT ![v] = e]
        /\ objects' = Publish(e, v)
        /\ disk' = [disk EXCEPT ![v] = Checkpointed(e)]
        /\ UNCHANGED <<events, defs, index, image, cached, devices, up, devMap, reqs, exHistory,
                       bounds>>

CheckpointExport(v) ==
    /\ up /\ exports[v] # None /\ exports[v].dirty # {}
    /\ disk' = [disk EXCEPT ![v] = Checkpointed(exports[v])]
    /\ UNCHANGED <<events, bucket, memory, devMap, reqs, exHistory, bounds>>

(* The client closes the connection and hyper drops the handler where it   *)
(* is; nothing the handler had done is undone.                             *)
Disconnect(r) ==
    /\ "disconnect" \in events
    /\ up /\ reqs[r] # Idle
    /\ Ends(r)
    /\ UNCHANGED <<events, bucket, memory, ssd, exHistory, bounds>>

Attached == {v \in Vols : exports[v] # None}
Halt ==
    /\ "crash" \in events /\ up /\ crashes < MaxCrashes
    /\ up' = FALSE /\ crashes' = crashes + 1
    /\ exports' = [v \in Vols |-> None]
    /\ cached' = Empty /\ devices' = {}
    /\ reqs' = [r \in Reqs |-> Idle]
    /\ UNCHANGED <<events, defs, index, image, devMap, exHistory, writes, ops>>

NodeCrash == Halt /\ UNCHANGED <<objects, disk, failures>>

(* SIGTERM: router.shutdown tears every export down; a drain that fails or *)
(* runs out of time leaves its blocks on the SSD.  Devices stay.           *)
Shutdown(failed) ==
    LET done == Attached \ failed
    IN  /\ Halt
        /\ IF failed = {} THEN Succeeds ELSE Fails
        /\ objects' = [k \in DOMAIN objects \cup {Live(exports[v].pool, v) : v \in done} |->
                          IF \E v \in done : k = Live(exports[v].pool, v)
                          THEN ManifestOf(Flushed(exports[k[3]])) ELSE objects[k]]
        /\ disk' = [v \in Vols |->
                       IF v \in done THEN ShutDown(Flushed(exports[v]), disk[v])
                       ELSE IF v \in failed THEN ShutDown(exports[v], disk[v]) ELSE disk[v]]

(* Start-up: the volumes of the device maps that have an export.json are   *)
(* opened on the normal path of create_export, failures are only logged;   *)
(* then their devices are recovered or registered, which rewrites the map  *)
(* of every transport that has one.                                        *)
Boot(failed) ==
    LET key(v) == Live(defs[v].pool, v)
        found == {v \in devMap : /\ defs[v] # None
                                 /\ key(v) \in DOMAIN objects \/ ~defs[v].src}
        man(v) == IF key(v) \in DOMAIN objects THEN objects[key(v)]
                                               ELSE [data |-> {}, size |-> 0]
        back == found \ failed
        kept(t) == IF back \cap t = {} THEN devMap \cap t ELSE back \cap t
    IN  /\ ~up /\ up' = TRUE
        /\ failed \subseteq found
        /\ IF failed = {} THEN Succeeds ELSE "boot_error" \in events /\ Fails
        /\ exports' = [v \in Vols |->
              IF v \notin back THEN None
              ELSE [pool |-> defs[v].pool, size |-> Larger(defs[v].size, man(v).size),
                    man |-> man(v).data, dirty |-> Recovered(Files(v)),
                    seq |-> RecoveredSeq(Files(v)), src |-> defs[v].src]]
        /\ disk' = [v \in Vols |-> IF v \in back THEN Files(v) ELSE disk[v]]
        /\ devices' = back
        /\ devMap' = kept(NbdVols) \cup kept(Vols \ NbdVols)
        /\ UNCHANGED <<events, bucket, cached, reqs, exHistory, writes, ops, crashes>>

-----------------------------------------------------------------------------
(* A node that has just started for the first time; one image was blessed. *)
ExportsInit ==
    /\ events \in ExScenarios
    /\ defs = [v \in Vols |-> None]
    /\ \E size \in 1..MaxSize :
          objects = [k \in {BaseKey(Base)} |-> [data |-> {0}, size |-> size]]
    /\ index = Empty /\ image = BaseKey(Base)
    /\ exports = [v \in Vols |-> None]
    /\ cached = Empty /\ devices = {} /\ up = TRUE
    /\ disk = [v \in Vols |-> None] /\ devMap = {}
    /\ reqs = [r \in Reqs |-> Idle]
    /\ accepted = [v \in Vols |-> {}] /\ grown = [v \in Vols |-> 0]
    /\ answered = {} /\ purges = [v \in Vols |-> None] /\ taken = Empty /\ promoted = {}
    /\ writes = 0 /\ ops = 0 /\ failures = 0 /\ crashes = 0

PutStep(r) ==
    \/ CreateExport(r) \/ InstallExport(r) \/ AttachFence(r)
    \/ SaveExport(r) \/ RegisterDevice(r) \/ AnswerPut(r)
ResizeStep(r) ==
    \/ ResizeDrain(r) \/ ResizeRemove(r) \/ ResizeReload(r)
    \/ ResizeSave(r) \/ ResizeRegister(r)
DeleteStep(r) == Teardown(r) \/ PurgeDetached(r) \/ PurgeStep(r) \/ PurgeDefinition(r)
SnapshotStep(r) ==
    \/ SnapshotFlush(r) \/ PutSnapshot(r) \/ IndexSnapshot(r)
    \/ UnindexSnapshot(r) \/ IndexImage(r)

RequestArrives(r) ==
    \E v \in Vols :
        \/ \E from \in Sources(v), size \in 1..MaxSize : PutVolume(r, v, from, size)
        \/ \E purge \in BOOLEAN : DeleteVolume(r, v, purge)
        \/ SnapshotExport(r, v)
        \/ TagExport(r, v)
        \/ \E i \in DOMAIN index : DeleteSnapshot(r, v, i[2]) \/ PromoteSnapshot(r, v, i[2])

ExportsNext ==
    \/ \E r \in Reqs : \/ RequestArrives(r) \/ Disconnect(r)
                       \/ PutStep(r) \/ ResizeStep(r) \/ DeleteStep(r) \/ SnapshotStep(r)
    \/ \E v \in Vols : GuestWrite(v) \/ GuestRewrite(v) \/ FlushExport(v) \/ CheckpointExport(v)
    \/ NodeCrash
    \/ \E failed \in SUBSET Attached : Shutdown(failed)
    \/ \E failed \in SUBSET Vols : Boot(failed)

ExportsSpec == ExportsInit /\ [][ExportsNext]_exportsVars

-----------------------------------------------------------------------------
(* Properties.                                                             *)

Without(excluded) == events \cap excluded = {}

(* An attached volume serves exactly what it must contain: what it was     *)
(* forked from and every write acknowledged since, and nothing of a volume *)
(* that had its name before.                                               *)
AlwaysServesExactly ==
    \A v \in Vols : exports[v] # None =>
        exports[v].man \cup exports[v].dirty = accepted[v]

(* ... across re-attach, fork, resize, snapshot, a drain that fails, crash *)
(* and restart: create_export, teardown_export and the purge together      *)
(* promise it.  Left out are the events after which the code breaks it: a  *)
(* failed attach deletes the cache files, overlapping requests share them, *)
(* a handler dropped before export.json leaves no definition, a recreated  *)
(* volume reuses snapshot keys, and a crash after a resize replays the WAL *)
(* against the sequence from before it.                                    *)
ServesExactly ==
    \/ ~Without({"overlap", "recreate", "disconnect"})
    \/ "attach_error" \in events /\ failures > 0
    \/ {"resize", "crash"} \subseteq events
    \/ AlwaysServesExactly

(* A volume that a PUT reported attached stays attached, with its          *)
(* definition in S3 and its device, until a DELETE or a resize takes it.   *)
AnsweredAlwaysServed ==
    up => \A v \in answered :
              Busy(v) \/ (exports[v] # None /\ defs[v] # None /\ v \in devices)

(* ... and is back after every restart: the order of save_export,          *)
(* register_device and the answer, and the device maps, see to it.  Left   *)
(* out are overlapping requests, dropped handlers, a start-up that S3      *)
(* fails, a resize that fails, and an nbd device that does (the export is  *)
(* served over TCP then).                                                  *)
AnsweredStaysServed ==
    \/ ~Without({"overlap", "disconnect"})
    \/ ~Without({"boot_error", "resize"}) /\ failures > 0
    \/ "attach_error" \in events /\ answered \cap NbdVols # {}
    \/ AnsweredAlwaysServed

(* The lineage of a volume that was reported attached is durable: the      *)
(* manifest a restart needs is in S3 whenever export.json names a source   *)
(* (fork manifests are put before the export is visible).                  *)
LineageDurable ==
    Without({"overlap"}) =>
        \A v \in answered : defs[v] # None /\ defs[v].src =>
            Live(defs[v].pool, v) \in DOMAIN objects

(* A manifest or snapshot kept in manifest_cache is the one in S3: keys    *)
(* are immutable, "sequences are monotonic + never reused for a name"      *)
(* (snapshot_manifest_cache_key), and nothing ever invalidates the cache.  *)
CacheMatchesStore ==
    \A k \in DOMAIN cached \cap DOMAIN objects : cached[k] = objects[k]

(* ... as long as no name is used again after its purge and no volume is   *)
(* resized, both of which start its sequence over, and but for volumes     *)
(* written on a block that a snapshot was flushing: that write takes no    *)
(* number, and the next snapshot may replace the one before.               *)
CachedIsCurrent ==
    \/ "recreate" \in events
    \/ {"resize", "snapshot"} \subseteq events
    \/ \A k \in DOMAIN cached \cap DOMAIN objects : k[3] \notin promoted => cached[k] = objects[k]

(* A volume never comes back smaller than a PUT has reported it, whichever *)
(* of export.json, the manifest and the request is behind.                 *)
SizeKept ==
    Without({"overlap", "disconnect"}) =>
        \A v \in Vols : exports[v] # None => exports[v].size >= grown[v]

(* When a purge of a defined volume reports success nothing of the volume  *)
(* is left: no manifest, snapshot, index entry, definition, local file or  *)
(* place in the device map, also when an earlier purge failed half way.    *)
PurgeLeavesNothing ==
    Without({"overlap"}) =>
        \A v \in Vols : purges[v] # None /\ purges[v].done /\ ~Busy(v) =>
            /\ \A k \in DOMAIN objects : <<k[2], k[3]>> # <<purges[v].pool, v>>
            /\ OfVolume(v) = {} /\ defs[v] = None
            /\ disk[v] = None /\ v \notin devMap

\* What a PUT has promised holds across every later request, crash and
\* restart: the volume is served, with its contents and its size.
VolumesKept == ServesExactly /\ AnsweredStaysServed /\ SizeKept

=============================================================================
