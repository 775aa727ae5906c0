------------------------------ MODULE Handoff ------------------------------
(***************************************************************************)
(* The zero-downtime handoff (handoff/predecessor.rs, successor.rs,        *)
(* coordinator.rs, strategy/crh.rs and its callers in cli/server.rs): the  *)
(* serving daemon P starts its successor S, which opens the same cache     *)
(* files while P still serves, takes the kernel devices over and serves on *)
(* once P is gone.                                                         *)
(*                                                                         *)
(* Each volume has one block.  What a guest wrote is a version, counted    *)
(* from 1; 0 is a hole.  A cache file is an inode, so that a file renamed  *)
(* under an open handle keeps its content.  A checkpoint is one step, a    *)
(* flush three (rotate; upload and publish; evict, checkpoint and unlink); *)
(* how their parts interleave inside one process is in Checkpoint and      *)
(* FlushCycle.                                                             *)
(***************************************************************************)
EXTENDS Naturals, Sequences, FiniteSets, FiniteSetsExt

CONSTANTS
    Vols,         \* volume names
    NbdVols,      \* the volumes served over NBD, the others have ublk devices
    None,         \* "no such object"
    FlushVols,    \* bound: volumes with flush cycles, alone with "inflight"
    MaxWrites,    \* bound: guest writes to a volume
    MaxFiles,     \* bound: cache files a volume ever has
    MaxOps,       \* bound: API calls during the handoff
    MaxCrashes,   \* bound: crashes of the daemon
    Scenarios     \* sets of events, one of which a behaviour may contain

(* The events: "flush" (flush cycles run), "inflight" (a flush may be      *)
(* under way, or queued on flush_lock, when the handoff starts), "churn"   *)
(* (volumes are created, resized and purged while S warms up),             *)
(* "open_early" (before P takes the export-set fence, S may open, or have  *)
(* open and checkpoint, a volume P created or resized meanwhile), "crash"  *)
(* (P dies), "s_exit" (S dies before                                       *)
(* CUTOVER is sent or after PREDS_DEAD is), "s_exit_cut" (S dies between   *)
(* the two), "s_exit_live" (S dies with its devices live, before ALIVE),   *)
(* "unconnected" (S never connects), "timeout" (a wait before CUTOVER runs *)
(* out), "late" (the wait for ALIVE does), "linger" (P's tasks run on      *)
(* after ALIVE is sent), "outlives" (those of S do after P gave the        *)
(* handoff up), "freeze_error", "cutover_error", "recover_error" (S cannot *)
(* open a volume or take its device over), "revive_error" (P cannot take a *)
(* device back) and "dry_run".                                             *)

ASSUME HandoffAssumption ==
    /\ NbdVols \subseteq Vols /\ FlushVols \subseteq Vols
    /\ {MaxWrites, MaxOps, MaxCrashes} \subseteq Nat /\ MaxFiles \in Nat \ {0}

VARIABLES
    occurs,       \* the events of this behaviour, chosen initially
    pc,           \* where each process is
    toP, toS,     \* the SEQPACKET socket, one queue per direction
    listed,       \* the export snapshot of HELLO_ACK: volume to size
    fence,        \* P holds the export set exclusively
    outcome,      \* what the last handoff came to
    unit, mainPid,\* systemd: state of the unit, MAINPID
    defs,         \* S3: volumes with an export.json, with their size
    store,        \* S3: the manifest of each volume, [val, etag]
    dev,          \* the device a guest has: the process serving it, "quiesced" or None
    anew,         \* what S registered beside a device it did not recover: "no", "new", "failed"
    left,         \* history: volumes whose device a failed step took from the guest
    disk,         \* the files of each volume, None when it has none
    data,         \* content of each cache file
    files,        \* cache files each volume has had
    cache,        \* the write cache of each process for each volume
    stage,        \* how far S is with opening each volume
    cycle, queued,\* flush cycles under way, and queued on flush_lock
    acked,        \* history: the last version acknowledged
    ops, crashes

Procs == {"P", "S"}

protoVars == <<pc, toP, toS, listed, fence, outcome, unit, mainPid>>
diskVars == <<disk, data, files>>
kernelVars == <<dev, anew, left>>
cacheVars == <<cache, stage, cycle, queued>>
s3Vars == <<defs, store>>
bounds == <<ops, crashes>>
handoffVars == <<occurs, protoVars, s3Vars, kernelVars, diskVars, cacheVars, acked, bounds>>

-----------------------------------------------------------------------------
(* Processes and messages.                                                 *)

(* The pcs of P: "serving", "accepting" (successor spawned), "ready_wait", *)
(* "freezing", "frozen", "cut" (CUTOVER sent), "alive_wait", "exiting",    *)
(* "gone".  Of S: "none", "starting", "warming", "ack_wait", "adopting",    *)
(* "cut_wait", "dead_wait", "taking", "taken", "serving", "gone".          *)
InProtocol == pc["P"] \in {"accepting", "ready_wait", "freezing", "frozen", "cut", "alive_wait"}
Runs(p) == pc[p] \notin {"none", "gone"}
Open(p) == {v \in Vols : cache[p][v] # None}
Goto(p, l) == pc' = [pc EXCEPT ![p] = l]
SendP(m) == toP' = Append(toP, m)
SendS(m) == toS' = Append(toS, m)
NextIs(q, m) == q # << >> /\ Head(q) = m

Idle(c) == c.phase = "idle"

(* set_all_caches_phase and unfreeze_all: every cache of the process.      *)
WithPhase(p, phase) ==
    [cache EXCEPT ![p] = [v \in Vols |-> IF @[v] = None THEN None ELSE [@[v] EXCEPT !.phase = phase]]]

-----------------------------------------------------------------------------
(* Files and caches.                                                       *)

NoMeta == [st |-> "absent", seq |-> 0, rot |-> 0]
Empty(f) == [active |-> f, flushing |-> 0, meta |-> NoMeta, wal |-> {}]

(* load_metadata and the WAL entries above the sequence it was saved at,   *)
(* or above the rotation when a flush was under way.                       *)
ReplayFrom(m) == IF m.rot > 0 /\ m.rot < m.seq THEN m.rot ELSE m.seq
Entries(d, n) == {s \in d.wal : s > n}
Replayed(d) == Entries(d, ReplayFrom(d.meta))
OpenState(d) == IF Replayed(d) # {} THEN "dirty" ELSE d.meta.st
OpenSeq(d) == Max({d.meta.seq} \cup d.wal)

Cache(st, seq, file, man, phase, size) ==
    [st |-> st, seq |-> seq, file |-> file, ff |-> 0, rot |-> 0,
     val |-> man.val, etag |-> man.etag, phase |-> phase, size |-> size]

(* WriteCache::open when no other process has the files: a flushing file   *)
(* is copied back unless the block was written after the rotation.         *)
Unsaved(st) == st \in {"dirty", "syncing"}
CopiesBack(d) ==
    /\ d.flushing # 0 /\ Unsaved(OpenState(d))
    /\ Replayed(d) = {}
    /\ ~(d.meta.rot > 0 /\ d.meta.st = "dirty")
ColdValue(v) ==
    IF disk[v] = None \/ ~Unsaved(OpenState(disk[v])) THEN store[v].val
    ELSE IF CopiesBack(disk[v]) THEN data[v][disk[v].flushing] ELSE data[v][disk[v].active]
ColdCache(v) ==
    Cache(IF Unsaved(OpenState(disk[v])) THEN "dirty" ELSE "absent", OpenSeq(disk[v]),
          disk[v].active, store[v], "idle", defs[v])

(* What a read through process p returns.                                  *)
Served(p, v) ==
    LET c == cache[p][v] IN
    IF c.st = "dirty" THEN data[v][c.file]
    ELSE IF c.st = "syncing" /\ c.ff # 0 THEN data[v][c.ff]
    ELSE IF c.st = "syncing" THEN data[v][c.file]
    ELSE c.val

Has(v) == defs[v] # None

HandoffInit ==
    /\ occurs \in Scenarios
    /\ pc = [p \in Procs |-> IF p = "P" THEN "serving" ELSE "none"]
    /\ toP = << >> /\ toS = << >> /\ listed = [v \in Vols |-> None]
    /\ fence = FALSE /\ outcome = None /\ unit = "ready" /\ mainPid = "P"
    /\ defs \in [Vols -> {None, 1}] /\ \E v \in Vols : Has(v)
    /\ \/ "churn" \in occurs
       \/ {v \in Vols : Has(v)} = IF "inflight" \in occurs THEN FlushVols ELSE Vols
    /\ store = [v \in Vols |-> [val |-> 0, etag |-> 0]]
    /\ dev = [v \in Vols |-> IF Has(v) THEN "P" ELSE None]
    /\ anew = [v \in Vols |-> "no"] /\ left = {}
    /\ disk = [v \in Vols |-> IF Has(v) THEN Empty(1) ELSE None]
    /\ data = [v \in Vols |-> [f \in 1..MaxFiles |-> 0]]
    /\ files = [v \in Vols |-> IF Has(v) THEN 1 ELSE 0]
    /\ cache = [p \in Procs |-> [v \in Vols |->
                   IF p = "P" /\ Has(v) THEN Cache("absent", 0, 1, store[v], "idle", 1) ELSE None]]
    /\ stage = [v \in Vols |-> "none"]
    /\ cycle = [p \in Procs |-> [v \in Vols |-> "none"]]
    /\ queued = [p \in Procs |-> {}]
    /\ acked = [v \in Vols |-> 0]
    /\ ops = 0 /\ crashes = 0

-----------------------------------------------------------------------------
(* Serving: guest writes, checkpoints and flushes, by whichever process    *)
(* has the device or the cache.                                            *)

(* Process p serves the device of the guest, or the one it put beside it.  *)
Serves(p, v) == dev[v] = p \/ (p = "S" /\ anew[v] = "new")

(* write() does not look at the freeze flag; a block already DIRTY is not  *)
(* logged again.                                                           *)
GuestWrite(p, v) ==
    /\ Runs(p) /\ Serves(p, v) /\ cache[p][v] # None
    /\ acked[v] < MaxWrites
    /\ acked' = [acked EXCEPT ![v] = @ + 1]
    /\ data' = [data EXCEPT ![v][cache[p][v].file] = acked[v] + 1]
    /\ LET c == cache[p][v]
           n == IF c.st = "dirty" THEN c.seq ELSE c.seq + 1 IN
       /\ cache' = [cache EXCEPT ![p][v].st = "dirty", ![p][v].seq = n]
       /\ disk' = [disk EXCEPT ![v].wal = IF c.st = "dirty" THEN @ ELSE @ \cup {n}]
    /\ UNCHANGED <<occurs, protoVars, s3Vars, kernelVars, files, stage, cycle, queued, bounds>>

(* P has not resized or purged the volume since S opened it.               *)
SameVolume(v) == cache["P"][v] # None /\ cache["P"][v].size = cache["S"][v].size

(* The tasks of a process run while it serves; in P until it exits, in S   *)
(* from the moment its caches are open (other blocks the WAL marked dirty  *)
(* keep their timer going).                                                *)
Ticks(p, v) ==
    /\ Runs(p) /\ cache[p][v] # None /\ disk[v] # None
    /\ p = "S" => /\ stage[v] = "open"
                  /\ InProtocol \/ pc["S"] = "serving" \/ "outlives" \in occurs
                  /\ "open_early" \in occurs \/ ~Runs("P") \/ SameVolume(v)
    /\ p = "P" /\ pc["S"] = "serving" => "linger" \in occurs

(* checkpoint(): the block states are saved; the WAL is truncated only     *)
(* while no handoff is active.                                             *)
SavedMeta(c) == [st |-> c.st, seq |-> c.seq, rot |-> c.rot]
Truncated(c, wal) == IF Idle(c) THEN {} ELSE wal

CheckpointTick(p, v) ==
    /\ Ticks(p, v)
    /\ disk' = [disk EXCEPT ![v].meta = SavedMeta(cache[p][v]), ![v].wal = Truncated(cache[p][v], @)]
    /\ UNCHANGED <<occurs, protoVars, s3Vars, kernelVars, data, files, cacheVars, acked, bounds>>

(* flush_packs returns at once while a handoff is active; a flush that got *)
(* past that test may still wait for flush_lock.                           *)
FlushAdmitted(c) == Idle(c)

FlushQueue(p, v) ==
    /\ "inflight" \in occurs /\ "flush" \in occurs /\ v \in FlushVols
    /\ Ticks(p, v) /\ FlushAdmitted(cache[p][v])
    /\ v \notin queued[p] /\ cycle[p][v] # "none"
    /\ queued' = [queued EXCEPT ![p] = @ \cup {v}]
    /\ UNCHANGED <<occurs, protoVars, s3Vars, kernelVars, diskVars, cache, stage, cycle, acked, bounds>>

FlushRotate(p, v) ==
    /\ "flush" \in occurs /\ v \in FlushVols /\ Ticks(p, v)
    /\ v \in queued[p] \/ FlushAdmitted(cache[p][v])
    /\ cycle[p][v] = "none" /\ cache[p][v].st = "dirty"
    /\ disk[v].flushing = 0 /\ files[v] < MaxFiles
    /\ LET f == files[v] + 1
           c == cache[p][v] IN
       /\ files' = [files EXCEPT ![v] = f]
       /\ disk' = [disk EXCEPT ![v].flushing = disk[v].active, ![v].active = f]
       /\ cache' = [cache EXCEPT ![p][v].st = "syncing", ![p][v].file = f,
                                 ![p][v].ff = c.file, ![p][v].rot = c.seq]
    /\ cycle' = [cycle EXCEPT ![p][v] = "rotated"]
    /\ queued' = [queued EXCEPT ![p] = @ \ {v}]
    /\ UNCHANGED <<occurs, protoVars, s3Vars, kernelVars, data, stage, acked, bounds>>

(* The pack is uploaded and the manifest PUT under the ETag this process   *)
(* last saw; on a conflict the block is copied back and the cycle ends.    *)
FlushPublish(p, v) ==
    /\ Runs(p) /\ cycle[p][v] = "rotated"
    /\ LET c == cache[p][v] IN
       IF c.etag = store[v].etag
       THEN /\ store' = [store EXCEPT ![v] = [val |-> data[v][c.ff], etag |-> @.etag + 1]]
            /\ cache' = [cache EXCEPT ![p][v].val = data[v][c.ff], ![p][v].etag = @ + 1]
            /\ cycle' = [cycle EXCEPT ![p][v] = "published"]
            /\ UNCHANGED <<disk, data>>
       ELSE /\ cycle' = [cycle EXCEPT ![p][v] = "none"]
            /\ data' = IF c.st = "syncing" THEN [data EXCEPT ![v][c.file] = data[v][c.ff]] ELSE data
            /\ cache' = [cache EXCEPT ![p][v].st = "dirty", ![p][v].ff = 0, ![p][v].rot = 0]
            /\ disk' = [disk EXCEPT ![v].flushing = 0]
            /\ UNCHANGED store
    /\ UNCHANGED <<occurs, protoVars, defs, kernelVars, files, stage, queued, acked, bounds>>

(* Evict, checkpoint, unlink the flushing file.                            *)
FlushEnd(p, v) ==
    /\ Runs(p) /\ cycle[p][v] = "published"
    /\ LET c == cache[p][v]
           evicted == [c EXCEPT !.st = IF @ = "syncing" THEN "absent" ELSE @] IN
       /\ disk' = [disk EXCEPT ![v].meta = SavedMeta(evicted), ![v].wal = Truncated(c, @),
                               ![v].flushing = 0]
       /\ cache' = [cache EXCEPT ![p][v] = [evicted EXCEPT !.ff = 0, !.rot = 0]]
    /\ cycle' = [cycle EXCEPT ![p][v] = "none"]
    /\ UNCHANGED <<occurs, protoVars, s3Vars, kernelVars, data, files, stage, queued, acked, bounds>>

-----------------------------------------------------------------------------
(* The API of P: PUT and DELETE hold the export set shared.                *)

MayChange(v) ==
    /\ "churn" \in occurs /\ ops < MaxOps
    /\ ~fence /\ pc["P"] \in {"serving", "accepting"}
    /\ ops' = ops + 1

(* A cache created now is born Idle, whatever phase the others are in.     *)
ApiCreate(v) ==
    /\ MayChange(v) /\ ~Has(v) /\ files[v] < MaxFiles
    /\ "open_early" \in occurs \/ (pc["S"] # "starting" /\ stage[v] = "none")
    /\ defs' = [defs EXCEPT ![v] = 1]
    /\ files' = [files EXCEPT ![v] = @ + 1]
    /\ disk' = [disk EXCEPT ![v] = Empty(files[v] + 1)]
    /\ cache' = [cache EXCEPT !["P"][v] = Cache("absent", 0, files[v] + 1, store[v], "idle", 1)]
    /\ dev' = [dev EXCEPT ![v] = "P"]
    /\ UNCHANGED <<occurs, protoVars, store, anew, left, data, stage, cycle, queued, acked, crashes>>

(* A resize drains, drops the cache and opens it again at the new size.    *)
ApiResize(v) ==
    /\ MayChange(v) /\ Has(v) /\ defs[v] = 1 /\ cycle["P"][v] = "none"
    /\ "open_early" \in occurs \/ pc["P"] = "serving" \/ stage[v] = "open"
    /\ defs' = [defs EXCEPT ![v] = 2]
    /\ store' = [store EXCEPT ![v] = [val |-> acked[v], etag |-> @.etag + 1]]
    /\ disk' = [disk EXCEPT ![v].meta = [NoMeta EXCEPT !.seq = cache["P"][v].seq], ![v].wal = {}]
    /\ cache' = [cache EXCEPT !["P"][v] =
                    Cache("absent", @.seq, @.file, [val |-> acked[v], etag |-> store[v].etag + 1],
                          "idle", 2)]
    /\ UNCHANGED <<occurs, protoVars, kernelVars, data, files, stage, cycle, queued, acked, crashes>>

ApiPurge(v) ==
    /\ MayChange(v) /\ Has(v) /\ cycle["P"][v] = "none"
    /\ \E w \in Vols \ {v} : Has(w)
    /\ defs' = [defs EXCEPT ![v] = None]
    /\ store' = [store EXCEPT ![v] = [val |-> 0, etag |-> @.etag + 1]]
    /\ disk' = [disk EXCEPT ![v] = None]
    /\ cache' = [cache EXCEPT !["P"][v] = None]
    /\ dev' = [dev EXCEPT ![v] = None]
    /\ queued' = [queued EXCEPT !["P"] = @ \ {v}]
    /\ acked' = [acked EXCEPT ![v] = 0]
    /\ UNCHANGED <<occurs, protoVars, anew, left, data, files, stage, cycle, crashes>>

-----------------------------------------------------------------------------
(* The predecessor.                                                        *)

dataVars == <<s3Vars, diskVars, acked>>

(* dispatch_handoff and the end of run_predecessor, for every outcome that *)
(* comes out of run_protocol: phases back to Idle, fence released, READY=1.*)
Stay(o) ==
    /\ Goto("P", "serving") /\ outcome' = o
    /\ fence' = FALSE /\ unit' = "ready"
    /\ cache' = WithPhase("P", "idle")
    /\ UNCHANGED <<listed, mainPid>>

(* An early return of run_predecessor, before run_protocol: the phases     *)
(* stay as Trigger left them.                                              *)
StayEarly(o) ==
    /\ Goto("P", "serving") /\ outcome' = o
    /\ unit' = "ready"
    /\ UNCHANGED <<cache, fence, listed, mainPid>>

(* discover_local_exports: the volumes in the device maps.                 *)
LocalExports == [v \in Vols |-> IF dev[v] # None THEN "listed" ELSE "none"]

(* SIGHUP or the control socket: every cache to Warming, bind, spawn.      *)
Trigger ==
    /\ pc["P"] = "serving" /\ pc["S"] = "none" /\ outcome = None
    /\ "inflight" \in occurs \/ \A v \in Vols : cycle["P"][v] = "none"
    /\ cache' = WithPhase("P", "warming")
    /\ pc' = [pc EXCEPT !["P"] = "accepting", !["S"] = "starting"]
    /\ UNCHANGED <<occurs, toP, toS, listed, fence, outcome, unit, mainPid, dataVars, kernelVars,
                   stage, cycle, queued, bounds>>

(* Nobody connected: accept_seqpacket timed out, or failed.                *)
AcceptTimeout ==
    /\ pc["P"] = "accepting" /\ toP = << >> /\ pc["S"] = "gone"
    /\ StayEarly("unaccepted")
    /\ UNCHANGED <<occurs, toP, toS, dataVars, kernelVars, stage, cycle, queued, bounds>>

(* HELLO: the fence, the phases again, the snapshot, HELLO_ACK.  An export *)
(* set that does not settle in 30 s aborts the handoff.                    *)
RecvHello ==
    /\ pc["P"] = "accepting" /\ NextIs(toP, "hello")
    /\ Goto("P", "ready_wait")
    /\ toP' = Tail(toP) /\ SendS("ack")
    /\ fence' = TRUE /\ unit' = "reloading"
    /\ cache' = WithPhase("P", "warming")
    /\ listed' = [v \in Vols |-> IF cache["P"][v] = None THEN None ELSE cache["P"][v].size]
    /\ UNCHANGED <<occurs, outcome, mainPid, dataVars, kernelVars, stage, cycle, queued, bounds>>

FenceTimeout ==
    /\ "timeout" \in occurs
    /\ pc["P"] = "accepting" /\ NextIs(toP, "hello")
    /\ toP' = Tail(toP) /\ SendS("abort")
    /\ Stay("aborted")
    /\ UNCHANGED <<occurs, dataVars, kernelVars, stage, cycle, queued, bounds>>

(* READY, or the end of the wait for it: a timeout, the successor's Abort, *)
(* or the error of a closed socket.                                        *)
RecvReady ==
    /\ pc["P"] = "ready_wait" /\ NextIs(toP, "ready")
    /\ toP' = Tail(toP)
    /\ IF "dry_run" \in occurs
       THEN SendS("abort") /\ Stay("dry_run")
       ELSE /\ Goto("P", "freezing")
            /\ cache' = WithPhase("P", "freezing")
            /\ UNCHANGED <<toS, listed, fence, outcome, unit, mainPid>>
    /\ UNCHANGED <<occurs, dataVars, kernelVars, stage, cycle, queued, bounds>>

NoReady ==
    /\ pc["P"] = "ready_wait"
    /\ \/ "timeout" \in occurs /\ toP = << >> /\ UNCHANGED toP /\ Stay("aborted")
       \/ NextIs(toP, "abort") /\ toP' = Tail(toP) /\ Stay("aborted")
       \/ toP = << >> /\ ~Runs("S") /\ UNCHANGED toP /\ Stay("error")
    /\ UNCHANGED <<occurs, toS, dataVars, kernelVars, stage, cycle, queued, bounds>>

(* freeze_all: wait for the flush that holds flush_lock, 30 s at most (the *)
(* cutover then goes ahead), and fsync every WAL.                          *)
FlushLocked(v) == cycle["P"][v] # "none"

Freeze ==
    /\ pc["P"] = "freezing"
    /\ "inflight" \in occurs \/ \A v \in Open("P") : ~FlushLocked(v)
    /\ Goto("P", "frozen")
    /\ UNCHANGED <<occurs, toP, toS, listed, fence, outcome, unit, mainPid, dataVars, kernelVars,
                   cacheVars, bounds>>

FreezeFails ==
    /\ "freeze_error" \in occurs /\ pc["P"] = "freezing"
    /\ SendS("abort") /\ Stay("aborted")
    /\ UNCHANGED <<occurs, toP, dataVars, kernelVars, stage, cycle, queued, bounds>>

(* CUTOVER.  Sending to a closed socket is an error out of run_protocol.   *)
SendCutover ==
    /\ pc["P"] = "frozen"
    /\ IF Runs("S")
       THEN /\ Goto("P", "cut") /\ SendS("cutover")
            /\ UNCHANGED <<cache, listed, fence, outcome, unit, mainPid>>
       ELSE UNCHANGED toS /\ Stay("error")
    /\ UNCHANGED <<occurs, toP, dataVars, kernelVars, stage, cycle, queued, bounds>>

(* take_ublk_server: the kernel quiesces every ublk device of P.           *)
Quiesced(d) == [v \in Vols |-> IF d[v] = "P" /\ v \notin NbdVols THEN "quiesced" ELSE d[v]]

\* Mutant of Revived: the devices stay quiesced.
NotRevived(d, skipped, killed) == d

(* revive_after_failed_handoff: recover_quiesced_devices on a new server.  *)
(* A device it cannot open is skipped, one it cannot recover is killed.    *)
Revived(d, skipped, killed) ==
    [v \in Vols |-> IF v \in killed THEN None
                    ELSE IF d[v] = "quiesced" /\ v \notin skipped THEN "P" ELSE d[v]]

(* The devices S has live are not quiesced, and P does not take them back. *)
Revive(d) ==
    /\ \E skipped, killed \in SUBSET {v \in Open("P") : d[v] = "quiesced"} :
        /\ "revive_error" \notin occurs => skipped \cup killed = {}
        /\ dev' = Revived(d, skipped, killed)
        /\ left' = left \cup skipped \cup killed \cup {v \in Vols : d[v] = "S"}
    /\ UNCHANGED anew

CutoverFails ==
    /\ "cutover_error" \in occurs /\ pc["P"] = "cut"
    /\ Revive(Quiesced(dev)) /\ Stay("revived")
    /\ UNCHANGED <<occurs, toP, toS, dataVars, stage, cycle, queued, bounds>>

(* Cutover, then PREDS_DEAD.  When that cannot be sent the error leaves    *)
(* run_protocol without a revival: the guests keep quiesced devices.       *)
Unrevived == {v \in Vols : Quiesced(dev)[v] = "quiesced"}
StayAfterCut(o) == dev' = Quiesced(dev) /\ left' = left \cup Unrevived /\ Stay(o)

CutOver ==
    /\ pc["P"] = "cut"
    /\ IF Runs("S")
       THEN /\ dev' = Quiesced(dev) /\ UNCHANGED left
            /\ Goto("P", "alive_wait") /\ SendS("preds_dead")
            /\ UNCHANGED <<cache, listed, fence, outcome, unit, mainPid>>
       ELSE UNCHANGED toS /\ StayAfterCut("error")
    /\ UNCHANGED <<occurs, toP, dataVars, anew, stage, cycle, queued, bounds>>

(* ALIVE: MAINPID moves to S, the fence is never released; run_predecessor *)
(* still puts the phases back to Idle.                                     *)
RecvAlive ==
    /\ pc["P"] = "alive_wait" /\ NextIs(toP, "alive")
    /\ toP' = Tail(toP)
    /\ Goto("P", "exiting") /\ outcome' = "succeeded"
    /\ unit' = "ready" /\ mainPid' = "S"
    /\ cache' = WithPhase("P", "idle")
    /\ UNCHANGED <<occurs, toS, listed, fence, dataVars, kernelVars, stage, cycle, queued, bounds>>

(* The socket closed, or 60 s passed.                                      *)
NoAlive ==
    /\ pc["P"] = "alive_wait" /\ toP = << >>
    /\ ~Runs("S") \/ "late" \in occurs
    /\ Revive(dev) /\ Stay("revived")
    /\ UNCHANGED <<occurs, toP, toS, dataVars, stage, cycle, queued, bounds>>

(* The process of P ends; its caches and its NBD connections go with it.   *)
Without(p) == [cache EXCEPT ![p] = [v \in Vols |-> None]]
NoCycles(p) ==
    /\ cycle' = [cycle EXCEPT ![p] = [v \in Vols |-> "none"]]
    /\ queued' = [queued EXCEPT ![p] = {}]
Released(p) ==
    [v \in Vols |-> IF dev[v] # p THEN dev[v] ELSE IF v \in NbdVols THEN None ELSE "quiesced"]

Exit ==
    /\ pc["P"] = "exiting"
    /\ Goto("P", "gone") /\ fence' = FALSE
    /\ cache' = Without("P") /\ NoCycles("P") /\ dev' = Released("P")
    /\ UNCHANGED <<occurs, toP, toS, listed, outcome, unit, mainPid, dataVars, anew, left, stage,
                   bounds>>

-----------------------------------------------------------------------------
(* The successor.                                                          *)

predVars == <<listed, fence, outcome, unit, mainPid>>

SList ==
    /\ pc["S"] = "starting"
    /\ Goto("S", "warming") /\ stage' = LocalExports
    /\ UNCHANGED <<occurs, toP, toS, predVars, dataVars, kernelVars, cache, cycle, queued, bounds>>

Warms == pc["S"] \in {"warming", "adopting"}

(* create_export: resolve the definition and fetch the manifest,           *)
WarmManifest(v) ==
    /\ Warms /\ stage[v] = "listed"
    /\ \/ /\ Has(v)
          /\ stage' = [stage EXCEPT ![v] = "manifest"]
          /\ cache' = [cache EXCEPT !["S"][v] =
                          Cache("absent", 0, 0, store[v], "warming", defs[v])]
       \/ /\ ~Has(v) \/ "recover_error" \in occurs
          /\ stage' = [stage EXCEPT ![v] = "failed"]
          /\ UNCHANGED cache
    /\ UNCHANGED <<occurs, protoVars, dataVars, kernelVars, cycle, queued, bounds>>

(* open the cache file, creating it if it is not there,                    *)
WarmFile(v) ==
    /\ Warms /\ stage[v] = "manifest"
    /\ disk[v] = None => files[v] < MaxFiles
    /\ stage' = [stage EXCEPT ![v] = "file"]
    /\ IF disk[v] # None
       THEN /\ cache' = [cache EXCEPT !["S"][v].file = disk[v].active]
            /\ UNCHANGED <<disk, files>>
       ELSE /\ files' = [files EXCEPT ![v] = @ + 1]
            /\ disk' = [disk EXCEPT ![v] = Empty(files[v] + 1)]
            /\ cache' = [cache EXCEPT !["S"][v].file = files[v] + 1]
    /\ UNCHANGED <<occurs, protoVars, s3Vars, data, acked, kernelVars, cycle, queued, bounds>>

(* and load the metadata and the WAL.  In passive mode the WAL is not      *)
(* rewritten and a flushing file is left alone.                            *)
PassiveState(d) ==
    IF OpenState(d) = "syncing" /\ d.flushing = 0 THEN "dirty" ELSE OpenState(d)

WarmState(v) ==
    /\ Warms /\ stage[v] = "file"
    /\ stage' = [stage EXCEPT ![v] = "open"]
    /\ LET d == IF disk[v] = None THEN Empty(0) ELSE disk[v] IN
       cache' = [cache EXCEPT !["S"][v].st = PassiveState(d), !["S"][v].seq = OpenSeq(d)]
    /\ UNCHANGED <<occurs, protoVars, dataVars, kernelVars, cycle, queued, bounds>>

Warmed == \A v \in Vols : stage[v] \in {"none", "failed", "open"}

(* Warm: connect and send HELLO.  The socket is there while P accepts.     *)
SendHello ==
    /\ pc["S"] = "warming" /\ Warmed /\ pc["P"] = "accepting"
    /\ Goto("S", "ack_wait") /\ SendP("hello")
    /\ UNCHANGED <<occurs, toS, predVars, dataVars, kernelVars, cacheVars, bounds>>

(* adopt_snapshot: forget what P no longer has (with its files, if its     *)
(* definition is gone), reopen what P has resized, open what is new.       *)
Stale(v) == cache["S"][v] # None /\ (listed[v] = None \/ listed[v] # cache["S"][v].size)

AdoptedDisk(v) == IF Stale(v) /\ listed[v] = None /\ ~Has(v) THEN None ELSE disk[v]

Adopt ==
    /\ pc["S"] = "ack_wait" /\ NextIs(toS, "ack")
    /\ toS' = Tail(toS) /\ Goto("S", "adopting")
    /\ cache' = [cache EXCEPT !["S"] = [v \in Vols |-> IF Stale(v) THEN None ELSE @[v]]]
    /\ disk' = [v \in Vols |-> AdoptedDisk(v)]
    /\ stage' = [v \in Vols |->
                    IF listed[v] = None THEN "none"
                    ELSE IF Stale(v) \/ cache["S"][v] = None THEN "listed" ELSE stage[v]]
    /\ UNCHANGED <<occurs, toP, predVars, s3Vars, data, files, acked, kernelVars, cycle, queued, bounds>>

Leave(p) ==
    /\ Goto(p, "gone") /\ cache' = Without(p) /\ NoCycles(p)
    /\ dev' = Released(p) /\ stage' = [v \in Vols |-> "none"]
    /\ UNCHANGED <<anew, left>>

SendReady ==
    /\ pc["S"] = "adopting" /\ Warmed
    /\ IF \E v \in Vols : stage[v] = "failed"
       THEN SendP("abort") /\ Leave("S")
       ELSE /\ SendP("ready") /\ Goto("S", "cut_wait")
            /\ UNCHANGED <<kernelVars, cacheVars>>
    /\ UNCHANGED <<occurs, toS, predVars, dataVars, bounds>>

RecvCutover ==
    /\ pc["S"] = "cut_wait" /\ NextIs(toS, "cutover")
    /\ toS' = Tail(toS) /\ Goto("S", "dead_wait")
    /\ UNCHANGED <<occurs, toP, predVars, dataVars, kernelVars, cacheVars, bounds>>

RecvPredsDead ==
    /\ pc["S"] = "dead_wait" /\ NextIs(toS, "preds_dead")
    /\ toS' = Tail(toS) /\ Goto("S", "taking")
    /\ stage' = [v \in Vols |-> IF listed[v] # None /\ v \notin NbdVols THEN "replay" ELSE stage[v]]
    /\ UNCHANGED <<occurs, toP, predVars, dataVars, kernelVars, cache, cycle, queued, bounds>>

\* Mutant of Tail_: the tail of the log is not read.
TailSkipped(c, d) == c

(* recover_handoff_devices, for one volume: replay_wal_tail, then          *)
(* recover_pending_flush_file, then the manifest as S3 has it now (or the  *)
(* copy S has, when it cannot be fetched).                                 *)
Tail_(c, d) ==
    IF Entries(d, c.seq) = {} THEN c
    ELSE [c EXCEPT !.st = "dirty", !.seq = Max(Entries(d, c.seq))]

Reloaded(c, man) == [c EXCEPT !.val = man.val, !.etag = man.etag]

TakeOver(v) ==
    /\ pc["S"] = "taking" /\ stage[v] = "replay"
    /\ stage' = [stage EXCEPT ![v] = "open"]
    /\ LET c == Tail_(cache["S"][v], disk[v])
           r == [c EXCEPT !.st = IF @ # "syncing" THEN @
                                 ELSE IF disk[v].flushing = 0 THEN "absent" ELSE "dirty"] IN
       /\ \/ cache' = [cache EXCEPT !["S"][v] = Reloaded(r, store[v])]
          \/ "recover_error" \in occurs /\ cache' = [cache EXCEPT !["S"][v] = r]
       /\ data' = IF c.st = "syncing" /\ disk[v].flushing # 0
                  THEN [data EXCEPT ![v][c.file] = data[v][disk[v].flushing]] ELSE data
    /\ disk' = [disk EXCEPT ![v].flushing = 0]
    /\ UNCHANGED <<occurs, protoVars, s3Vars, kernelVars, files, cycle, queued, acked, bounds>>

(* recover_devices_by_id, then ALIVE.  A device that cannot be opened or   *)
(* recovered is counted out and left quiesced.  The map of devices is then *)
(* written without it, unless not one of them could be opened.             *)
Handed == {v \in Vols : dev[v] = "quiesced" /\ listed[v] # None}

RecoverDevices ==
    /\ pc["S"] = "taking" /\ \A v \in Vols : stage[v] # "replay"
    /\ Goto("S", "taken")
    /\ \E failed \in SUBSET Handed :
        /\ "recover_error" \notin occurs => failed = {}
        /\ dev' = [v \in Vols |-> IF v \in Handed \ failed THEN "S" ELSE dev[v]]
        /\ \/ left' = left \cup failed
           \/ failed = Handed /\ UNCHANGED left
    /\ UNCHANGED <<occurs, toP, toS, predVars, dataVars, anew, cacheVars, bounds>>

(* The socket of P is closed once P has stopped waiting.                   *)
SendAlive ==
    /\ pc["S"] = "taken"
    /\ IF pc["P"] = "alive_wait"
       THEN /\ SendP("alive") /\ Goto("S", "serving")
            /\ cache' = WithPhase("S", "idle")
            /\ UNCHANGED <<kernelVars, stage, cycle, queued>>
       ELSE UNCHANGED toP /\ Leave("S")
    /\ UNCHANGED <<occurs, toS, predVars, dataVars, bounds>>

\* Mutant of Unserved: only exports without a device get one.
UnlistedOnly(v) == dev[v] = None

(* serve_with_router registers a device, once, for every export that has   *)
(* none; the kernel's NBD device, or the listener, reconnects to S once P  *)
(* let go.  add_device recovers the quiesced device the map names; one the *)
(* map has lost stays quiesced, beside the new device the export gets.     *)
Unserved(v) == dev[v] \in {None, "quiesced"}

RegisterMissing(v) ==
    /\ pc["S"] = "serving" /\ cache["S"][v] # None
    /\ Unserved(v) /\ anew[v] = "no"
    /\ \/ v \notin left /\ dev' = [dev EXCEPT ![v] = "S"] /\ UNCHANGED <<anew, left>>
       \/ v \in left /\ anew' = [anew EXCEPT ![v] = "new"] /\ UNCHANGED <<dev, left>>
       \/ /\ "recover_error" \in occurs /\ anew' = [anew EXCEPT ![v] = "failed"]
          /\ left' = left \cup {v} /\ UNCHANGED dev
    /\ UNCHANGED <<occurs, protoVars, dataVars, cacheVars, bounds>>

(* S gives up: an Abort from P, a closed socket, or a wait that ran out.   *)
GiveUp ==
    /\ \/ /\ pc["S"] \in {"ack_wait", "cut_wait", "dead_wait"}
          /\ \/ NextIs(toS, "abort") /\ toS' = Tail(toS)
             \/ toS = << >> /\ ~InProtocol /\ UNCHANGED toS
             \/ /\ toS = << >> /\ UNCHANGED toS
                /\ IF pc["S"] = "dead_wait" THEN "s_exit_cut" \in occurs ELSE "timeout" \in occurs
       \/ /\ pc["S"] \in {"warming", "adopting"} /\ Warmed /\ ~InProtocol
          /\ UNCHANGED toS
    /\ Leave("S")
    /\ UNCHANGED <<occurs, toP, predVars, dataVars, bounds>>

(* S dies: before CUTOVER is sent, before it connects, or later.           *)
SuccessorDies ==
    /\ Runs("S") /\ pc["S"] # "serving"
    /\ \/ "unconnected" \in occurs /\ pc["S"] \in {"starting", "warming"}
       \/ /\ "s_exit" \in occurs /\ pc["S"] # "taken"
          /\ pc["P"] \in {"ready_wait", "freezing", "frozen", "alive_wait"}
       \/ "s_exit_live" \in occurs /\ pc["S"] = "taken"
       \/ "s_exit_cut" \in occurs /\ pc["P"] = "cut"
    /\ Leave("S")
    /\ UNCHANGED <<occurs, toP, toS, predVars, dataVars, bounds>>

-----------------------------------------------------------------------------
(* P dies.  While it is MAINPID, systemd kills the successor with it; then *)
(* the service starts cold.  What a crash within a flush cycle does is in  *)
(* FlushCycle.                                                             *)
Settled(v) == \A p \in Procs : cycle[p][v] = "none"

DaemonDies ==
    /\ "crash" \in occurs /\ crashes < MaxCrashes
    /\ Runs(mainPid) /\ \A v \in Vols : Settled(v)
    /\ crashes' = crashes + 1
    /\ pc' = [p \in Procs |-> IF Runs(p) THEN "gone" ELSE pc[p]]
    /\ cache' = [p \in Procs |-> [v \in Vols |-> None]]
    /\ cycle' = [p \in Procs |-> [v \in Vols |-> "none"]]
    /\ queued' = [p \in Procs |-> {}]
    /\ dev' = [v \in Vols |-> IF dev[v] = None \/ v \in NbdVols THEN None ELSE "quiesced"]
    /\ stage' = [v \in Vols |-> "none"]
    /\ fence' = FALSE /\ toP' = << >> /\ toS' = << >>
    /\ anew' = [v \in Vols |-> "no"]
    /\ UNCHANGED <<occurs, left, listed, outcome, unit, mainPid, dataVars, ops>>

ColdStart ==
    /\ ~Runs("P") /\ ~Runs("S")
    /\ pc' = [pc EXCEPT !["P"] = "serving"]
    /\ mainPid' = "P" /\ unit' = "ready"
    /\ cache' = [cache EXCEPT !["P"] = [v \in Vols |-> IF Has(v) THEN ColdCache(v) ELSE None]]
    /\ data' = [v \in Vols |->
                  IF Has(v) /\ CopiesBack(disk[v])
                  THEN [data[v] EXCEPT ![disk[v].active] = data[v][disk[v].flushing]] ELSE data[v]]
    /\ disk' = [v \in Vols |-> IF Has(v) THEN [disk[v] EXCEPT !.flushing = 0] ELSE disk[v]]
    /\ dev' = [v \in Vols |-> IF Has(v) THEN "P" ELSE None]
    /\ UNCHANGED <<occurs, toP, toS, listed, fence, outcome, s3Vars, anew, left, files, stage,
                   cycle, queued, acked, bounds>>

PredecessorSteps ==
    \/ AcceptTimeout \/ RecvHello \/ FenceTimeout \/ RecvReady \/ NoReady
    \/ Freeze \/ FreezeFails \/ SendCutover \/ CutoverFails \/ CutOver
    \/ RecvAlive \/ NoAlive \/ Exit

SuccessorSteps ==
    \/ SList \/ SendHello \/ Adopt \/ SendReady \/ RecvCutover \/ RecvPredsDead
    \/ RecoverDevices \/ SendAlive \/ GiveUp
    \/ \E v \in Vols : \/ WarmManifest(v) \/ WarmFile(v) \/ WarmState(v)
                       \/ TakeOver(v) \/ RegisterMissing(v)

FlushSteps ==
    \E p \in Procs, v \in Vols :
        \/ FlushRotate(p, v) \/ FlushPublish(p, v) \/ FlushEnd(p, v)

HandoffNext ==
    \/ Trigger \/ PredecessorSteps \/ SuccessorSteps \/ FlushSteps
    \/ SuccessorDies \/ DaemonDies \/ ColdStart
    \/ \E v \in Vols : ApiCreate(v) \/ ApiResize(v) \/ ApiPurge(v)
    \/ \E p \in Procs, v \in Vols :
        GuestWrite(p, v) \/ CheckpointTick(p, v) \/ FlushQueue(p, v)

HandoffSpec == HandoffInit /\ [][HandoffNext]_handoffVars

(* Each process goes on while it runs, and systemd restarts the service.   *)
HandoffFairness ==
    /\ WF_handoffVars(PredecessorSteps) /\ WF_handoffVars(SuccessorSteps)
    /\ WF_handoffVars(FlushSteps) /\ WF_handoffVars(ColdStart)

HandoffLiveSpec == HandoffSpec /\ HandoffFairness

-----------------------------------------------------------------------------
(* Properties.                                                             *)

Excludes(events) == occurs \cap events = {}

(* A read through whichever daemon has the device returns the last write   *)
(* acknowledged, before, during and after a handoff, whatever S and P do   *)
(* to the shared cache files, WAL and metadata.                            *)
AlwaysServesLatest ==
    \A p \in Procs, v \in Vols :
        Serves(p, v) => cache[p][v] # None /\ Served(p, v) = acked[v]

Unsafe == {"inflight", "open_early", "linger", "outlives", "late", "s_exit_live"}

(* ... unless a flush or an early open of S crosses the handoff, S dies    *)
(* while it serves, or P dies in one where a process outstays its timeout. *)
ServesLatest ==
    \/ ~Excludes({"inflight", "open_early", "s_exit_live"}) \/ NbdVols # {}
    \/ ~Excludes({"crash"}) /\ ~Excludes({"linger", "outlives", "late"})
    \/ AlwaysServesLatest

(* Whenever no flush cycle is under way, a cold start (after a crash of    *)
(* both daemons) would find every acknowledged write in the metadata, the  *)
(* WAL, the cache files and the manifest the two processes leave behind.   *)
AlwaysRestartable == \A v \in Vols : Has(v) /\ Settled(v) => ColdValue(v) = acked[v]

Restartable ==
    \/ ~Excludes(Unsafe)
    \/ AlwaysRestartable

(* A handoff that did not happen leaves P as it was: every cache flushes   *)
(* and truncates again (but not when nobody connected, where the phases    *)
(* are not put back), P has its devices (but for those a failed revival, a *)
(* PREDS_DEAD that could not be sent, or a late successor left behind) and *)
(* systemd has left "reloading".                                           *)
AbortRestores ==
    pc["P"] = "serving" /\ outcome \notin {None, "succeeded"} =>
        /\ outcome # "unaccepted" => \A v \in Open("P") : Idle(cache["P"][v])
        /\ \A v \in Open("P") \ left : dev[v] = "P"
        /\ unit = "ready"

(* S comes out of the handoff with the volumes P had when it took the      *)
(* fence, at their sizes, and leaves no file of a purged volume behind.    *)
AdoptsExactly ==
    pc["S"] = "serving" =>
        /\ Open("S") = {v \in Vols : Has(v)}
        /\ \A v \in Open("S") : cache["S"][v].size = defs[v]
        /\ \A v \in Vols : ~Has(v) => disk[v] = None

(* A device quiesced by a handoff or a crash is served again, whichever    *)
(* step of whichever process fails, but for the devices these steps leave  *)
(* behind: recovered neither by S nor by P, or never tried.  S then puts a *)
(* new device beside one it lost, or has failed to.                        *)
DevicesReturn ==
    \A v \in Vols :
        dev[v] = "quiesced" ~>
            (dev[v] \in Procs \/ (v \in left /\ (pc["S"] = "serving" => anew[v] # "no")))

\* The successor serves the volumes the predecessor had, each with the last
\* content a guest was told is written.
HandoffExact == ServesLatest /\ AdoptsExactly

\* A handoff that dies at any step leaves files a restart can use, and one that
\* is called off leaves the predecessor serving.
HandoffCanFail == Restartable /\ AbortRestores
=============================================================================
