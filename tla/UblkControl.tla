------------------------------ MODULE UblkControl ------------------------------
(***************************************************************************)
(* The life of a ublk kernel device across daemon lives.  A device is      *)
(* created for an export (ADD_DEV, run file, START_DEV), named in the      *)
(* node's device map, parked by the kernel as QUIESCED when its daemon     *)
(* dies, and found again by the next daemon's scan, which recovers it,     *)
(* or queues it for a background kill when it matches no export.           *)
(*                                                                         *)
(*   block/ublk/mod.rs      UblkServer: map, add, take, scan, sweep        *)
(*   block/ublk/device.rs   UblkDevice: register, recover, unregister      *)
(*   ublk-core ctrl.rs      control commands, run file, drop of a handle   *)
(*   cli/server.rs, router  boot order, register_device, remove_device     *)
(*                                                                         *)
(* The kernel driver is external: ADD_DEV takes the asked id or the lowest *)
(* free one, STOP_DEV leaves a device "dead", DEL_DEV removes it whatever  *)
(* its state, and a LIVE device whose server died becomes QUIESCED.        *)
(***************************************************************************)
EXTENDS Integers, FiniteSets

CONSTANTS
    UExports,     \* exports of this node
    UIds,         \* kernel device ids, 1..n
    UCrashes,     \* bound: daemon deaths
    UAttaches,    \* bound: attach requests by name
    UScenarios    \* the sets of events a behaviour may contain

NoId == 0
NoName == "none"
Foreign == "foreign"

VARIABLES
    uMay,       \* the events of this behaviour
    kst,        \* kernel state of each id
    kown,       \* ghost: whose disk the device was created as
    kjson,      \* /run/ublksrvd/NNNN.json: the export_name in it
    dmap,       \* ublk_devices.json: export -> id
    daemon,     \* down | built | scanning | starting | up
    known,      \* exports the router has a handler for
    reg,        \* UblkServer.devices: export -> id
    asked,      \* exports whose add_device has not started yet
    adding,     \* the add_device in progress, under the server mutex
    todo,       \* QUIESCED ids the scan still has to recover
    recovered,  \* ids the scan recovered, not inserted yet
    orphans,    \* orphans_to_kill
    sweep,      \* ids of the background orphan sweep, with their step
    dying,      \* devices taken out of the map and being unregistered
    told,       \* ghost: the device a guest was given for an export
    wanted,     \* ghost: exports attached by name, not detached since
    hist,       \* ghost: what failed writes and commands left behind
    uDeaths, uAsked

kernel == <<kst, kown, kjson>>
scanning == <<todo, recovered, orphans>>
ghosts == <<told, wanted, hist, uDeaths, uAsked>>
uvars == <<uMay, kernel, dmap, daemon, known, reg, asked, adding, scanning,
           sweep, dying, ghosts>>

UMay(e) == e \in uMay

NotAdding == [e |-> NoName, id |-> NoId, step |-> "idle"]
NoneReg == [e \in UExports |-> NoId]
Registered == {e \in UExports : reg[e] # NoId}
Leaving == {i \in UIds : kst[i] = "leaving"}
FreeIds == {i \in UIds : kst[i] = "absent"}
Lowest(S) == CHOOSE i \in S : \A j \in S : i <= j

\* unfiled: the exports that the device map last written is wrong about;
\* misled: those harmed when an add or a later daemon read it;
\* twice: those of which a scan found two devices; left: the devices that a
\* failed kill left as they were.
NoHistory == [unfiled |-> {}, misled |-> {}, twice |-> {}, left |-> {}]

UInit ==
    /\ uMay \in UScenarios
    /\ kst = [i \in UIds |-> "absent"]
    /\ kown = [i \in UIds |-> NoName]
    /\ kjson = [i \in UIds |-> NoName]
    /\ dmap = NoneReg
    /\ daemon = "up" /\ known = {} /\ reg = NoneReg
    /\ asked = {} /\ adding = NotAdding
    /\ todo = {} /\ recovered = {} /\ orphans = {}
    /\ sweep = {} /\ dying = {}
    /\ told = NoneReg /\ wanted = {} /\ hist = NoHistory /\ uDeaths = 0 /\ uAsked = 0

--------------------------------------------------------------------------------
(* Kernel commands.                                                        *)

\* STOP_DEV (kill_dev): a device that serves or waits stops for good.
Stopped(i) ==
    [kst EXCEPT ![i] = IF @ \in {"live", "leaving", "quiesced"} THEN "dead" ELSE @]

\* DEL_DEV: the id is free again.
Deleted(i) == [kst EXCEPT ![i] = "absent"]

--------------------------------------------------------------------------------
(* The device map.                                                         *)

\* persist_devices: the registered devices replace the whole map, in place.
\* A write that fails is only logged ("unsaved"): the file stays as it was, or
\* is cut short, and a file that cannot be parsed counts as empty.  So does
\* one whose write the daemon did not survive.  Written in the middle of a
\* boot, the map lacks the guests' devices that the scan did not see.
Persist(r, handlers, given) ==
    /\ dmap' \in {r} \cup (IF UMay("unsaved") THEN {dmap, NoneReg} ELSE {})
    /\ hist' = [hist EXCEPT !.unfiled =
                  {e \in UExports : dmap'[e] # r[e]}
                    \cup {e \in handlers : r[e] = NoId /\ given[e] # NoId}]

\* A map that is wrong is read.  An entry that is missing harms its own
\* export; one that gives a device the export no longer has, every export.
Misled ==
    [hist EXCEPT !.misled = @ \cup
        IF \E e \in hist.unfiled : dmap[e] # NoId THEN UExports ELSE hist.unfiled]

--------------------------------------------------------------------------------
(* add_device, under the router's mutex on the server.                     *)

AddTo(e, id, step) == adding' = [e |-> e, id |-> id, step |-> step]

\* A PUT by name gives the router a handler for the export.
AttachByName(e) ==
    /\ daemon = "up"
    /\ e \notin known
    /\ uAsked < UAttaches
    /\ UMay("overlap") \/ \A d \in dying : d.e # e
    /\ known' = known \cup {e}
    /\ asked' = asked \cup {e}
    /\ wanted' = wanted \cup {e}
    /\ uAsked' = uAsked + 1
    /\ UNCHANGED <<uMay, kernel, dmap, daemon, reg, adding, scanning, sweep,
                   dying, told, hist, uDeaths>>

\* load_persisted_indices.
PreferredId(e) == dmap[e]

\* probe_quiesced_glidefs: it is parked, whosever it is.
ProbeQuiesced(i) == i # NoId /\ kst[i] = "quiesced"

\* The checks of add_device, the preferred id of the map and its probe: an
\* id whose device is QUIESCED is recovered in place, whatever its run file
\* says; any other goes to ADD_DEV, with that id if there is one.
AddDevice(e) ==
    /\ daemon \in {"starting", "up"}
    /\ adding = NotAdding
    /\ e \in asked
    /\ UMay("late") \/ Leaving = {}
    /\ asked' = asked \ {e}
    /\ AddTo(e, PreferredId(e),
             IF ProbeQuiesced(PreferredId(e)) THEN "recover" ELSE "build")
    /\ hist' = IF e \in hist.unfiled THEN Misled ELSE hist
    /\ UNCHANGED <<uMay, kernel, dmap, daemon, known, reg, scanning, sweep,
                   dying, told, wanted, uDeaths, uAsked>>

\* An error of add_device: at boot it is logged, in a PUT the export that
\* could not get its device is taken down again.
AddFails ==
    /\ adding' = NotAdding
    /\ known' = IF daemon = "up" THEN known \ {adding.e} ELSE known

\* ADD_DEV with the preferred id or the lowest free one.  When the kernel
\* refuses the id, the half-built control handle is dropped with its ADD_DEV
\* flag, and that drop deletes the id it had asked for.
BuildCtrl ==
    /\ adding.step = "build"
    /\ \/ \E id \in FreeIds :
             /\ id = (IF adding.id # NoId THEN adding.id ELSE Lowest(FreeIds))
             /\ kst' = [kst EXCEPT ![id] = "dead"]
             /\ kown' = [kown EXCEPT ![id] = adding.e]
             /\ hist' = [hist EXCEPT !.left = @ \ {id}]
             /\ AddTo(adding.e, id, "added")
             /\ UNCHANGED known
       \/ /\ adding.id \in UIds \ FreeIds
          /\ kst' = Deleted(adding.id)
          /\ AddFails
          /\ UNCHANGED <<kown, hist>>
       \/ /\ adding.id = NoId /\ FreeIds = {}
          /\ AddFails
          /\ UNCHANGED <<kst, kown, hist>>
    /\ UNCHANGED <<uMay, kjson, dmap, daemon, reg, asked, scanning, sweep, dying,
                   told, wanted, uDeaths, uAsked>>

\* The queues are hosted; prep_start_dev writes the run file.
WriteRunFile ==
    /\ adding.step = "added"
    /\ kjson' = [kjson EXCEPT ![adding.id] = adding.e]
    /\ adding' = [adding EXCEPT !.step = "named"]
    /\ UNCHANGED <<uMay, kst, kown, dmap, daemon, known, reg, asked, scanning, sweep,
                   dying, ghosts>>

\* START_DEV.
StartDev ==
    /\ adding.step = "named"
    /\ kst' = [kst EXCEPT ![adding.id] = "live"]
    /\ adding' = [adding EXCEPT !.step = "started"]
    /\ UNCHANGED <<uMay, kown, kjson, dmap, daemon, known, reg, asked, scanning,
                   sweep, dying, ghosts>>

\* A queue is refused or START_DEV fails: the control handle still carries
\* its ADD_DEV flag and its drop deletes the device, not the run file.
RegisterFails ==
    /\ UMay("fail")
    /\ adding.step \in {"added", "named"}
    /\ kst' = Deleted(adding.id)
    /\ AddFails
    /\ UNCHANGED <<uMay, kown, kjson, dmap, daemon, reg, asked, scanning, sweep,
                   dying, ghosts>>

\* The run file after a recovery: an existing one only gets new thread ids.
RunFileAfter(i, e) ==
    [kjson EXCEPT ![i] = IF @ = NoName THEN e ELSE @]

\* A recovery that fails gives the guest's device up.
GiveUp(i) == told' = [e \in UExports |-> IF told[e] = i THEN NoId ELSE told[e]]

\* UblkDevice::recover of the preferred id: START_USER_RECOVERY, the queues,
\* END_USER_RECOVERY.  On an error the device stays QUIESCED.
RecoverInPlace ==
    /\ adding.step = "recover"
    /\ \/ /\ kst' = [kst EXCEPT ![adding.id] = "live"]
          /\ kjson' = RunFileAfter(adding.id, adding.e)
          /\ adding' = [adding EXCEPT !.step = "started"]
          /\ UNCHANGED <<known, told>>
       \/ /\ UMay("refail")
          /\ AddFails
          /\ GiveUp(adding.id)
          /\ UNCHANGED <<kst, kjson>>
    /\ UNCHANGED <<uMay, kown, dmap, daemon, reg, asked, scanning, sweep, dying,
                   wanted, hist, uDeaths, uAsked>>

\* devices.insert and persist_devices, then the answer with the path.
InsertDevice ==
    /\ adding.step = "started"
    /\ reg' = [reg EXCEPT ![adding.e] = adding.id]
    /\ told' = [told EXCEPT ![adding.e] = IF @ = NoId THEN adding.id ELSE @]
    /\ Persist(reg', known, told')
    /\ adding' = NotAdding
    /\ UNCHANGED <<uMay, kernel, daemon, known, asked, scanning, sweep, dying,
                   wanted, uDeaths, uAsked>>

--------------------------------------------------------------------------------
(* Removal: take_device under the mutex, unregister_device without it.     *)

\* remove_export drops the handler; take_device empties the map entry, but
\* only when the server has a device for the export.
TakeDevice(e) ==
    /\ daemon = "up"
    /\ adding.e # e
    /\ e \in known \ asked
    /\ known' = known \ {e}
    /\ told' = [told EXCEPT ![e] = NoId]
    /\ IF reg[e] = NoId
       THEN UNCHANGED <<reg, dmap, hist, dying, wanted>>
       ELSE /\ reg' = [reg EXCEPT ![e] = NoId]
            /\ Persist(reg', known', told')
            /\ dying' = dying \cup {[e |-> e, id |-> reg[e], step |-> "kill"]}
            /\ wanted' = wanted \ {e}
    /\ UNCHANGED <<uMay, kernel, daemon, asked, adding, scanning, sweep, uDeaths,
                   uAsked>>

\* kill_dev, then del_dev, which also removes the run file.
Unregister(d) ==
    /\ d \in dying
    /\ \/ /\ d.step = "kill"
          /\ kst' = Stopped(d.id)
          /\ dying' = (dying \ {d}) \cup {[d EXCEPT !.step = "del"]}
          /\ UNCHANGED kjson
       \/ /\ d.step = "del"
          /\ kst' = Deleted(d.id)
          /\ kjson' = [kjson EXCEPT ![d.id] = NoName]
          /\ dying' = dying \ {d}
    /\ UNCHANGED <<uMay, kown, dmap, daemon, known, reg, asked, adding, scanning, sweep,
                   ghosts>>

\* Mutant of UnregisterFails: the device is left as it is.
UnregisterGivesUp(d) ==
    /\ UMay("fail")
    /\ d \in dying
    /\ dying' = dying \ {d}
    /\ UNCHANGED <<uMay, kernel, dmap, daemon, known, reg, asked, adding, scanning,
                   sweep, ghosts>>

\* Either command fails: unregister_device force-kills, logs and answers Ok.
\* When the kill fails too, the "device may be leaked".
UnregisterFails(d) ==
    /\ UMay("fail")
    /\ d \in dying
    /\ dying' = dying \ {d}
    /\ \/ kst' = Stopped(d.id) /\ UNCHANGED hist
       \/ hist' = [hist EXCEPT !.left = @ \cup {d.id}] /\ UNCHANGED kst
    /\ UNCHANGED <<uMay, kown, kjson, dmap, daemon, known, reg, asked, adding, scanning,
                   sweep, told, wanted, uDeaths, uAsked>>

--------------------------------------------------------------------------------
(* The end of a daemon, and of the host.                                   *)

\* What the kernel makes of the devices a dead daemon leaves: LIVE ones are
\* parked, at once or some time later ("slow"), and then before the next
\* daemon starts, after its scan ("early") or after its adds too ("late").
Parked(how) ==
    [i \in UIds |-> IF kst[i] = "live" /\ kown[i] # Foreign THEN how ELSE kst[i]]

DaemonGone ==
    /\ daemon' = "down"
    /\ known' = {} /\ reg' = NoneReg /\ asked' = {} /\ adding' = NotAdding
    /\ todo' = {} /\ recovered' = {} /\ orphans' = {}
    /\ sweep' = {} /\ dying' = {}
    /\ hist' = Misled

\* The daemon dies, at any step: of an add, a removal, the boot or the sweep.
DaemonDies ==
    /\ daemon # "down"
    /\ uDeaths < UCrashes
    /\ \/ kst' = Parked("quiesced")
       \/ UMay("slow") /\ kst' = Parked("leaving")
    /\ uDeaths' = uDeaths + 1
    /\ DaemonGone
    /\ UNCHANGED <<uMay, kown, kjson, dmap, told, wanted, uAsked>>

\* shutdown: the worker pool goes, the devices stay and are waited for until
\* they are QUIESCED; the map stays on disk.
ShutdownDevices ==
    /\ daemon = "up"
    /\ adding = NotAdding
    /\ uDeaths < UCrashes
    /\ kst' = Parked("quiesced")
    /\ uDeaths' = uDeaths + 1
    /\ DaemonGone
    /\ UNCHANGED <<uMay, kown, kjson, dmap, told, wanted, uAsked>>

KernelParks(i) ==
    /\ kst[i] = "leaving"
    /\ kst' = [kst EXCEPT ![i] = "quiesced"]
    /\ UNCHANGED <<uMay, kown, kjson, dmap, daemon, known, reg, asked, adding, scanning,
                   sweep, dying, ghosts>>

\* The host restarts while the daemon is down: guests, kernel devices and
\* /run are gone, the cache directory with the map is not.
HostReboots ==
    /\ UMay("reboot")
    /\ daemon = "down"
    /\ kst' = [i \in UIds |-> "absent"]
    /\ kown' = [i \in UIds |-> NoName]
    /\ kjson' = [i \in UIds |-> NoName]
    /\ told' = NoneReg
    /\ uMay' = uMay \ {"reboot"}
    /\ UNCHANGED <<dmap, daemon, known, reg, asked, adding, scanning, sweep, dying,
                   wanted, hist, uDeaths, uAsked>>

\* Another ublk server on the host adds a device, and may die right away
\* and leave it QUIESCED ("parked").
ForeignAdds ==
    /\ UMay("foreign") /\ FreeIds # {}
    /\ \A i \in UIds : kown[i] # Foreign
    /\ LET id == Lowest(FreeIds)
       IN /\ \E st \in {"live", "quiesced"} :
                /\ st = "quiesced" => UMay("parked")
                /\ kst' = [kst EXCEPT ![id] = st]
          /\ kown' = [kown EXCEPT ![id] = Foreign]
    /\ UNCHANGED <<uMay, kjson, dmap, daemon, known, reg, asked, adding, scanning,
                   sweep, dying, ghosts>>

--------------------------------------------------------------------------------
(* Boot: handlers for the exports of the map, the scan, the registrations. *)

\* build_router_only: discover_local_exports reads the map; an export whose
\* definition cannot be loaded is left out ("unreadable").
BuildRouter ==
    /\ daemon = "down"
    /\ UMay("early") \/ Leaving = {}
    /\ \E left \in SUBSET UExports :
          /\ left # {} => UMay("unreadable")
          /\ known' = {e \in UExports : dmap[e] # NoId} \ left
    /\ daemon' = "built"
    /\ UNCHANGED <<uMay, kernel, dmap, reg, asked, adding, scanning, sweep, dying, ghosts>>

\* What the scan does with the devices it probed.
Scanned(probed, mine, rest) ==
    /\ daemon = "built"
    /\ todo' = mine
    /\ orphans' = rest
    /\ IF probed = {}
       THEN daemon' = "starting" /\ asked' = known
       ELSE daemon' = "scanning" /\ UNCHANGED asked
    /\ hist' = [hist EXCEPT !.left = {}, !.twice = @ \cup
                   {kjson[i] : i \in {k \in mine : \E j \in mine \ {k} : kjson[j] = kjson[k]}}]
    /\ UNCHANGED <<uMay, kernel, dmap, known, reg, adding, recovered, sweep, dying,
                   told, wanted, uDeaths, uAsked>>

\* Mutant of ScanDevices: the state of the device is not looked at.
ScanAnyState ==
    LET probed == {i \in UIds : kst[i] \in {"live", "quiesced"}}
        mine == {i \in probed : kjson[i] \in known}
    IN Scanned(probed, mine, probed \ mine)

\* recover_quiesced_devices: the QUIESCED devices, split by the export name
\* of the run file.  The name test lets every consumer's device through: a
\* handle opened by id alone is named "none".
ScanDevices ==
    LET probed == {i \in UIds : kst[i] = "quiesced"}
        mine == {i \in probed : kjson[i] \in known}
    IN Scanned(probed, mine, probed \ mine)

\* One recovery of the scan.  One that fails joins the orphans, and the
\* guest's device is given up with it.
RecoverOne(i) ==
    /\ i \in todo
    /\ todo' = todo \ {i}
    /\ \/ /\ kst' = [kst EXCEPT ![i] = "live"]
          /\ recovered' = recovered \cup {i}
          /\ UNCHANGED <<orphans, told>>
       \/ /\ UMay("refail")
          /\ orphans' = orphans \cup {i}
          /\ GiveUp(i)
          /\ UNCHANGED <<kst, recovered>>
    /\ UNCHANGED <<uMay, kown, kjson, dmap, daemon, known, reg, asked, adding, sweep,
                   dying, wanted, hist, uDeaths, uAsked>>

\* All recoveries are in: insert them (the last of two with the same export
\* stays), start the sweep, persist.
FinishScan ==
    /\ daemon = "scanning" /\ todo = {}
    /\ \E r \in [UExports -> {NoId} \cup recovered] :
          /\ \A e \in UExports :
                IF \E i \in recovered : kjson[i] = e
                THEN r[e] # NoId /\ kjson[r[e]] = e
                ELSE r[e] = NoId
          /\ reg' = r
    /\ Persist(reg', known, told)
    /\ sweep' = {[id |-> i, step |-> "kill"] : i \in orphans}
    /\ daemon' = "starting"
    /\ asked' = {e \in known : reg'[e] = NoId}
    /\ recovered' = {} /\ orphans' = {}
    /\ UNCHANGED <<uMay, kernel, known, adding, todo, dying, told, wanted, uDeaths, uAsked>>

\* serve_with_router_inner: every export without a device had its add.
BootDone ==
    /\ daemon = "starting"
    /\ asked = {} /\ adding = NotAdding
    /\ daemon' = "up"
    /\ UNCHANGED <<uMay, kernel, dmap, known, reg, asked, adding, scanning, sweep,
                   dying, ghosts>>

\* Mutant of SweepOrphan: a kill that fails is tried again, without end.
SweepOrphanRetries(s) ==
    /\ s \in sweep
    /\ UNCHANGED uvars

\* The background sweep: kill, then delete.  A device that cannot be opened,
\* or whose kill and delete fail, stays as it is; one whose delete fails stays
\* dead.  Either is only logged.
SweepOrphan(s) ==
    /\ s \in sweep
    /\ \/ /\ s.step = "kill"
          /\ kst' = Stopped(s.id)
          /\ sweep' = (sweep \ {s}) \cup {[s EXCEPT !.step = "del"]}
          /\ UNCHANGED <<kjson, hist>>
       \/ /\ s.step = "del"
          /\ kst' = Deleted(s.id)
          /\ kjson' = [kjson EXCEPT ![s.id] = NoName]
          /\ sweep' = sweep \ {s}
          /\ UNCHANGED hist
       \/ /\ UMay("refail")
          /\ sweep' = sweep \ {s}
          /\ hist' = [hist EXCEPT !.left = @ \cup {s.id}]
          /\ UNCHANGED <<kst, kjson>>
    /\ UNCHANGED <<uMay, kown, dmap, daemon, known, reg, asked, adding, scanning, dying,
                   told, wanted, uDeaths, uAsked>>

--------------------------------------------------------------------------------
AddSteps ==
    \/ \E e \in UExports : AddDevice(e)
    \/ BuildCtrl \/ WriteRunFile \/ StartDev \/ RecoverInPlace \/ InsertDevice

BootSteps ==
    \/ BuildRouter \/ ScanDevices \/ FinishScan \/ BootDone
    \/ \E i \in UIds : RecoverOne(i)

UNext ==
    \/ \E e \in UExports : AttachByName(e) \/ TakeDevice(e)
    \/ AddSteps \/ RegisterFails
    \/ \E d \in dying : Unregister(d) \/ UnregisterFails(d)
    \/ BootSteps
    \/ \E s \in sweep : SweepOrphan(s)
    \/ DaemonDies \/ ShutdownDevices \/ HostReboots
    \/ \E i \in UIds : KernelParks(i)
    \/ ForeignAdds

\* The boot sequence and an add run in tasks of the runtime, which completes
\* a ready one; each entry of the sweep is a blocking task of its own; the
\* service manager restarts a daemon that went down.
UFairness ==
    /\ WF_uvars(AddSteps)
    /\ WF_uvars(BootSteps)
    /\ WF_uvars(\E s \in sweep : SweepOrphan(s))
    /\ WF_uvars(\E d \in dying : Unregister(d))
    /\ WF_uvars(\E i \in UIds : KernelParks(i))

USpec == UInit /\ [][UNext]_uvars /\ UFairness

--------------------------------------------------------------------------------
(* Properties.                                                             *)

Present(i) == kst[i] \in {"live", "leaving", "quiesced"}

\* The device a guest was given for an export stays that export's device: no
\* sweep, add, failed registration, removal of another export or death of the
\* daemon (mod.rs 700-762, Drop of UblkCtrlInner) stops or deletes it.  It
\* ends with the export's own removal, or with an add or a boot that read a
\* device map whose last write had failed.
GuestKeepsItsDevice ==
    \A e \in UExports \ hist.misled :
        told[e] # NoId => /\ Present(told[e])
                          /\ kown[told[e]] = e

\* The server answers for an export on that export's own live device, and
\* on no device for two exports (devices map of UblkServer against the
\* kernel, after any order of crashes, scans, adds and removals).
ServesItsOwn ==
    /\ \A e \in Registered \ hist.misled :
          /\ kst[reg[e]] = "live" /\ kown[reg[e]] = e /\ kjson[reg[e]] = e
    /\ \A e, f \in Registered \ hist.misled : e # f => reg[e] # reg[f]

\* An export that was removed by name is not brought back by a restart: the
\* handlers of the next boot come from a map from which the removal had
\* already gone ("so a concurrent restart sees this device as already-gone",
\* take_device; discover_local_exports), if the map could be written.
RemovedStaysGone == known \subseteq wanted \cup hist.misled

\* A live device is served under one registration: no order of scans, adds,
\* removals and deaths leaves a second live device for an export that the
\* server has forgotten, also when a scan ran before the kernel had parked a
\* device.  A removal or a sweep that a death cuts short can leave two for the
\* next scan, which recovers both and keeps one (recover_quiesced_devices
\* inserts by export name), and a device is "leaked" when its kill fails twice.
NoForgottenDevice ==
    (daemon = "up" /\ adding = NotAdding) =>
        \A i \in UIds \ hist.left :
            (kst[i] = "live" /\ kown[i] \in UExports \ (hist.twice \cup hist.misled)) =>
                (\E e \in UExports : reg[e] = i) \/ (\E d \in dying : d.id = i)

\* A device of another ublk server on the host is left alone: the scan
\* "skip[s] devices owned by other ublk consumers" and an add never takes or
\* deletes an id it did not create (mod.rs 575-576, 235-236).
ForeignUntouched ==
    [][\A i \in UIds :
          (kown[i] = Foreign /\ kst[i] # "absent" /\ kown'[i] = Foreign)
              => kst'[i] = kst[i]]_uvars

\* The guests that hold a device nobody serves, though the map was written
\* and the scan found one device of theirs.
Unserved == {e \in UExports : told[e] # NoId /\ reg[e] # told[e]}
                \ (hist.misled \cup hist.twice)

\* The devices that wait for a server and whose kill did not fail.
Waiting == {i \in UIds : kst[i] = "quiesced"} \ hist.left

\* A guest whose daemon died is served again on the same device, once the
\* daemon stays up (scan, recovery and boot order), and no device stays parked:
\* each QUIESCED device is recovered or swept ("prevents kernel-state-damage
\* loops where a crash-restarting daemon accumulates orphans across
\* iterations").  Both need the kernel to have parked the device by the time of
\* the scan, which looks once.
UblkRecovered == ~UMay("early") => Unserved = {} /\ Waiting = {}

\* The server's map, the file of persisted devices and the kernel agree about
\* which export has which device, through crashes, scans, adds and removals.
UblkMapsAgree == GuestKeepsItsDevice /\ ServesItsOwn /\ RemovedStaysGone /\ NoForgottenDevice
================================================================================
