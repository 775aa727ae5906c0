------------------------------ MODULE NbdDevices ------------------------------
(***************************************************************************)
(* The kernel NBD devices of a node.  A device is made for an export by    *)
(* giving the kernel one end of a socketpair whose other end an NBD        *)
(* session serves.  When the daemon dies the kernel keeps the device for   *)
(* dead_conn_timeout and the next daemon, which remembers the index in     *)
(* nbd_devices.json, hands it a new socket (NBD_CMD_RECONFIGURE).          *)
(*                                                                         *)
(*   block/nbd/mod.rs      NbdDeviceManager: map, add, remove              *)
(*   block/nbd/netlink.rs  CONNECT, RECONFIGURE, DISCONNECT                *)
(*   router.rs, cli/server.rs   register_device, remove_device, boot       *)
(*                                                                         *)
(* The kernel driver is external: CONNECT takes the asked index or the     *)
(* lowest free one and fails with EBUSY while the index is in use or being *)
(* torn down; RECONFIGURE replaces a dead socket only; teardown takes a    *)
(* while, during which the pid file may or may not still be there.         *)
(***************************************************************************)
EXTENDS Integers, FiniteSets

CONSTANTS
    NExports,    \* exports of this node, all with transport "nbd"
    NIndices,    \* kernel device indices
    NCrashes,    \* bound: daemon deaths
    NPuts,       \* bound: attach requests by name
    NTries,      \* MAX_RETRIES of add_device
    NScenarios   \* the sets of events a behaviour may contain

NoIndex == -1

VARIABLES
    nMay,       \* the events of this behaviour
    nKernel,    \* index -> free | live | dead (socket gone) | dying
    nServes,    \* index -> the export whose session has, or last had, it
    nFile,      \* nbd_devices.json: export -> index
    nUp,        \* the daemon: down | boot | up
    nExports,   \* exports of the router
    nDevices,   \* NbdDeviceManager.devices: export -> index
    nAsked,     \* exports whose register_device waits for the mutex
    nLeaving,   \* exports whose remove_device waits for the mutex
    nCall,      \* the call that holds the mutex
    nGuest,     \* ghost: the device the guest of an export has open
    nLost,      \* ghost: exports whose device is not the one the file or the
                \* manager names
    nDeaths, nPut

nKern == <<nKernel, nServes>>
nRouter == <<nExports, nAsked, nLeaving>>
nBounds == <<nDeaths, nPut>>
nGhosts == <<nGuest, nLost>>
nvars == <<nMay, nKern, nFile, nUp, nRouter, nDevices, nCall, nGhosts, nBounds>>

NMay(e) == e \in nMay

NIdle == [op |-> "idle", of |-> "none", index |-> NoIndex, tries |-> 0]
NoneOn == [e \in NExports |-> NoIndex]
FreeIndices == {i \in NIndices : nKernel[i] = "free"}

NInit ==
    /\ nMay \in NScenarios
    /\ nKernel = [i \in NIndices |-> "free"]
    /\ nServes = [i \in NIndices |-> "none"]
    /\ nFile = NoneOn /\ nUp = "up"
    /\ nExports = {} /\ nAsked = {} /\ nLeaving = {}
    /\ nDevices = NoneOn /\ nCall = NIdle /\ nGuest = NoneOn /\ nLost = {}
    /\ nDeaths = 0 /\ nPut = 0

--------------------------------------------------------------------------------
(* The kernel.                                                             *)

\* The socket is gone for longer than dead_conn_timeout, or DISCONNECT came:
\* I/O fails and the index is torn down; the guest has lost its device.
TearDown(i) ==
    /\ nKernel' = [nKernel EXCEPT ![i] = "dying"]
    /\ nGuest' = [e \in NExports |-> IF nGuest[e] = i THEN NoIndex ELSE nGuest[e]]

\* The kernel has the socket of a running add_device.
Adding(e, i) == nCall.op = "finish" /\ nCall.of = e /\ nCall.index = i

\* The manager goes on listing an index whose session ended by itself.
KernelTimeout(i) ==
    /\ nKernel[i] = "dead"
    /\ NMay("timeout")
    /\ TearDown(i)
    /\ nLost' = nLost \cup {e \in NExports : nDevices[e] = i \/ Adding(e, i)}
    /\ UNCHANGED <<nMay, nServes, nFile, nUp, nRouter, nDevices, nCall, nBounds>>

KernelReleases(i) ==
    /\ nKernel[i] = "dying"
    /\ nKernel' = [nKernel EXCEPT ![i] = "free"]
    /\ nServes' = [nServes EXCEPT ![i] = "none"]
    /\ UNCHANGED <<nMay, nFile, nUp, nRouter, nDevices, nCall, nGhosts, nBounds>>

\* Another NBD user of the host connects a free index, and leaves it.
ForeignConnects(i) ==
    /\ NMay("foreign")
    /\ nKernel[i] = "free"
    /\ nKernel' = [nKernel EXCEPT ![i] = "live"]
    /\ nServes' = [nServes EXCEPT ![i] = "foreign"]
    /\ UNCHANGED <<nMay, nFile, nUp, nRouter, nDevices, nCall, nGhosts, nBounds>>

\* is_nbd_device_alive: the pid file of an index, which outlives a device
\* that is being torn down by an unknown time.
PidFileSays(i) ==
    CASE nKernel[i] \in {"live", "dead"} -> {TRUE}
      [] nKernel[i] = "dying" -> BOOLEAN
      [] OTHER -> {FALSE}

--------------------------------------------------------------------------------
(* Requests of the router.                                                 *)

\* A PUT by name makes the export and asks for its device.
PutExport(e) ==
    /\ nUp = "up"
    /\ e \notin nExports \cup nLeaving
    /\ nPut < NPuts
    /\ nExports' = nExports \cup {e}
    /\ nAsked' = nAsked \cup {e}
    /\ nPut' = nPut + 1
    /\ UNCHANGED <<nMay, nKern, nFile, nUp, nLeaving, nDevices, nCall, nGhosts,
                   nDeaths>>

\* A DELETE takes the export out of the router before it asks for the
\* removal of the device.
DeleteExport(e) ==
    /\ nUp = "up"
    /\ e \in nExports
    /\ NMay("delete")
    /\ nExports' = nExports \ {e}
    /\ nLeaving' = nLeaving \cup {e}
    /\ UNCHANGED <<nMay, nKern, nFile, nUp, nAsked, nDevices, nCall, nGhosts,
                   nBounds>>

--------------------------------------------------------------------------------
(* add_device.                                                             *)

\* Mutant of BeginAdd: the handshake does not ask for the export.
BeginAddAnyway(e) ==
    /\ nUp # "down" /\ nCall = NIdle
    /\ e \in nAsked
    /\ nAsked' = nAsked \ {e}
    /\ nCall' = IF nDevices[e] # NoIndex THEN NIdle
                ELSE [op |-> "try", of |-> e, index |-> nFile[e], tries |-> 0]
    /\ UNCHANGED <<nMay, nKern, nFile, nUp, nExports, nLeaving, nDevices,
                   nGhosts, nBounds>>

\* The start of add_device: an export that has a device already, or whose
\* handshake finds no handler in the router, is refused; otherwise the
\* index the file has for it is the one to ask for.
BeginAdd(e) ==
    /\ nUp # "down" /\ nCall = NIdle
    /\ e \in nAsked
    /\ nAsked' = nAsked \ {e}
    /\ nCall' = IF nDevices[e] # NoIndex \/ e \notin nExports THEN NIdle
                ELSE [op |-> "try", of |-> e, index |-> nFile[e], tries |-> 0]
    /\ UNCHANGED <<nMay, nKern, nFile, nUp, nExports, nLeaving, nDevices,
                   nGhosts, nBounds>>

Serve(i, e) ==
    /\ nKernel' = [nKernel EXCEPT ![i] = "live"]
    /\ nServes' = [nServes EXCEPT ![i] = e]
    /\ nCall' = [nCall EXCEPT !.op = "finish", !.index = i]

\* netlink::reconfigure gives a device whose socket is dead a new one.
Reconfigure(i) ==
    /\ nKernel[i] = "dead"
    /\ Serve(i, nCall.of)

\* netlink::connect: the asked index must be free; without one the kernel
\* takes the lowest.
Connect(i) ==
    /\ nKernel[i] = "free"
    /\ Serve(i, nCall.of)

\* EBUSY and EINVAL are tried again after a pause, MAX_RETRIES times in
\* all; then the caller gets the error and the session ends with its socket.
TryAgain ==
    /\ nCall' = IF nCall.tries + 1 < NTries
                THEN [nCall EXCEPT !.tries = @ + 1] ELSE NIdle
    /\ UNCHANGED nKern

\* One turn of the retry loop: a live index is reconfigured and, when the
\* kernel refuses that, connected; a dead index is connected.
Attempt ==
    LET i == nCall.index IN
    IF i = NoIndex
    THEN \/ \E j \in FreeIndices : (\A k \in FreeIndices : j <= k) /\ Connect(j)
         \/ FreeIndices = {} /\ TryAgain
    ELSE \E alive \in PidFileSays(i) :
            \/ alive /\ Reconfigure(i)
            \/ (alive => nKernel[i] # "dead") /\ Connect(i)
            \/ /\ nKernel[i] # "free"
               /\ alive => nKernel[i] # "dead"
               /\ TryAgain

AddAttempt ==
    /\ nUp # "down" /\ nCall.op = "try"
    /\ Attempt
    /\ UNCHANGED <<nMay, nFile, nUp, nRouter, nDevices, nGhosts, nBounds>>

\* persist_devices: the devices of this process replace the whole file, in
\* place.  A failed write is a warning and leaves the old file or an empty one.
\* The ghost collects the exports whose guest's device is then not in the file:
\* at a boot those not yet registered, after a failure those it was to record.
NPersist(devices) ==
    /\ \/ nFile' = devices
       \/ NMay("unsaved") /\ nFile' \in {nFile, NoneOn}
    /\ nLost' = {e \in nLost : devices[e] = NoIndex \/ devices[e] # nGuest'[e]}
                \cup {e \in NExports : nFile'[e] # devices[e]}
                \cup {e \in nAsked : /\ nGuest[e] # NoIndex
                                    /\ nFile[e] = nGuest[e] /\ nFile'[e] # nFile[e]}

\* The kernel holds the socket: the wait for exclusive access (which only
\* warns when it times out), the flush of the buffer cache, then the entry
\* and the file.  A guest without a device opens the new path, if it is there.
FinishAdd ==
    LET e == nCall.of
        devices == [nDevices EXCEPT ![e] = nCall.index] IN
    /\ nUp # "down" /\ nCall.op = "finish"
    /\ nDevices' = devices
    /\ nGuest' = [nGuest EXCEPT ![e] =
                     IF @ = NoIndex /\ nKernel[nCall.index] \in {"live", "dead"}
                     THEN nCall.index ELSE @]
    /\ NPersist(devices)
    /\ nCall' = NIdle
    /\ UNCHANGED <<nMay, nKern, nUp, nRouter, nBounds>>

\* The client of a PUT hangs up: the future of add_device is dropped after
\* the kernel took the socket, the session goes on, nobody knows the device.
DropAdd ==
    /\ NMay("drop")
    /\ nUp = "up" /\ nCall.op = "finish"
    /\ nCall' = NIdle
    /\ UNCHANGED <<nMay, nKern, nFile, nUp, nRouter, nDevices, nGhosts, nBounds>>

--------------------------------------------------------------------------------
(* remove_device.                                                          *)

\* netlink::disconnect: a device in use is torn down; an error (the index is
\* free, or the message fails) is only logged.  An index the kernel had given
\* up may by now be that of another export, which loses it.
Disconnect(i, e) ==
    \/ /\ nKernel[i] \in {"live", "dead"}
       /\ TearDown(i)
       /\ nLost' = nLost \cup {f \in NExports : e \in nLost /\ nDevices[f] = i}
       /\ UNCHANGED nServes
    \/ /\ nKernel[i] \notin {"live", "dead"}
       /\ UNCHANGED <<nKern, nGhosts>>
    \/ /\ NMay("unsent")
       /\ nLost' = nLost \cup {e}
       /\ UNCHANGED <<nKern, nGuest>>

\* The entry is taken out, then the kernel is told; without an entry there
\* is nothing to do.
BeginRemove(e) ==
    /\ nUp # "down" /\ nCall = NIdle
    /\ e \in nLeaving
    /\ nLeaving' = nLeaving \ {e}
    /\ IF nDevices[e] = NoIndex
       THEN UNCHANGED <<nKern, nGhosts, nDevices, nCall>>
       ELSE /\ nDevices' = [nDevices EXCEPT ![e] = NoIndex]
            /\ Disconnect(nDevices[e], e)
            /\ nCall' = [NIdle EXCEPT !.op = "removed", !.of = e,
                                      !.index = nDevices[e]]
    /\ UNCHANGED <<nMay, nFile, nUp, nExports, nAsked, nBounds>>

\* The session is cancelled and aborted, which closes the socket of a device
\* that was not disconnected, and the file rewritten.
FinishRemove ==
    LET i == nCall.index IN
    /\ nUp # "down" /\ nCall.op = "removed"
    /\ nKernel' = [nKernel EXCEPT ![i] =
                      IF @ = "live" /\ nServes[i] = nCall.of THEN "dead" ELSE @]
    /\ UNCHANGED nGuest
    /\ NPersist(nDevices)
    /\ nCall' = NIdle
    /\ UNCHANGED <<nMay, nServes, nUp, nRouter, nDevices, nBounds>>

--------------------------------------------------------------------------------
(* Ends and beginnings of sessions and daemons.                            *)

\* A session ends by itself (a panic in a mutating request cancels it): the
\* kernel sees its socket closed, the manager keeps the entry.
SessionEnds(i) ==
    /\ NMay("session")
    /\ nUp # "down" /\ nKernel[i] = "live" /\ nServes[i] # "foreign"
    /\ nKernel' = [nKernel EXCEPT ![i] = "dead"]
    /\ UNCHANGED <<nMay, nServes, nFile, nUp, nRouter, nDevices, nCall, nGhosts,
                   nBounds>>

\* The daemon dies, or stops on SIGTERM, which leaves the devices alone:
\* every socket of its sessions is closed.
NDaemonEnds ==
    /\ nUp # "down" /\ NMay("crash") /\ nDeaths < NCrashes
    /\ nUp' = "down" /\ nDeaths' = nDeaths + 1
    /\ nKernel' = [i \in NIndices |-> IF nKernel[i] = "live" /\ nServes[i] # "foreign"
                                      THEN "dead" ELSE nKernel[i]]
    /\ nExports' = {} /\ nAsked' = {} /\ nLeaving' = {}
    /\ nDevices' = NoneOn /\ nCall' = NIdle
    /\ UNCHANGED <<nMay, nServes, nFile, nGhosts, nPut>>

\* The boot: the exports named in the file are created, then each asks for
\* its device, in any order.
NBoot ==
    /\ nUp = "down"
    /\ nUp' = "boot"
    /\ nExports' = {e \in NExports : nFile[e] # NoIndex}
    /\ nAsked' = nExports'
    /\ UNCHANGED <<nMay, nKern, nFile, nLeaving, nDevices, nCall, nGhosts, nBounds>>

\* The registrations are over, with or without success: the servers start.
NBootDone ==
    /\ nUp = "boot" /\ nAsked = {} /\ nCall = NIdle
    /\ nUp' = "up"
    /\ UNCHANGED <<nMay, nKern, nFile, nRouter, nDevices, nCall, nGhosts, nBounds>>

--------------------------------------------------------------------------------
NCallStep == AddAttempt \/ FinishAdd \/ FinishRemove
NQueueStep == \E e \in NExports : BeginAdd(e) \/ BeginRemove(e)

NNext ==
    \/ \E i \in NIndices :
          KernelTimeout(i) \/ KernelReleases(i) \/ ForeignConnects(i) \/ SessionEnds(i)
    \/ \E e \in NExports : PutExport(e) \/ DeleteExport(e)
    \/ NQueueStep \/ NCallStep \/ DropAdd
    \/ NDaemonEnds \/ NBoot \/ NBootDone

\* The mutex goes on to a waiting call, the steps of a call and the boot of
\* a daemon that ended follow (a supervisor restarts it), and the kernel
\* ends a teardown.
NFair ==
    /\ WF_nvars(NQueueStep \/ NCallStep)
    /\ WF_nvars(NBoot \/ NBootDone)
    /\ WF_nvars(\E i \in NIndices : KernelReleases(i))

NSpec == NInit /\ [][NNext]_nvars /\ NFair

--------------------------------------------------------------------------------
(* Properties.                                                             *)

\* A guest that still has its /dev/nbdN open never sees its export come
\* back under another index (add_device: "The device keeps the same
\* /dev/nbdN path and queued I/O resumes immediately"), and what it reads
\* there comes from a session of its own export, or of none.  Excluded are the
\* exports whose device the file no longer named: a boot with several exports
\* rewrites it after the first, a write of it may fail.
KeepsPath ==
    \A e \in NExports \ nLost :
       nGuest[e] # NoIndex =>
          /\ nDevices[e] \in {NoIndex, nGuest[e]}
          /\ nServes[nGuest[e]] = e

\* The device the manager lists for an export is served by a session of
\* that export, whatever died, was torn down or was taken by others before
\* (add_device, remove_device; nbd_devices.json).  Excluded is an export whose
\* session ended by itself and whose index the kernel then gave up.
OwnSession ==
    \A e \in NExports \ nLost : nDevices[e] # NoIndex => nServes[nDevices[e]] = e

\* remove_device disconnects no device but that of its export (with the same
\* exclusion).
RemovesOnlyItsOwn ==
    [][\A i \in NIndices :
          nCall.op = "idle" /\ nCall'.op = "removed" /\ nKernel'[i] # nKernel[i]
             => nServes[i] = nCall'.of \/ nCall'.of \in nLost]_nvars

\* A kernel device that a session of this daemon serves is one the manager
\* lists, or the one the running call is about to list or to close: nothing is
\* served that no DELETE can remove.  Excluded is a PUT whose client hangs up.
LiveIsKnown ==
    nUp # "down" /\ ~NMay("drop") => \A i \in NIndices :
              nKernel[i] = "live" /\ nServes[i] # "foreign" =>
                 \/ nDevices[nServes[i]] = i
                 \/ Adding(nServes[i], i)
                 \/ nCall.op = "removed" /\ nCall.index = i

\* Once the requests are done no device is left of an export the router no
\* longer has, however the PUT and the DELETE of a name overlapped
\* (register_device, remove_export).
NoDeviceWithoutExport ==
    nCall = NIdle /\ nAsked = {} /\ nLeaving = {} =>
       {e \in NExports : nDevices[e] # NoIndex} \subseteq nExports

\* The device of a guest whose daemon ended is served again by the next one
\* (hot reload through NBD_CMD_RECONFIGURE), when the kernel keeps it long
\* enough.  Excluded are the exports whose device the file no longer named
\* (above), and a session that ended by itself, which nothing restarts.
GuestsResumed ==
    ~NMay("session") =>
       \A e \in NExports \ nLost :
          nGuest[e] = NoIndex \/ nKernel[nGuest[e]] = "live"

\* The manager's map, nbd_devices.json, the router and the kernel agree about
\* which export has which device, through crashes, PUTs and DELETEs.
NbdMapsAgree == KeepsPath /\ OwnSession /\ LiveIsKnown /\ NoDeviceWithoutExport
================================================================================
