------------------------------- MODULE ZcWorker -------------------------------
(*****************************************************************************)
(* The zero-copy worker of ublk: one thread and one io_uring that serve the   *)
(* queues of many devices.  A slot of the worker carries a queue's commands   *)
(* and buffer indexes; it is handed to the next queue once nothing of the     *)
(* last tenant is in flight.  A request is answered inline or by a deferred   *)
(* job, which posts its action to the worker's inbox; reads and writes go     *)
(* from the guest's pages to the data file under the rotation gate, a read    *)
(* lock of the data file that travels with the request.                       *)
(*                                                                            *)
(* The kernel holds operations [slot, tag, kind, key]; `key` is a history     *)
(* variable there, as a completion names its slot and tag only.               *)
(*****************************************************************************)
EXTENDS Naturals, FiniteSets, Sequences, SequencesExt

CONSTANTS
    ZQueues,      \* bound: queues placed, numbered by next_key
    ZTags,        \* the tags of a queue
    ZSlots,       \* slots of the worker (ZC_MAX_QUEUES)
    ZRequests,    \* bound: requests of the guests
    ZRotations,   \* bound: rotations of the data file
    ZRetries,     \* MAX_BACKFILL_RETRIES
    ZNone,
    ZScenarios    \* the sets of occurrences a behaviour may draw from: the ops
                  \* "write", "read", "flush", "zeroes", "noop", and "error",
                  \* "panic", "evict", "chunks", "rotate", "second", "stop", "drop",
                  \* "shutdown", "no_ring", "short", "refused"

VARIABLES
    zMay,       \* the scenario of this behaviour
    zInbox,     \* messages Add, Remove, Submit, Shutdown
    zEfd,       \* the eventfd counter is not zero
    zWrites,    \* messages whose sender has still to write the eventfd
    zPc,        \* where Worker::run is
    zBatch,     \* the completions collected and not yet looked at
    zPoll,      \* the PollAdd on the eventfd
    zTo,        \* to_submit
    zQueue,     \* per slot: the tenant, or ZNone
    zFree,      \* Worker.free
    zDown,      \* Worker.shutdown
    zKernel,    \* operations in flight in the kernel
    zCq,        \* completions posted and not collected
    zHost,      \* per queue: the task that placed it
    zReserved,  \* Slot.queues of the pool
    zStopped,   \* queues whose device was stopped
    zReq,       \* per queue and tag: the request the kernel waits to see committed
    zJob,       \* per queue and tag: the deferred job
    gate,       \* the requests that hold the rotation gate
    rotator,    \* the flush that wants to rotate: "idle" or "queued"
    fileGen,    \* how often the data file was rotated
    wroteTo,    \* per queue and tag: the file its WRITE_FIXED goes to (history)
    damaged,    \* requests of which a chunk came short (history)
    zSkipped,   \* tags whose command the kernel refused (history)
    zLeft       \* [reqs, rots]: what may still happen

zWorkVars == <<zPc, zBatch, zTo, zQueue, zFree, zDown>>
zMsgVars == <<zInbox, zEfd, zWrites, zPoll>>
zKernVars == <<zKernel, zCq, zStopped, zReq>>
zGateVars == <<gate, rotator, fileGen, wroteTo>>
zHist == <<damaged, zSkipped>>
zVars == <<zMay, zWorkVars, zMsgVars, zKernVars, zGateVars, zHost, zReserved, zJob, zHist, zLeft>>

ZMay(e) == e \in zMay

ZKeys == 1..ZQueues

ZIds == ZKeys \X ZTags

SlotsWith(k) == {s \in DOMAIN zQueue : zQueue[s] # ZNone /\ zQueue[s].key = k}

IdleTag == [op |-> "none", out |-> 0, err |-> FALSE]

ZInit ==
  /\ zMay \in ZScenarios
  /\ zInbox = <<>> /\ zEfd = FALSE /\ zWrites = 0 /\ zPoll = "queued"
  /\ zPc = IF ZMay("no_ring") THEN "no_ring" ELSE "submit"
  /\ zBatch = {} /\ zTo = {} /\ zDown = FALSE
  /\ zQueue = [s \in 1..ZSlots |-> ZNone] /\ zFree = [i \in 1..ZSlots |-> i]
  /\ zKernel = {} /\ zCq = {} /\ zStopped = {}
  /\ zHost = [k \in ZKeys |-> "none"] /\ zReserved = 0
  /\ zReq = [i \in ZIds |-> "none"] /\ zJob = [i \in ZIds |-> [pc |-> "none"]]
  /\ gate = {} /\ rotator = "idle" /\ fileGen = 0 /\ wroteTo = [i \in ZIds |-> ZNone]
  /\ damaged = {} /\ zSkipped = {} /\ zLeft = [reqs |-> ZRequests, rots |-> ZRotations]

\* ZcWorkerHandle::send: the message, and then, as a step of its own, the eventfd.
\* Once the worker is gone the message is dropped.
Post(m) ==
  IF zPc = "exit" THEN UNCHANGED <<zInbox, zWrites>>
  ELSE zInbox' = Append(zInbox, m) /\ zWrites' = zWrites + 1

WriteWakeFd ==
  /\ zWrites > 0
  /\ zWrites' = zWrites - 1
  /\ zEfd' = TRUE
  /\ zPoll' = IF zPoll = "armed" THEN "cqe" ELSE zPoll
  /\ UNCHANGED <<zMay, zInbox, zWorkVars, zKernVars, zGateVars, zHost, zReserved, zJob, zHist, zLeft>>

(*****************************************************************************)
(* The pool and the task that hosts a queue                                   *)
(*****************************************************************************)
\* ZcPool::add_queue: a slot is reserved before the worker hears of the queue.
PlaceQueue(k) ==
  /\ zHost[k] = "none" /\ zPc # "exit"
  /\ k > 1 => (ZMay("second") /\ zHost[k - 1] # "none")
  /\ IF zReserved >= ZSlots
       THEN zHost' = [zHost EXCEPT ![k] = "refused"] /\ UNCHANGED <<zReserved, zInbox, zWrites>>
       ELSE /\ zReserved' = zReserved + 1
            /\ zHost' = [zHost EXCEPT ![k] = "placed"]
            /\ Post([msg |-> "add", key |-> k])
  /\ UNCHANGED <<zMay, zEfd, zPoll, zWorkVars, zKernVars, zGateVars, zJob, zHist, zLeft>>

\* RemoveOnDrop: the task ends, after `done` or because its executor is dropped.
HostEnds(k) ==
  /\ \/ zHost[k] \in {"done", "failed"}
     \/ ZMay("drop") /\ zHost[k] \in {"placed", "ready"}
  /\ zHost' = [zHost EXCEPT ![k] = "gone"]
  /\ Post([msg |-> "remove", key |-> k])
  /\ UNCHANGED <<zMay, zEfd, zPoll, zWorkVars, zKernVars, zGateVars, zReserved, zJob, zHist, zLeft>>

PoolShutsDown ==
  /\ ZMay("shutdown") /\ ~\E i \in DOMAIN zInbox : zInbox[i].msg = "shutdown"
  /\ ~zDown /\ zPc # "exit"
  /\ Post([msg |-> "shutdown"])
  /\ UNCHANGED <<zMay, zEfd, zPoll, zWorkVars, zKernVars, zGateVars, zHost, zReserved, zJob, zHist, zLeft>>

(*****************************************************************************)
(* The kernel                                                                 *)
(*****************************************************************************)
ZOps == {"write", "read", "flush", "zeroes", "noop"} \cap zMay

IsCommand(x) == x.kind = "command"

\* A request completes the armed command of its tag.
ZGuestRequest(x, op) ==
  /\ x \in zKernel /\ IsCommand(x) /\ zLeft.reqs > 0 /\ x.key \notin zStopped
  /\ zHost[x.key] = "ready"
  /\ zReq' = [zReq EXCEPT ![<<x.key, x.tag>>] = op]
  /\ zKernel' = zKernel \ {x}
  /\ zCq' = zCq \cup {[at |-> x, res |-> "request"]}
  /\ zLeft' = [zLeft EXCEPT !.reqs = @ - 1]
  /\ UNCHANGED <<zMay, zWorkVars, zMsgVars, zGateVars, zStopped, zHost, zReserved, zJob, zHist>>

\* A READ_FIXED or WRITE_FIXED of one chunk ends: in full, with an error, or short.
ChunkEnds(x, res) ==
  /\ x \in zKernel /\ ~IsCommand(x)
  /\ \/ res = "ok"
     \/ res = "error" /\ ZMay("error")
     \/ res = "short" /\ ZMay("short")
  /\ zKernel' = zKernel \ {x}
  /\ zCq' = zCq \cup {[at |-> x, res |-> res]}
  /\ damaged' = IF res = "ok" THEN damaged ELSE damaged \cup {<<x.key, x.tag>>}
  /\ UNCHANGED <<zMay, zWorkVars, zMsgVars, zGateVars, zStopped, zReq, zHost, zReserved, zJob,
                 zSkipped, zLeft>>

\* STOP_DEV: once no request is outstanding, every armed command is aborted.
ZStopDevice(k) ==
  /\ ZMay("stop") \/ zHost[k] = "gone"
  /\ k \notin zStopped /\ SlotsWith(k) # {}
  /\ \A t \in ZTags : zReq[<<k, t>>] = "none"
  /\ zStopped' = zStopped \cup {k}
  /\ LET armed == {x \in zKernel : IsCommand(x) /\ x.key = k} IN
       /\ zKernel' = zKernel \ armed
       /\ zCq' = zCq \cup {[at |-> x, res |-> "abort"] : x \in armed}
  /\ UNCHANGED <<zMay, zWorkVars, zMsgVars, zGateVars, zReq, zHost, zReserved, zJob, zHist, zLeft>>

(*****************************************************************************)
(* The rotation gate                                                          *)
(*****************************************************************************)
\* data_file is a fair lock: a queued writer turns away every new reader.
GateOpen == rotator = "idle"

FlushWantsFile ==
  /\ ZMay("rotate") /\ rotator = "idle" /\ zLeft.rots > 0
  /\ rotator' = "queued"
  /\ zLeft' = [zLeft EXCEPT !.rots = @ - 1]
  /\ UNCHANGED <<zMay, zWorkVars, zMsgVars, zKernVars, gate, fileGen, wroteTo, zHost, zReserved, zJob, zHist>>

\* Mutant of Rotate: the writer takes the file while zero-copy requests hold it.
RotateUnderReaders ==
  /\ rotator = "queued"
  /\ rotator' = "idle" /\ fileGen' = fileGen + 1
  /\ UNCHANGED <<zMay, zWorkVars, zMsgVars, zKernVars, gate, wroteTo, zHost, zReserved, zJob, zHist, zLeft>>

Rotate ==
  /\ rotator = "queued" /\ gate = {}
  /\ rotator' = "idle" /\ fileGen' = fileGen + 1
  /\ UNCHANGED <<zMay, zWorkVars, zMsgVars, zKernVars, gate, wroteTo, zHost, zReserved, zJob, zHist, zLeft>>

(*****************************************************************************)
(* The worker                                                                 *)
(*****************************************************************************)
\* A worker's state, threaded through the calls of one completion or message.
WorkerNow == [queue |-> zQueue, to |-> zTo, gate |-> gate, wrote |-> wroteTo]

Become(w) ==
  zQueue' = w.queue /\ zTo' = w.to /\ gate' = w.gate /\ wroteTo' = w.wrote

\* The gate is taken, and the file named that the request will use.
WithGate(w, id) == [w EXCEPT !.gate = @ \cup {id}, !.wrote[id] = fileGen]

\* Worker::finalize: after_read or after_write, the gate dropped, the COMMIT built.
\* `marked` says whether commit_after_zc_write_with succeeds.
Finalize(w, s, t, marked) ==
  LET q == w.queue[s]
      f == q.inf[t]
      ok == ~f.err /\ (f.op = "write" => (marked /\ <<q.key, t>> \in w.gate))
      taken == [w EXCEPT !.queue[s].inf[t] = IdleTag, !.gate = @ \ {<<q.key, t>>}]
  IN IF q.closing THEN taken
     ELSE [taken EXCEPT !.queue[s].pending = @ + 1,
                        !.to = @ \cup {[slot |-> s, tag |-> t, kind |-> "command", n |-> 0,
                                        key |-> q.key, res |-> IF ok THEN "ok" ELSE "eio"]}]

\* Worker::apply_action; a refused action drops its keepalive.
ApplyAction(w, s, t, act, marked) ==
  LET id == <<w.queue[s].key, t>> IN
  IF w.queue[s].closing THEN [w EXCEPT !.gate = @ \ {id}]
  ELSE IF act.do = "complete"
       THEN Finalize([w EXCEPT !.queue[s].inf[t].err = @ \/ (act.res = "eio"), !.queue[s].inf[t].out = 0],
                     s, t, marked)
       ELSE [w EXCEPT !.queue[s].inf[t].out = act.n,
                      !.queue[s].pending = @ + act.n,
                      !.to = @ \cup {[slot |-> s, tag |-> t, kind |-> "chunk", n |-> c,
                                      key |-> id[1], res |-> w.queue[s].inf[t].op] : c \in 1..act.n}]

Complete(res) == [do |-> "complete", res |-> res]

Chunks(n) == [do |-> "chunks", n |-> n]

ChunkCounts == IF ZMay("chunks") THEN {1, 2} ELSE {1}

Defer == [do |-> "defer"]

\* GlidefsZcTarget::dispatch: what it may return.  The inline write needs the gate,
\* present blocks and a promotion; the inline read needs the gate and dirty blocks.
\* Mutant of Dispatch: FLUSH runs on the worker and parks on the file lock there.
DispatchFlushHere(op) ==
  CASE op = "noop" -> {Complete("ok")}
    [] op = "flush" -> IF GateOpen THEN {Complete("ok")} ELSE {}
    [] op = "zeroes" -> {Defer}
    [] OTHER -> {Defer} \cup (IF GateOpen THEN {Chunks(n) : n \in ChunkCounts} ELSE {})

Dispatch(op) ==
  CASE op = "noop" -> {Complete("ok")}
    [] op \in {"flush", "zeroes"} -> {Defer}
    [] OTHER -> {Defer} \cup (IF GateOpen THEN {Chunks(n) : n \in ChunkCounts} ELSE {})
                  \cup (IF GateOpen /\ op = "write" /\ ZMay("error") THEN {Complete("eio")} ELSE {})

FirstStep(op) == CASE op = "write" -> "pre" [] op = "read" -> "hot" [] OTHER -> "run"

\* Worker::run up to submit_and_wait.  A COMMIT hands the request back and arms its
\* tag.  The kernel may refuse a command for a while (EAGAIN, EINTR, EINVAL before
\* START_DEV): nothing is handed back and the tag is not armed.
ZSubmit(refused) ==
  /\ zPc = "submit"
  /\ refused # {} => ZMay("refused")
  /\ LET commands == {x \in zTo : IsCommand(x)} \ refused
         late == {x \in commands : x.key \in zStopped}
     IN /\ zReq' = [i \in ZIds |-> IF \E x \in commands : <<x.key, x.tag>> = i THEN "none" ELSE zReq[i]]
        /\ zKernel' = zKernel \cup (zTo \ (late \cup refused))
        /\ zCq' = zCq \cup {[at |-> x, res |-> "abort"] : x \in late}
                      \cup {[at |-> x, res |-> "refused"] : x \in refused}
  /\ zSkipped' = zSkipped \cup {<<x.key, x.tag>> : x \in refused}
  /\ zTo' = {} /\ zPc' = "wait"
  /\ zPoll' = IF zPoll # "queued" THEN zPoll ELSE IF zEfd THEN "cqe" ELSE "armed"
  /\ UNCHANGED <<zMay, zBatch, zQueue, zFree, zDown, zInbox, zEfd, zWrites, zStopped, zGateVars,
                 zHost, zReserved, zJob, damaged, zLeft>>

Wake == [at |-> ZNone]

\* submit_and_wait returns and the completions are collected.
Collect ==
  /\ zPc = "wait" /\ (zCq # {} \/ zPoll = "cqe")
  /\ zBatch' = zCq \cup (IF zPoll = "cqe" THEN {Wake} ELSE {})
  /\ zCq' = {} /\ zPc' = "cqe"
  /\ zPoll' = IF zPoll = "cqe" THEN "none" ELSE zPoll
  /\ UNCHANGED <<zMay, zTo, zQueue, zFree, zDown, zInbox, zEfd, zWrites, zKernel, zStopped, zReq,
                 zGateVars, zHost, zReserved, zJob, zHist, zLeft>>

\* on_cqe of the eventfd: the counter is read to zero before the inbox is drained.
OnWake ==
  /\ zPc = "cqe" /\ Wake \in zBatch
  /\ zBatch' = zBatch \ {Wake}
  /\ zEfd' = FALSE /\ zPc' = "inbox"
  /\ UNCHANGED <<zMay, zTo, zQueue, zFree, zDown, zInbox, zWrites, zPoll, zKernVars, zGateVars,
                 zHost, zReserved, zJob, zHist, zLeft>>

Reaped(c) == [zQueue EXCEPT ![c.at.slot].pending = IF @ = 0 THEN 0 ELSE @ - 1]

\* first_error is kept once it is set; only a negative result sets it.
Failed(inf, res) == inf.err \/ res = "error"

\* on_cqe of a data chunk.
OnChunk(c, marked) ==
  /\ zPc = "cqe" /\ c \in zBatch \ {Wake} /\ ~IsCommand(c.at)
  /\ zBatch' = zBatch \ {c}
  /\ LET s == c.at.slot
         t == c.at.tag
         q == [Reaped(c) EXCEPT ![s].inf[t].err = Failed(zQueue[s].inf[t], c.res), ![s].inf[t].out = @ - 1]
         w == [WorkerNow EXCEPT !.queue = q]
     IN IF zQueue[s] = ZNone THEN Become(WorkerNow)
        ELSE Become(IF q[s].inf[t].out = 0 THEN Finalize(w, s, t, marked) ELSE w)
  /\ UNCHANGED <<zMay, zPc, zFree, zDown, zMsgVars, zKernVars, rotator, fileGen, zHost, zReserved,
                 zJob, zHist, zLeft>>

\* on_cqe of a command that the kernel took back.
OnAbort(c) ==
  /\ zPc = "cqe" /\ c \in zBatch \ {Wake} /\ IsCommand(c.at) /\ c.res = "abort"
  /\ zBatch' = zBatch \ {c}
  /\ zQueue' = IF zQueue[c.at.slot] = ZNone THEN zQueue
               ELSE [Reaped(c) EXCEPT ![c.at.slot].aborted = @ + 1]
  /\ UNCHANGED <<zMay, zPc, zTo, zFree, zDown, zMsgVars, zKernVars, zGateVars, zHost, zReserved,
                 zJob, zHist, zLeft>>

\* on_cqe of a command that the kernel refused: it is skipped, neither armed again
\* nor counted among the aborted.
OnRefused(c) ==
  /\ zPc = "cqe" /\ c \in zBatch \ {Wake} /\ IsCommand(c.at) /\ c.res = "refused"
  /\ zBatch' = zBatch \ {c}
  /\ zQueue' = IF zQueue[c.at.slot] = ZNone THEN zQueue ELSE Reaped(c)
  /\ UNCHANGED <<zMay, zPc, zTo, zFree, zDown, zMsgVars, zKernVars, zGateVars, zHost, zReserved,
                 zJob, zHist, zLeft>>

\* on_cqe of a command that brings a request.
OnRequest(c, act, marked) ==
  /\ zPc = "cqe" /\ c \in zBatch \ {Wake} /\ IsCommand(c.at) /\ c.res = "request"
  /\ zBatch' = zBatch \ {c}
  /\ LET s == c.at.slot
         t == c.at.tag
         id == <<zQueue[s].key, t>>
         op == zReq[id]
         got == [Reaped(c) EXCEPT ![s].inf[t] = [IdleTag EXCEPT !.op = op]]
         w == IF act.do = "chunks" THEN WithGate([WorkerNow EXCEPT !.queue = got], id)
              ELSE [WorkerNow EXCEPT !.queue = got]
     IN IF zQueue[s] = ZNone
          THEN act = Defer /\ UNCHANGED <<zJob, damaged>> /\ Become(WorkerNow)
        ELSE IF zQueue[s].closing
          THEN /\ act = Defer /\ UNCHANGED <<zJob, damaged>>
               /\ Become([WorkerNow EXCEPT !.queue = Reaped(c)])
          ELSE /\ act \in Dispatch(op)
               /\ damaged' = damaged \ {id}
               /\ IF act = Defer
                    THEN /\ Become(w)
                         /\ zJob' = [zJob EXCEPT ![id] = [pc |-> FirstStep(op), tries |-> ZRetries]]
                    ELSE Become(ApplyAction(w, s, t, act, marked)) /\ UNCHANGED zJob
  /\ UNCHANGED <<zMay, zPc, zFree, zDown, zMsgVars, zKernVars, rotator, fileGen, zHost, zReserved,
                 zSkipped, zLeft>>

(*****************************************************************************)
(* The inbox                                                                  *)
(*****************************************************************************)
Taking(m) == zPc = "inbox" /\ zInbox # <<>> /\ Head(zInbox).msg = m /\ zInbox' = Tail(zInbox)

Placed(k) == [key |-> k, pending |-> Cardinality(ZTags), aborted |-> 0, closing |-> FALSE,
              inf |-> [t \in ZTags |-> IdleTag]]

Told(k, what) == IF zHost[k] = "gone" THEN zHost ELSE [zHost EXCEPT ![k] = what]

\* try_add_queue; the mmap or the file registration may fail.
TakeAdd(fits) ==
  /\ Taking("add")
  /\ LET k == Head(zInbox).key
         s == Last(zFree)
         ok == fits /\ zFree # <<>> /\ SlotsWith(k) = {}
     IN IF ok
          THEN /\ zFree' = Front(zFree)
               /\ zQueue' = [zQueue EXCEPT ![s] = Placed(k)]
               /\ zTo' = zTo \cup {[slot |-> s, tag |-> t, kind |-> "command", n |-> 0,
                                    key |-> k, res |-> "fetch"] : t \in ZTags}
               /\ zHost' = Told(k, "ready") /\ UNCHANGED zReserved
          ELSE /\ fits \/ ZMay("error")
               /\ zHost' = Told(k, "failed") /\ zReserved' = zReserved - 1
               /\ UNCHANGED <<zFree, zQueue, zTo>>
  /\ UNCHANGED <<zMay, zPc, zBatch, zDown, zEfd, zWrites, zPoll, zKernVars, zGateVars, zJob, zHist, zLeft>>

TakeRemove ==
  /\ Taking("remove")
  /\ LET s == SlotsWith(Head(zInbox).key) IN
       zQueue' = [i \in DOMAIN zQueue |-> IF i \in s THEN [zQueue[i] EXCEPT !.closing = TRUE] ELSE zQueue[i]]
  /\ UNCHANGED <<zMay, zPc, zBatch, zTo, zFree, zDown, zEfd, zWrites, zPoll, zKernVars, zGateVars, zHost,
                 zReserved, zJob, zHist, zLeft>>

\* A Submit for a queue that is gone is dropped, and its gate with it.
TakeSubmit(marked) ==
  /\ Taking("submit")
  /\ LET m == Head(zInbox)
         dropped == [WorkerNow EXCEPT !.gate = @ \ {<<m.key, m.tag>>}]
     IN IF SlotsWith(m.key) = {} THEN Become(dropped)
        ELSE Become(ApplyAction(WorkerNow, CHOOSE s \in SlotsWith(m.key) : TRUE, m.tag, m.act, marked))
  /\ UNCHANGED <<zMay, zPc, zBatch, zFree, zDown, zEfd, zWrites, zPoll, zKernVars, rotator, fileGen, zHost,
                 zReserved, zJob, zHist, zLeft>>

TakeShutdown ==
  /\ Taking("shutdown")
  /\ zDown' = TRUE
  /\ UNCHANGED <<zMay, zPc, zBatch, zTo, zQueue, zFree, zEfd, zWrites, zPoll, zKernVars, zGateVars, zHost,
                 zReserved, zJob, zHist, zLeft>>

\* The inbox is empty: the eventfd is polled again.
InboxDone ==
  /\ zPc = "inbox" /\ zInbox = <<>>
  /\ zPc' = "cqe" /\ zPoll' = "queued"
  /\ UNCHANGED <<zMay, zBatch, zTo, zQueue, zFree, zDown, zInbox, zEfd, zWrites, zKernVars, zGateVars,
                 zHost, zReserved, zJob, zHist, zLeft>>

\* Mutant of Retirable: an aborted or closing queue gives up its slot at once.
RetirableEarly(q) == q.closing \/ q.aborted >= Cardinality(ZTags)

Retirable(q) == q.pending = 0 /\ (q.closing \/ q.aborted >= Cardinality(ZTags))

\* The end of a turn of Worker::run: retire, and then the next turn or teardown.
TurnEnds ==
  /\ zPc = "cqe" /\ zBatch = {}
  /\ LET out == {s \in DOMAIN zQueue : zQueue[s] # ZNone /\ Retirable(zQueue[s])}
         left == IF zDown THEN {s \in DOMAIN zQueue : zQueue[s] # ZNone} ELSE out
         keys == {zQueue[s].key : s \in left}
     IN /\ zQueue' = [s \in DOMAIN zQueue |-> IF s \in left THEN ZNone ELSE zQueue[s]]
        /\ zFree' = zFree \o SetToSeq(out)
        /\ zReserved' = zReserved - Cardinality(left)
        /\ zHost' = [k \in ZKeys |->
             IF k \in keys /\ zHost[k] # "gone" THEN "done"
             ELSE IF zDown /\ zHost[k] = "placed" THEN "failed" ELSE zHost[k]]
        /\ gate' = IF zDown THEN {} ELSE gate
  /\ zPc' = IF zDown THEN "exit" ELSE "submit"
  /\ IF zDown
       THEN zInbox' = <<>> /\ zTo' = {} /\ zCq' = {} /\ zKernel' = {x \in zKernel : ~IsCommand(x)}
       ELSE UNCHANGED <<zInbox, zTo, zCq, zKernel>>
  /\ UNCHANGED <<zMay, zBatch, zDown, zEfd, zWrites, zPoll, zStopped, zReq, rotator, fileGen, wroteTo,
                 zJob, zHist, zLeft>>

\* run_zc_worker without a ring: every Add is refused until the shutdown.
TakeRingless ==
  /\ zPc = "no_ring" /\ zInbox # <<>>
  /\ LET m == Head(zInbox)
         over == m.msg = "shutdown"
     IN
       /\ zInbox' = IF over THEN <<>> ELSE Tail(zInbox)
       /\ zPc' = IF over THEN "exit" ELSE zPc
       /\ zHost' = IF m.msg = "add" THEN Told(m.key, "failed")
                   ELSE IF over THEN [k \in ZKeys |-> IF zHost[k] = "placed" THEN "failed" ELSE zHost[k]]
                   ELSE zHost
       /\ zReserved' = IF m.msg = "add" THEN zReserved - 1 ELSE zReserved
  /\ UNCHANGED <<zMay, zBatch, zTo, zQueue, zFree, zDown, zEfd, zWrites, zPoll, zKernVars, zGateVars,
                 zJob, zHist, zLeft>>

(*****************************************************************************)
(* The deferred jobs                                                          *)
(*****************************************************************************)
jobFrame == <<zMay, zWorkVars, zEfd, zPoll, zKernVars, rotator, fileGen, zHost, zReserved, zHist, zLeft>>

\* SubmitGuard::commit.
JobPosts(i, act) ==
  /\ zJob' = [zJob EXCEPT ![i] = [pc |-> "none"]]
  /\ Post([msg |-> "submit", key |-> i[1], tag |-> i[2], act |-> act])

\* The keepalive travels with the message.
JobPostsWithGate(i, act) ==
  /\ JobPosts(i, act)
  /\ gate' = IF zPc = "exit" THEN gate ELSE gate \cup {i}
  /\ wroteTo' = [wroteTo EXCEPT ![i] = fileGen]

JobAt(i, pc) == zJob[i].pc = pc

\* flush and write_zeroes take the file lock for a moment.
JobRuns(i) ==
  /\ JobAt(i, "run") /\ GateOpen
  /\ \E r \in {"ok"} \cup (IF ZMay("error") THEN {"eio"} ELSE {}) : JobPosts(i, Complete(r))
  /\ UNCHANGED <<jobFrame, gate, wroteTo>>

\* BlockHandler::pre_write, without the gate.
JobPreWrite(i) ==
  /\ JobAt(i, "pre")
  /\ \/ zJob' = [zJob EXCEPT ![i].pc = "gate"] /\ UNCHANGED <<zInbox, zWrites>>
     \/ ZMay("error") /\ JobPosts(i, Complete("eio"))
  /\ UNCHANGED <<jobFrame, gate, wroteTo>>

\* zc_prepare_write under the gate: promoted, evicted since pre_write, or failed.
JobPromotes(i) ==
  /\ JobAt(i, "gate") /\ GateOpen
  /\ \/ JobPostsWithGate(i, Chunks(1))
     \/ /\ ZMay("evict")
        /\ IF zJob[i].tries = 1 THEN JobPosts(i, Complete("eio"))
           ELSE /\ zJob' = [zJob EXCEPT ![i] = [pc |-> "pre", tries |-> zJob[i].tries - 1]]
                /\ UNCHANGED <<zInbox, zWrites>>
        /\ UNCHANGED <<gate, wroteTo>>
     \/ ZMay("error") /\ JobPosts(i, Complete("eio")) /\ UNCHANGED <<gate, wroteTo>>
  /\ UNCHANGED jobFrame

\* The deferred read: the hot path again, then resolve_read with no gate held.
JobReadsHot(i) ==
  /\ JobAt(i, "hot") /\ GateOpen
  /\ \/ \E n \in ChunkCounts : JobPostsWithGate(i, Chunks(n))
     \/ /\ zJob' = [zJob EXCEPT ![i].pc = "resolve"]
        /\ UNCHANGED <<zInbox, zWrites, gate, wroteTo>>
  /\ UNCHANGED jobFrame

JobResolves(i) ==
  /\ JobAt(i, "resolve")
  /\ \/ zJob' = [zJob EXCEPT ![i].pc = "plan"] /\ UNCHANGED <<zInbox, zWrites>>
     \/ ZMay("error") /\ JobPosts(i, Complete("eio"))
  /\ UNCHANGED <<jobFrame, gate, wroteTo>>

\* build_read_chunks_in_file, under a gate taken for it; the copy to the scratch file
\* may fail.
JobPlans(i) ==
  /\ JobAt(i, "plan") /\ GateOpen
  /\ \/ \E n \in ChunkCounts : JobPostsWithGate(i, Chunks(n))
     \/ ZMay("error") /\ JobPostsWithGate(i, Complete("eio"))
  /\ UNCHANGED jobFrame

\* SubmitGuard::drop: a job that dies answers with an error.
JobPanics(i) ==
  /\ ZMay("panic") /\ zJob[i].pc # "none"
  /\ JobPosts(i, Complete("eio"))
  /\ UNCHANGED <<jobFrame, gate, wroteTo>>

JobSteps(i) ==
  \/ JobRuns(i) \/ JobPreWrite(i) \/ JobPromotes(i)
  \/ JobReadsHot(i) \/ JobResolves(i) \/ JobPlans(i)

Actions == {Defer, Complete("ok"), Complete("eio")} \cup {Chunks(n) : n \in ChunkCounts}

Marks == IF ZMay("error") THEN BOOLEAN ELSE {TRUE}

WorkerSteps ==
  \/ \E refused \in SUBSET {x \in zTo : IsCommand(x)} : ZSubmit(refused)
  \/ Collect \/ OnWake \/ InboxDone \/ TurnEnds \/ TakeRingless
  \/ \E c \in zBatch \ {Wake} :
       \/ OnAbort(c) \/ OnRefused(c)
       \/ \E m \in Marks : OnChunk(c, m)
       \/ \E m \in Marks, act \in Actions : OnRequest(c, act, m)
  \/ \E f \in BOOLEAN : TakeAdd(f)
  \/ TakeRemove \/ TakeShutdown
  \/ \E m \in Marks : TakeSubmit(m)

ZNext ==
  \/ WorkerSteps
  \/ WriteWakeFd
  \/ \E k \in ZKeys : PlaceQueue(k) \/ HostEnds(k) \/ ZStopDevice(k)
  \/ PoolShutsDown
  \/ \E x \in zKernel : \/ \E op \in ZOps : ZGuestRequest(x, op)
                        \/ \E r \in {"ok", "error", "short"} : ChunkEnds(x, r)
  \/ FlushWantsFile \/ Rotate
  \/ \E i \in ZIds : JobSteps(i) \/ JobPanics(i)

\* The worker thread, the senders, the kernel's transfers, the queued writer, the
\* jobs (each on its own thread) and a task that was told to end all take their steps.
ZFairness ==
  /\ WF_zVars(WorkerSteps)
  /\ WF_zVars(WriteWakeFd)
  /\ WF_zVars(\E x \in zKernel : ChunkEnds(x, "ok"))
  /\ WF_zVars(Rotate)
  /\ WF_zVars(\E i \in ZIds : JobSteps(i))
  /\ WF_zVars(\E k \in ZKeys : zHost[k] \in {"done", "failed"} /\ HostEnds(k))

ZSpec == ZInit /\ [][ZNext]_zVars /\ ZFairness

(*****************************************************************************)
(* Properties                                                                 *)
(*****************************************************************************)
Alive == zPc # "exit"

\* A completion names a slot and a tag only, so the slot may not change hands while
\* anything of its tenant is in flight: whatever the kernel or the batch holds finds
\* the queue that submitted it (Queue::retirable, Queue.pending).
RoutedHome ==
  Alive => \A x \in zKernel \cup zTo \cup {c.at : c \in zCq \cup (zBatch \ {Wake})} :
             zQueue[x.slot] # ZNone /\ zQueue[x.slot].key = x.key

\* The file that a WRITE_FIXED was pointed at is still the active data file when the
\* write lands and when commit_after_zc_write_with marks its blocks: the gate is held
\* from the moment the fd was taken until the COMMIT is built.
CommitsWhereWritten ==
  Alive => \A s \in DOMAIN zQueue : zQueue[s] # ZNone =>
             \A t \in ZTags : zQueue[s].inf[t].out > 0 =>
               wroteTo[<<zQueue[s].key, t>>] = fileGen

\* The pool reserves a slot before it sends the queue and gives it back after the
\* slot is free, so an Add never meets a full worker (ZcPool::reserve, `done`).
ReservationCovers ==
  Alive => Cardinality({i \in DOMAIN zInbox : zInbox[i].msg = "add"}) <= Len(zFree)

\* A request of which a chunk failed or came short is never committed with its full
\* length (InFlight.first_error).
NoFalseSuccess ==
  \A x \in zTo : (IsCommand(x) /\ x.res = "ok") => <<x.key, x.tag>> \notin damaged

\* The requests that wait to be committed, of queues that stay hosted: whatever
\* their path, a FLUSH behind a queued rotation behind a zero-copy write included,
\* and a job that panics included.  Excluded is a request whose COMMIT the kernel
\* refused, which on_cqe skips.
Unanswered ==
  {i \in ZIds \ zSkipped : zReq[i] # "none" /\ Alive /\ ~zDown
                            /\ \E s \in SlotsWith(i[1]) : ~zQueue[s].closing}

\* The stopped or removed queues that have not left their slot.  Excluded is a queue
\* with a refused command until its task is dropped: its aborts stay one short.
Retiring ==
  {k \in zStopped : \E s \in SlotsWith(k) :
                      zQueue[s].closing \/ \A t \in ZTags : <<k, t>> \notin zSkipped}

\* A zero-copy write that is reported done is all in the file its blocks are
\* then marked for.
WritesAreHonest == CommitsWhereWritten /\ NoFalseSuccess

\* A slot of a worker belongs to one queue from its reservation until the last
\* completion for it: none is handed out early, none is missing.
SlotsHeld == RoutedHome /\ ReservationCovers

\* Workers, the rotating flush and stopping queues wait for each other in no
\* circle: the gates a rotation waits for are dropped by a worker that never waits
\* for the file itself, so from any state they come to one in which every request is
\* answered, the file has rotated and every stopped queue has retired.
ZcProgress == []<>(Unanswered = {} /\ rotator = "idle" /\ Retiring = {})
=============================================================================
