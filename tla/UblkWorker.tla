------------------------------ MODULE UblkWorker ------------------------------
(*****************************************************************************)
(* One ublk worker thread: its inbox, its io_uring, the eventfd that wakes    *)
(* it, the executor with a bit mask of woken slots, the bounce-buffer pool,   *)
(* and one task per tag of the queues it hosts.  Around it: the callers that  *)
(* register and unregister devices, the handlers that finish on other         *)
(* threads, and the kernel, which hands out requests and aborts them when a   *)
(* device is stopped.                                                         *)
(*                                                                            *)
(* A poll of a task is a run of steps of the worker, from the moment `wkCur`  *)
(* is set until the task waits or ends; nobody else steps in between.  What   *)
(* the others do meanwhile (post a completion, set a bit, publish a result)   *)
(* commutes with those steps.                                                 *)
(*****************************************************************************)
EXTENDS Naturals, FiniteSets, Sequences, SequencesExt, FiniteSetsExt

CONSTANTS
    WkDevs,
    WkQueues,      \* the number of queues of each device
    WkDepth,       \* QUEUE_DEPTH
    WordBits, WkWords,   \* the bit mask: WkWords words of WordBits slots
    PoolSlots,     \* POOL_SLOTS, when buffers are "scarce"
    InboxCap,      \* capacity of a worker's inbox
    MaxIos, FewIos,   \* bounds: requests of the guests, more when buffers are "scarce"
    MaxLate,       \* bound: late wakes
    WkNone,
    WkScenarios    \* the sets of occurrences a behaviour may draw from: "second"
                   \* (device, at once), "reuse" (a second one after the first), "late" (wakes), "panic", "oom", "shutdown",
                   \* "no_ring", "cold", "full" (inbox), "scarce" (buffers)

VARIABLES
    wkMay,       \* the scenario of this behaviour
    wkInbox,     \* the mpsc channel of WorkerMsg
    efd,         \* the eventfd counter is not zero
    bits,        \* WakeupBits: the slots whose bit is set
    wkPc,        \* where run_worker_loop is
    justAdded,   \* just_added_queue
    pass,        \* the tick in progress: [pre, word, batch, freed, taken], with the
                 \* history of the slots whose write to the eventfd the daemon took
    wkCur,       \* the slot whose task is being polled, or WkNone
    slab,        \* the tasks by slot; slot 1 is the eventfd daemon
    freeList,
    pollAdd,     \* the daemon's PollAdd on the eventfd
    stage,       \* per task: where its async fn is
    cmd,         \* per task: its FETCH or COMMIT_AND_FETCH command
    request,     \* per task: the guest's request the kernel waits to see committed
    work,        \* per task: the handler call
    late,        \* per slot: wakes that other threads have still to make
    writes,      \* how many wakes have set a bit and have still to write the eventfd
    pool,        \* the buffer pool: [up, free, waiters, astray], with the history of
                 \* a wake spent on a task that no longer waited, while others did
    hosted, removes,   \* WorkerState.hosted and .pending_removes
    reg, unreg,  \* per device: register_inner and unregister
    ready, ack,  \* per queue: the oneshot channels of AddQueue and RemoveQueue
    kdev,        \* per device: the kernel's state of it
    down,        \* the caller of shutdown
    ios          \* what may still occur: [asks (requests of the guests), late (wakes)]

wakeVars == <<efd, bits, pollAdd, writes>>
loopVars == <<wkPc, justAdded, pass, wkCur>>
execVars == <<slab, freeList>>
ioVars == <<stage, cmd, request, work, ios>>
callVars == <<reg, unreg, ready, ack, kdev, down>>
wkVars == <<wkMay, wkInbox, wakeVars, loopVars, execVars, ioVars, late, pool, hosted, removes, callVars>>

WkMay(e) == e \in wkMay

QueuesOf(d) == {<<d, k>> : k \in 1..WkQueues[d]}

AllQueues == UNION {QueuesOf(d) : d \in WkDevs}

TasksOf(q) == {<<q[1], q[2], t>> : t \in 1..WkDepth}

Tasks == UNION {TasksOf(q) : q \in AllQueues}

QueueOf(t) == <<t[1], t[2]>>

Capacity == WordBits * WkWords

WordOf(i) == (i - 1) \div WordBits

PoolSize == IF WkMay("scarce") THEN PoolSlots ELSE Cardinality(Tasks)

Daemon == <<"daemon">>

Hole == <<>>

SlotOf(t) == CHOOSE i \in DOMAIN slab : slab[i] = t

Live(t) == \E i \in DOMAIN slab : slab[i] = t

\* Nobody looks at the worker's state in the middle of a poll.
Between == wkCur = WkNone

WkInit ==
  /\ wkMay \in WkScenarios
  /\ wkInbox = <<>> /\ efd = FALSE /\ bits = {1} /\ writes = 0 /\ pollAdd = "none"
  /\ wkPc = IF WkMay("no_ring") THEN "no_ring" ELSE "inbox"
  /\ justAdded = FALSE /\ wkCur = WkNone
  /\ pass = [pre |-> FALSE, word |-> 0, batch |-> {}, freed |-> <<>>, taken |-> {}]
  /\ slab = <<Daemon>> /\ freeList = <<>>
  /\ stage = [t \in Tasks |-> "none"] /\ cmd = stage /\ request = stage /\ work = stage
  /\ late = [i \in 1..Capacity |-> 0]
  /\ pool = [up |-> FALSE, free |-> PoolSize, waiters |-> <<>>, astray |-> FALSE]
  /\ hosted = {} /\ removes = {}
  /\ reg = [d \in WkDevs |-> [pc |-> "idle", k |-> 1]] /\ unreg = reg
  /\ ready = [q \in AllQueues |-> "none"] /\ ack = ready
  /\ kdev = [d \in WkDevs |-> "none"]
  /\ down = "up" /\ ios = [asks |-> IF WkMay("scarce") THEN MaxIos ELSE IF WkMay("second") THEN 0 ELSE FewIos,
                          late |-> IF WkMay("late") THEN MaxLate ELSE 0]

(*****************************************************************************)
(* The eventfd: a write fires the PollAdd if it is armed                      *)
(*****************************************************************************)
SignalEventfd ==
  /\ efd' = TRUE
  /\ pollAdd' = IF pollAdd = "armed" THEN "cqe" ELSE pollAdd

\* WakeupBits::wake on the worker's own thread: the bits, then the eventfd.
WakeHere(is) ==
  /\ bits' = bits \cup is
  /\ IF is = {} THEN UNCHANGED <<efd, pollAdd>> ELSE SignalEventfd
  /\ UNCHANGED writes

(*****************************************************************************)
(* Callers: register_inner and unregister, one device each                    *)
(*****************************************************************************)
Send(m) == wkInbox' = Append(wkInbox, m)

\* Without "full" the inbox has room for every message of the instance.
InboxRoom == Len(wkInbox) < IF WkMay("full") THEN InboxCap ELSE 2 * Cardinality(AllQueues) + 1

Gone == wkPc = "exit"

\* The kernel's DEL_DEV waits until nothing holds the character device: no
\* queue of it is mapped by the worker, and no AddQueue message carries it.
HeldBy(d) == {q \in QueuesOf(d) :
                \/ q \in hosted
                \/ \E t \in TasksOf(q) : Live(t)
                \/ \E i \in DOMAIN wkInbox : wkInbox[i] = [op |-> "add", q |-> q]}

FirstDev == CHOOSE d \in WkDevs : TRUE

BeginRegister(d) ==
  /\ Between /\ reg[d].pc = "idle"
  /\ \/ d = FirstDev \/ WkMay("second")
     \/ WkMay("reuse") /\ unreg[FirstDev].pc = "done"
  /\ kdev[d] = "none"
  /\ kdev' = [kdev EXCEPT ![d] = "added"]
  /\ reg' = [reg EXCEPT ![d].pc = "send"]
  /\ UNCHANGED <<wkMay, wkInbox, wakeVars, loopVars, execVars, ioVars, late, pool, hosted, removes, unreg, ready, ack, down>>

\* blocking_send waits for room; a closed channel fails the registration.
RegisterSend(d) ==
  LET q == <<d, reg[d].k>> IN
  /\ Between /\ reg[d].pc = "send"
  /\ \/ /\ Gone
        /\ reg' = [reg EXCEPT ![d].pc = "undo"]
        /\ UNCHANGED wkInbox
     \/ /\ ~Gone /\ InboxRoom
        /\ Send([op |-> "add", q |-> q])
        /\ reg' = [reg EXCEPT ![d].pc = "signal"]
  /\ UNCHANGED <<wkMay, wakeVars, loopVars, execVars, ioVars, late, pool, hosted, removes, unreg, ready, ack, kdev, down>>

RegisterSignal(d) ==
  /\ Between /\ reg[d].pc = "signal"
  /\ SignalEventfd
  /\ reg' = [reg EXCEPT ![d] = IF reg[d].k < WkQueues[d] THEN [pc |-> "send", k |-> reg[d].k + 1]
                               ELSE [pc |-> "collect", k |-> 1]]
  /\ UNCHANGED <<wkMay, wkInbox, bits, writes, loopVars, execVars, ioVars, late, pool, hosted, removes, unreg, ready, ack, kdev, down>>

\* The answers in order of the queues; the first failure ends the registration.
RegisterCollect(d) ==
  LET a == ready[<<d, reg[d].k>>] IN
  /\ Between /\ reg[d].pc = "collect" /\ a # "none"
  /\ reg' = [reg EXCEPT ![d] = IF a # "ok" THEN [@ EXCEPT !.pc = "undo"]
                               ELSE IF reg[d].k < WkQueues[d] THEN [@ EXCEPT !.k = @ + 1]
                               ELSE [@ EXCEPT !.pc = "start"]]
  /\ UNCHANGED <<wkMay, wkInbox, wakeVars, loopVars, execVars, ioVars, late, pool, hosted, removes, unreg, ready, ack, kdev, down>>

\* START_DEV returns once every tag has its FETCH in the kernel.
RegisterStart(d) ==
  /\ Between /\ reg[d].pc = "start"
  /\ \A q \in QueuesOf(d) : \A t \in TasksOf(q) : cmd[t] = "armed"
  /\ kdev' = [kdev EXCEPT ![d] = "live"]
  /\ reg' = [reg EXCEPT ![d].pc = "done"]
  /\ UNCHANGED <<wkMay, wkInbox, wakeVars, loopVars, execVars, ioVars, late, pool, hosted, removes, unreg, ready, ack, down>>

\* Drop of the UblkCtrl that added the device: the Arc<UblkDev> of the caller
\* is dropped before it, then DEL_DEV stops the device and waits for the
\* character device to be closed.
RegisterUndo(d) ==
  /\ Between
  /\ \/ /\ reg[d].pc = "undo"
        /\ kdev' = [kdev EXCEPT ![d] = "stopping"]
        /\ reg' = [reg EXCEPT ![d].pc = "delete"]
     \/ /\ reg[d].pc = "delete" /\ kdev[d] = "stopped" /\ HeldBy(d) = {}
        /\ kdev' = [kdev EXCEPT ![d] = "deleted"]
        /\ reg' = [reg EXCEPT ![d].pc = "failed"]
  /\ UNCHANGED <<wkMay, wkInbox, wakeVars, loopVars, execVars, ioVars, late, pool, hosted, removes, unreg, ready, ack, down>>

BeginUnregister(d) ==
  /\ Between /\ reg[d].pc = "done" /\ unreg[d].pc = "idle"
  /\ unreg' = [unreg EXCEPT ![d].pc = "send"]
  /\ UNCHANGED <<wkMay, wkInbox, wakeVars, loopVars, execVars, ioVars, late, pool, hosted, removes, reg, ready, ack, kdev, down>>

AfterSend(u, d) == IF u.k < WkQueues[d] THEN [pc |-> "send", k |-> u.k + 1] ELSE [pc |-> "kill", k |-> 1]

\* try_send: a full or closed inbox is a warning, and no answer is awaited.
UnregisterSend(d) ==
  LET q == <<d, unreg[d].k>> IN
  /\ Between /\ unreg[d].pc = "send"
  /\ IF Gone \/ ~InboxRoom
       THEN /\ unreg' = [unreg EXCEPT ![d] = AfterSend(@, d)]
            /\ UNCHANGED <<wkInbox, ack>>
       ELSE /\ Send([op |-> "remove", q |-> q])
            /\ ack' = [ack EXCEPT ![q] = "waiting"]
            /\ unreg' = [unreg EXCEPT ![d].pc = "signal"]
  /\ UNCHANGED <<wkMay, wakeVars, loopVars, execVars, ioVars, late, pool, hosted, removes, reg, ready, kdev, down>>

UnregisterSignal(d) ==
  /\ Between /\ unreg[d].pc = "signal"
  /\ SignalEventfd
  /\ unreg' = [unreg EXCEPT ![d] = AfterSend(@, d)]
  /\ UNCHANGED <<wkMay, wkInbox, bits, writes, loopVars, execVars, ioVars, late, pool, hosted, removes, reg, ready, ack, kdev, down>>

UnregisterKill(d) ==
  /\ Between /\ unreg[d].pc = "kill"
  /\ kdev' = [kdev EXCEPT ![d] = "stopping"]
  /\ unreg' = [unreg EXCEPT ![d].pc = "acks"]
  /\ UNCHANGED <<wkMay, wkInbox, wakeVars, loopVars, execVars, ioVars, late, pool, hosted, removes, reg, ready, ack, down>>

\* Mutant of UnregisterAcks: DEL_DEV does not wait for the workers' answers.
UnregisterAcksNone(d) ==
  /\ Between /\ unreg[d].pc = "acks" /\ kdev[d] = "stopped"
  /\ unreg' = [unreg EXCEPT ![d].pc = "delete"]
  /\ UNCHANGED <<wkMay, wkInbox, wakeVars, loopVars, execVars, ioVars, late, pool, hosted, removes, reg, ready, ack, kdev, down>>

\* Both the workers' answers (or their dropped channels) and STOP_DEV, then
\* the device handle is dropped.
UnregisterAcks(d) ==
  /\ Between /\ unreg[d].pc = "acks" /\ kdev[d] = "stopped"
  /\ \A q \in QueuesOf(d) : ack[q] # "waiting"
  /\ unreg' = [unreg EXCEPT ![d].pc = "delete"]
  /\ UNCHANGED <<wkMay, wkInbox, wakeVars, loopVars, execVars, ioVars, late, pool, hosted, removes, reg, ready, ack, kdev, down>>

UnregisterDelete(d) ==
  /\ Between /\ unreg[d].pc = "delete" /\ HeldBy(d) = {}
  /\ kdev' = [kdev EXCEPT ![d] = "deleted"]
  /\ unreg' = [unreg EXCEPT ![d].pc = "done"]
  /\ UNCHANGED <<wkMay, wkInbox, wakeVars, loopVars, execVars, ioVars, late, pool, hosted, removes, reg, ready, ack, down>>

\* The pool's shutdown: a Shutdown message, then its answer is awaited.
AskShutdown ==
  /\ WkMay("shutdown") /\ Between
  /\ \/ /\ down = "up" /\ ~Gone /\ InboxRoom
        /\ Send([op |-> "shutdown"])
        /\ down' = "signal"
        /\ UNCHANGED <<efd, pollAdd>>
     \/ /\ down = "signal"
        /\ SignalEventfd
        /\ down' = IF Gone THEN "acked" ELSE "waiting"
        /\ UNCHANGED wkInbox
  /\ UNCHANGED <<wkMay, bits, writes, loopVars, execVars, ioVars, late, pool, hosted, removes, reg, unreg, ready, ack, kdev>>

(*****************************************************************************)
(* The kernel and the guests                                                  *)
(*****************************************************************************)
GuestOps == {"read"} \cup (IF WkMay("panic") THEN {"write"} ELSE {}) \cup (IF WkMay("cold") THEN {"cold", "invalid"} ELSE {})

\* A request takes a tag whose FETCH is armed.
GuestRequest(t, op) ==
  /\ ios.asks > 0 /\ kdev[t[1]] = "live" /\ cmd[t] = "armed" /\ Between
  /\ request' = [request EXCEPT ![t] = op]
  /\ cmd' = [cmd EXCEPT ![t] = "cqe_request"]
  /\ ios' = [ios EXCEPT !.asks = @ - 1]
  /\ UNCHANGED <<wkMay, wkInbox, wakeVars, loopVars, execVars, stage, work, late, pool, hosted, removes, callVars>>

\* STOP_DEV waits for the requests in flight, then aborts the armed commands.
KernelStops(d) ==
  LET ts == UNION {TasksOf(q) : q \in QueuesOf(d)} IN
  /\ kdev[d] = "stopping" /\ Between
  /\ \A t \in ts : request[t] = "none"
  /\ kdev' = [kdev EXCEPT ![d] = "stopped"]
  /\ cmd' = [t \in Tasks |-> IF t \in ts /\ cmd[t] = "armed" THEN "cqe_abort" ELSE cmd[t]]
  /\ UNCHANGED <<wkMay, wkInbox, wakeVars, loopVars, execVars, stage, request, work, ios, late, pool, hosted, removes, reg, unreg, ready, ack, down>>

(*****************************************************************************)
(* Other threads: a handler publishes its result, then wakes the task.  A     *)
(* "late" wake is one more of the same waker, for a result already taken.     *)
(*****************************************************************************)
HandlerFinishes(t) ==
  /\ work[t] = "running" /\ Between
  /\ work' = [work EXCEPT ![t] = "finished"]
  /\ \E n \in 0..Min({1, ios.late}) :
       /\ late' = [late EXCEPT ![SlotOf(t)] = @ + 1 + n]
       /\ ios' = [ios EXCEPT !.late = @ - n]
  /\ UNCHANGED <<wkMay, wkInbox, wakeVars, loopVars, execVars, stage, cmd, request, pool, hosted, removes, callVars>>

WakeFromOutside(i) ==
  /\ late[i] > 0 /\ Between
  /\ late' = [late EXCEPT ![i] = @ - 1]
  /\ bits' = bits \cup {i}
  /\ writes' = writes + 1
  /\ UNCHANGED <<wkMay, wkInbox, efd, pollAdd, loopVars, execVars, ioVars, pool, hosted, removes, callVars>>

WriteFromOutside ==
  /\ writes > 0 /\ Between
  /\ writes' = writes - 1
  /\ SignalEventfd
  /\ UNCHANGED <<wkMay, wkInbox, bits, loopVars, execVars, ioVars, late, pool, hosted, removes, callVars>>

(*****************************************************************************)
(* run_worker_loop: the inbox                                                 *)
(*****************************************************************************)
Message(op) == wkPc = "inbox" /\ wkInbox # <<>> /\ Head(wkInbox).op = op

Available == Len(freeList) + (Capacity - Len(slab))

\* Mutant of Spawn: the new task's bit is not set.
SpawnAsleep(acc, t) ==
  IF acc.free # <<>>
    THEN [slab |-> [acc.slab EXCEPT ![Last(acc.free)] = t], free |-> Front(acc.free), bits |-> acc.bits]
    ELSE [slab |-> Append(acc.slab, t), free |-> <<>>, bits |-> acc.bits]

\* Spawning takes the last freed slot, or grows the slab; the bit is set
\* without a write to the eventfd.
Spawn(acc, t) ==
  IF acc.free # <<>>
    THEN LET i == Last(acc.free) IN
           [slab |-> [acc.slab EXCEPT ![i] = t], free |-> Front(acc.free), bits |-> acc.bits \cup {i}]
    ELSE [slab |-> Append(acc.slab, t), free |-> <<>>, bits |-> acc.bits \cup {Len(acc.slab) + 1}]

AddFits == Available >= WkDepth

TakeAdd ==
  LET q == Head(wkInbox).q
      ts == [n \in 1..WkDepth |-> <<q[1], q[2], n>>]
      after == FoldLeft(Spawn, [slab |-> slab, free |-> freeList, bits |-> bits], ts)
  IN
  /\ Message("add")
  /\ wkInbox' = Tail(wkInbox)
  /\ justAdded' = TRUE
  /\ IF q \notin hosted /\ AddFits
       THEN /\ slab' = after.slab /\ freeList' = after.free /\ bits' = after.bits
            /\ stage' = [t \in Tasks |-> IF t \in TasksOf(q) THEN "start" ELSE stage[t]]
            /\ hosted' = hosted \cup {q}
            /\ ready' = [ready EXCEPT ![q] = "ok"]
       ELSE /\ ready' = [ready EXCEPT ![q] = "err"]
            /\ UNCHANGED <<execVars, bits, stage, hosted>>
  /\ UNCHANGED <<wkMay, efd, pollAdd, writes, wkPc, pass, wkCur, cmd, request, work, ios, late, pool, removes, reg, unreg, ack, kdev, down>>

\* The queue leaves the map; the answer waits for the last task to drop its clone.
TakeRemove ==
  LET q == Head(wkInbox).q IN
  /\ Message("remove")
  /\ wkInbox' = Tail(wkInbox)
  /\ hosted' = hosted \ {q}
  /\ IF q \in hosted /\ \E t \in TasksOf(q) : Live(t)
       THEN removes' = removes \cup {q} /\ UNCHANGED ack
       ELSE ack' = [ack EXCEPT ![q] = "acked"] /\ UNCHANGED removes
  /\ UNCHANGED <<wkMay, wakeVars, loopVars, execVars, ioVars, late, pool, reg, unreg, ready, kdev, down>>

\* What is dropped when the thread ends: the tasks, the queues, and the
\* senders in the inbox and in pending_removes.  The kernel gives the
\* requests of a device without a server back to its queue.
Dropped(ops) == {wkInbox[i].q : i \in {n \in DOMAIN wkInbox : wkInbox[n].op \in ops}}

ThreadEnds ==
  /\ wkPc' = "exit"
  /\ slab' = <<>> /\ freeList' = <<>> /\ hosted' = {} /\ removes' = {}
  /\ stage' = [t \in Tasks |-> "none"] /\ work' = stage' /\ cmd' = stage' /\ request' = stage'
  /\ ready' = [q \in AllQueues |-> IF q \in Dropped({"add"}) THEN "dropped" ELSE ready[q]]
  /\ ack' = [q \in AllQueues |-> IF q \in removes \cup Dropped({"remove"}) THEN "dropped" ELSE ack[q]]
  /\ wkInbox' = <<>>
  /\ late' = [i \in 1..Capacity |-> 0] /\ bits' = {}
  /\ pool' = [pool EXCEPT !.waiters = <<>>, !.free = PoolSize, !.astray = FALSE]
  /\ down' = IF down = "waiting" THEN "acked" ELSE down
  /\ UNCHANGED <<wkMay, efd, pollAdd, writes, justAdded, pass, wkCur, ios, reg, unreg, kdev>>

TakeShutdown == Message("shutdown") /\ ThreadEnds

StartPass(pre) == pass' = [pass EXCEPT !.pre = pre, !.word = 0, !.batch = {}, !.freed = <<>>]

\* Mutant of InboxEmpty: no tick before the wait for the tasks just spawned.
InboxEmptyNoTick ==
  /\ wkPc = "inbox" /\ wkInbox = <<>>
  /\ wkPc' = "enter" /\ UNCHANGED pass
  /\ UNCHANGED <<wkMay, wkInbox, wakeVars, justAdded, wkCur, execVars, ioVars, late, pool, hosted, removes, callVars>>

InboxEmpty ==
  /\ wkPc = "inbox" /\ wkInbox = <<>>
  /\ IF justAdded THEN wkPc' = "tick" /\ StartPass(TRUE)
                  ELSE wkPc' = "enter" /\ UNCHANGED pass
  /\ UNCHANGED <<wkMay, wkInbox, wakeVars, justAdded, wkCur, execVars, ioVars, late, pool, hosted, removes, callVars>>

\* drain_until_shutdown, on a worker whose io_uring could not be set up.  No
\* queue is ever hosted there, so nobody asks for one to be removed.
TakeWithoutRing ==
  /\ wkPc = "no_ring" /\ wkInbox # <<>>
  /\ \/ /\ Head(wkInbox).op = "add"
        /\ ready' = [ready EXCEPT ![Head(wkInbox).q] = "err"]
        /\ wkInbox' = Tail(wkInbox)
        /\ UNCHANGED <<wkMay, wakeVars, loopVars, execVars, ioVars, late, pool, hosted, removes, reg, unreg, ack, kdev, down>>
     \/ Head(wkInbox).op = "shutdown" /\ ThreadEnds

(*****************************************************************************)
(* run_worker_loop: submit and wait, reap, drain the eventfd                  *)
(*****************************************************************************)
\* A COMMIT answers the guest's request; the kernel then holds the command as
\* the next FETCH, unless the device was stopped.
SubmitAndWait ==
  /\ wkPc = "enter"
  /\ wkPc' = "wait"
  /\ cmd' = [t \in Tasks |-> IF cmd[t] # "queued" THEN cmd[t]
                             ELSE IF kdev[t[1]] = "stopped" THEN "cqe_abort" ELSE "armed"]
  /\ request' = [t \in Tasks |-> IF cmd[t] = "queued" THEN "none" ELSE request[t]]
  /\ pollAdd' = IF pollAdd # "queued" THEN pollAdd ELSE IF efd THEN "cqe" ELSE "armed"
  /\ UNCHANGED <<wkMay, wkInbox, efd, bits, writes, justAdded, pass, wkCur, execVars, stage, work, ios, late, pool, hosted, removes, callVars>>

Completed(t) == cmd[t] \in {"cqe_request", "cqe_abort"}

CqeReady == pollAdd = "cqe" \/ \E t \in Tasks : Completed(t)

WaitReturns ==
  /\ wkPc = "wait" /\ CqeReady
  /\ wkPc' = "reap"
  /\ UNCHANGED <<wkMay, wkInbox, wakeVars, justAdded, pass, wkCur, execVars, ioVars, late, pool, hosted, removes, callVars>>

\* ETIME after WORKER_IDLE_NSEC.
WaitTimesOut ==
  /\ wkPc = "wait" /\ ~CqeReady
  /\ wkPc' = "reap"
  /\ UNCHANGED <<wkMay, wkInbox, wakeVars, justAdded, pass, wkCur, execVars, ioVars, late, pool, hosted, removes, callVars>>

\* ublk_wake_task for every completion: the result, then the task's waker.
\* The wakes write the eventfd, so that an armed PollAdd completes as well; the
\* loop over the completion queue may or may not see that one.
Reap ==
  LET done == {t \in Tasks : Completed(t)} IN
  /\ wkPc = "reap"
  /\ wkPc' = "drain"
  /\ cmd' = [t \in Tasks |-> IF cmd[t] = "cqe_request" THEN "request"
                             ELSE IF cmd[t] = "cqe_abort" THEN "abort" ELSE cmd[t]]
  /\ \E seen \in IF pollAdd = "cqe" THEN {TRUE} ELSE IF pollAdd = "armed" /\ done # {} THEN BOOLEAN ELSE {FALSE} :
       /\ pollAdd' = IF seen THEN "fired" ELSE IF pollAdd = "armed" /\ done # {} THEN "cqe" ELSE pollAdd
       /\ bits' = bits \cup {SlotOf(t) : t \in done} \cup (IF seen THEN {1} ELSE {})
       /\ efd' = (efd \/ seen \/ done # {})
  /\ UNCHANGED <<wkMay, wkInbox, writes, justAdded, pass, wkCur, execVars, stage, request, work, ios, late, pool, hosted, removes, callVars>>

DrainEventfd ==
  /\ wkPc = "drain"
  /\ efd' = FALSE
  /\ wkPc' = "tick" /\ StartPass(FALSE)
  /\ UNCHANGED <<wkMay, wkInbox, bits, pollAdd, writes, justAdded, wkCur, execVars, ioVars, late, pool, hosted, removes, callVars>>

(*****************************************************************************)
(* QueueExecutor::tick: word by word, the lowest slot first                   *)
(*****************************************************************************)
SwapWord ==
  /\ wkPc = "tick" /\ Between /\ pass.batch = {} /\ pass.word < WkWords
  /\ LET is == {i \in bits : WordOf(i) = pass.word} IN
       /\ bits' = bits \ is
       /\ pass' = [pass EXCEPT !.word = @ + 1, !.batch = is, !.taken = @ \ is]
  /\ UNCHANGED <<wkMay, wkInbox, efd, pollAdd, writes, wkPc, justAdded, wkCur, execVars, ioVars, late, pool, hosted, removes, callVars>>

\* A bit of an empty slot is skipped.
PollNext ==
  /\ wkPc = "tick" /\ Between /\ pass.batch # {}
  /\ LET i == Min(pass.batch) IN
       /\ pass' = [pass EXCEPT !.batch = @ \ {i}]
       /\ wkCur' = IF slab[i] = Hole THEN WkNone ELSE i
  /\ UNCHANGED <<wkMay, wkInbox, wakeVars, wkPc, justAdded, execVars, ioVars, late, pool, hosted, removes, callVars>>

TickEnds ==
  /\ wkPc = "tick" /\ Between /\ pass.batch = {} /\ pass.word = WkWords
  /\ freeList' = freeList \o pass.freed
  /\ pass' = [pass EXCEPT !.freed = <<>>]
  /\ wkPc' = IF pass.pre THEN "enter" ELSE "acks"
  /\ UNCHANGED <<wkMay, wkInbox, wakeVars, justAdded, wkCur, slab, ioVars, late, pool, hosted, removes, callVars>>

\* pending_removes.retain_mut, then the next iteration.
AckRemoves ==
  LET drained == {q \in removes : \A t \in TasksOf(q) : ~Live(t)} IN
  /\ wkPc = "acks"
  /\ removes' = removes \ drained
  /\ ack' = [q \in AllQueues |-> IF q \in drained THEN "acked" ELSE ack[q]]
  /\ wkPc' = "inbox" /\ justAdded' = FALSE
  /\ UNCHANGED <<wkMay, wkInbox, wakeVars, pass, wkCur, execVars, ioVars, late, pool, hosted, reg, unreg, ready, kdev, down>>

(*****************************************************************************)
(* The poll of one task                                                       *)
(*****************************************************************************)
Polled(t) == ~Between /\ slab[wkCur] = t

Pending == wkCur' = WkNone /\ UNCHANGED <<wkPc, justAdded, pass, execVars>>

Continues == UNCHANGED <<loopVars, execVars>>

\* The future completed or panicked: its slot is freed at the end of the tick.
TaskEnds(t) ==
  /\ slab' = [slab EXCEPT ![wkCur] = Hole]
  /\ pass' = [pass EXCEPT !.freed = Append(@, wkCur)]
  /\ wkCur' = WkNone
  /\ UNCHANGED <<wkPc, justAdded, freeList>>

\* The daemon drains the eventfd once its PollAdd completed, and submits the
\* next.  The bits of a word that this tick has swapped already are then left
\* without a write to the eventfd.
PollDaemon ==
  /\ Polled(Daemon)
  /\ IF pollAdd \in {"none", "fired"}
       THEN pollAdd' = "queued" /\ efd' = (efd /\ pollAdd = "none")
       ELSE UNCHANGED <<pollAdd, efd>>
  /\ pass' = IF pollAdd = "fired" /\ efd THEN [pass EXCEPT !.taken = {i \in bits : WordOf(i) < pass.word}]
             ELSE pass
  /\ wkCur' = WkNone /\ UNCHANGED <<wkPc, justAdded, execVars>>
  /\ UNCHANGED <<wkMay, wkInbox, bits, writes, ioVars, late, pool, hosted, removes, callVars>>

SubmitFetch(t) ==
  /\ Polled(t) /\ stage[t] = "start"
  /\ stage' = [stage EXCEPT ![t] = "fetch"]
  /\ cmd' = [cmd EXCEPT ![t] = "queued"]
  /\ Pending
  /\ UNCHANGED <<wkMay, wkInbox, wakeVars, request, work, ios, late, pool, hosted, removes, callVars>>

\* Polled although neither the command nor the handler has a result.
PolledEarly(t) ==
  /\ Polled(t)
  /\ \/ stage[t] = "fetch" /\ cmd[t] \notin {"request", "abort"}
     \/ stage[t] \in {"pooled", "unpooled"} /\ work[t] = "running"
  /\ Pending
  /\ UNCHANGED <<wkMay, wkInbox, wakeVars, ioVars, late, pool, hosted, removes, callVars>>

\* UBLK_IO_RES_ABORT ends the task with QueueIsDown.
TakeAbort(t) ==
  /\ Polled(t) /\ stage[t] = "fetch" /\ cmd[t] = "abort"
  /\ stage' = [stage EXCEPT ![t] = "none"]
  /\ cmd' = [cmd EXCEPT ![t] = "none"]
  /\ TaskEnds(t)
  /\ UNCHANGED <<wkMay, wkInbox, wakeVars, request, work, ios, late, pool, hosted, removes, callVars>>

\* A request: reads and writes need a bounce buffer, an unknown op is refused.
TakeRequest(t) ==
  /\ Polled(t) /\ stage[t] = "fetch" /\ cmd[t] = "request"
  /\ cmd' = [cmd EXCEPT ![t] = "none"]
  /\ stage' = [stage EXCEPT ![t] = CASE request[t] \in {"read", "write"} -> "acquire"
                                     [] request[t] = "cold" -> "unpooled"
                                     [] OTHER -> "commit"]
  /\ work' = [work EXCEPT ![t] = IF request[t] = "cold" THEN "running" ELSE @]
  /\ Continues
  /\ UNCHANGED <<wkMay, wkInbox, wakeVars, request, ios, late, pool, hosted, removes, callVars>>

Waiting == {t \in Tasks : stage[t] = "acquire"}

\* acquire_io_buf: a slot of the pool, or a place among the waiters, one more
\* for every poll that finds the pool empty.
AcquireBuffer(t) ==
  /\ Polled(t) /\ stage[t] = "acquire"
  /\ IF pool.free > 0
       THEN /\ pool' = [pool EXCEPT !.up = TRUE, !.free = @ - 1, !.astray = @ /\ Waiting # {t}]
            /\ stage' = [stage EXCEPT ![t] = "pooled"]
            /\ work' = [work EXCEPT ![t] = "running"]
            /\ Continues
       ELSE /\ pool' = [pool EXCEPT !.waiters = Append(@, wkCur)]
            /\ Pending /\ UNCHANGED <<stage, work>>
  /\ UNCHANGED <<wkMay, wkInbox, wakeVars, cmd, request, ios, late, hosted, removes, callVars>>

\* The pool's region cannot be mapped: a buffer of the heap, or EIO.
AcquireFallback(t) ==
  /\ Polled(t) /\ stage[t] = "acquire" /\ WkMay("oom") /\ ~pool.up
  /\ \E heap \in BOOLEAN :
       /\ stage' = [stage EXCEPT ![t] = IF heap THEN "unpooled" ELSE "commit"]
       /\ work' = [work EXCEPT ![t] = IF heap THEN "running" ELSE @]
  /\ Continues
  /\ UNCHANGED <<wkMay, wkInbox, wakeVars, cmd, request, ios, late, pool, hosted, removes, callVars>>

\* The handler has its answer without waiting for another thread.
FinishInline(t) ==
  /\ Polled(t) /\ stage[t] \in {"pooled", "unpooled"} /\ work[t] = "running"
  /\ work' = [work EXCEPT ![t] = "finished"]
  /\ Continues
  /\ UNCHANGED <<wkMay, wkInbox, wakeVars, stage, cmd, request, ios, late, pool, hosted, removes, callVars>>

\* Drop of a PoolSlot: back to the free list, and the first waiter is woken.
ReleaseBuffer(t) ==
  IF stage[t] # "pooled" THEN UNCHANGED <<pool, wakeVars>>
  ELSE IF pool.waiters = <<>> THEN pool' = [pool EXCEPT !.free = @ + 1] /\ UNCHANGED wakeVars
  ELSE /\ pool' = [pool EXCEPT !.free = @ + 1, !.waiters = Tail(@),
                               !.astray = @ \/ (Waiting # {} /\ slab[Head(pool.waiters)] \notin Waiting)]
       /\ WakeHere({Head(pool.waiters)})

\* A panic of a mutating handler is caught and answered with EIO, as an error.
HandlerReturns(t) ==
  /\ Polled(t) /\ work[t] = "finished"
  /\ work' = [work EXCEPT ![t] = "none"]
  /\ stage' = [stage EXCEPT ![t] = "commit"]
  /\ ReleaseBuffer(t)
  /\ Continues
  /\ UNCHANGED <<wkMay, wkInbox, cmd, request, ios, late, hosted, removes, callVars>>

\* A panic of a read reaches the executor: the task is dropped, and its tag
\* never commits the request.
ReadPanics(t) ==
  /\ Polled(t) /\ work[t] = "finished" /\ request[t] = "read" /\ WkMay("panic")
  /\ work' = [work EXCEPT ![t] = "none"]
  /\ stage' = [stage EXCEPT ![t] = "none"]
  /\ ReleaseBuffer(t)
  /\ TaskEnds(t)
  /\ UNCHANGED <<wkMay, wkInbox, cmd, request, ios, late, hosted, removes, callVars>>

SubmitCommit(t) ==
  /\ Polled(t) /\ stage[t] = "commit"
  /\ stage' = [stage EXCEPT ![t] = "fetch"]
  /\ cmd' = [cmd EXCEPT ![t] = "queued"]
  /\ Pending
  /\ UNCHANGED <<wkMay, wkInbox, wakeVars, request, work, ios, late, pool, hosted, removes, callVars>>

PollTask ==
  \E t \in Tasks :
    \/ SubmitFetch(t) \/ PolledEarly(t) \/ TakeAbort(t) \/ TakeRequest(t)
    \/ AcquireBuffer(t) \/ AcquireFallback(t) \/ FinishInline(t)
    \/ HandlerReturns(t) \/ ReadPanics(t) \/ SubmitCommit(t)

WorkerStep ==
  \/ TakeAdd \/ TakeRemove \/ TakeShutdown \/ InboxEmpty \/ TakeWithoutRing
  \/ SubmitAndWait \/ WaitReturns \/ WaitTimesOut \/ Reap \/ DrainEventfd
  \/ SwapWord \/ PollNext \/ TickEnds \/ AckRemoves
  \/ PollDaemon \/ PollTask

CallerStep(d) ==
  \/ RegisterSend(d) \/ RegisterSignal(d) \/ RegisterCollect(d) \/ RegisterStart(d) \/ RegisterUndo(d)
  \/ UnregisterSend(d) \/ UnregisterSignal(d) \/ UnregisterKill(d) \/ UnregisterAcks(d) \/ UnregisterDelete(d)

OutsideStep ==
  \/ \E i \in 1..Capacity : WakeFromOutside(i)
  \/ WriteFromOutside
  \/ \E t \in Tasks : HandlerFinishes(t)
  \/ \E d \in WkDevs : KernelStops(d)

WkNext ==
  \/ WorkerStep
  \/ OutsideStep
  \/ \E d \in WkDevs : BeginRegister(d) \/ BeginUnregister(d) \/ CallerStep(d)
  \/ AskShutdown
  \/ \E t \in Tasks, op \in GuestOps : GuestRequest(t, op)

WkSpec == WkInit /\ [][WkNext]_wkVars

\* The thread runs, the callers' threads run, handlers finish and wake their
\* task, and the kernel stops a device once its requests are answered.
\* Each of them has finitely many steps to take, so that one condition for the
\* callers and one for the rest is enough.
WkFairness ==
  /\ WF_wkVars(WorkerStep)
  /\ WF_wkVars(\E d \in WkDevs : CallerStep(d))
  /\ WF_wkVars(OutsideStep)

WkLiveSpec == WkSpec /\ WkFairness

(*****************************************************************************)
(* Properties                                                                 *)
(*****************************************************************************)
\* When a worker answers RemoveQueue, the queue's mapping is gone: it left the
\* map of hosted queues and every task dropped its clone.  `unregister` calls
\* del_dev on the strength of that answer (worker_pool.rs, PendingRemove).
AckMeansReleased ==
  \A q \in AllQueues : ack[q] = "acked" => q \notin hosted /\ \A t \in TasksOf(q) : ~Live(t)

\* `unregister` reaches DEL_DEV only when nothing holds the character device,
\* so that the kernel does not wait for it (device.rs, unregister (d)).
DeleteFindsItClosed == \A d \in WkDevs : unreg[d].pc = "delete" => HeldBy(d) = {}

\* While buffers are free and a task waits for one, a waiting task has been
\* woken and not yet polled (buffer_pool.rs, PoolSlot::drop), unless a release
\* spent its one wake on an entry that a spurious poll had queued for a task
\* which has its buffer since.
NoMissedWake ==
  (pool.free > 0 /\ Waiting # {} /\ ~pool.astray)
     => \E t \in Waiting : SlotOf(t) \in bits \cup pass.batch \cup {wkCur}

\* A worker that sleeps in io_uring_enter with nothing to reap has no message
\* in its inbox and no woken task, except for one whose sender has still to
\* write the eventfd, or whose write the daemon took in a tick that had passed
\* the task's word.  (In the first wait of its life the daemon has not run yet,
\* and only the timeout ends it.)
NothingStranded ==
  (wkPc = "wait" /\ ~CqeReady /\ pollAdd # "none") =>
     /\ \/ wkInbox = <<>>
        \/ down = "signal"
        \/ \E d \in WkDevs : reg[d].pc = "signal" \/ unreg[d].pc = "signal"
     /\ writes > 0 \/ bits \subseteq pass.taken

\* The slots that were counted before a queue is accepted suffice for its
\* tasks: `spawn` never fails (worker_pool.rs:1064, the expect).
SpawnNeverFails == Len(slab) <= Capacity

\* The requests that nobody answers: one whose read panicked (device.rs,
\* io_task_user_copy), and one that waits beside a free buffer for the wake
\* that went astray.
Forgotten(t) ==
  \/ WkMay("panic") /\ request[t] = "read"
  \/ stage[t] = "acquire" /\ pool.free > 0 /\ pool.astray

\* The requests of guests that wait for their answer.
Unanswered == {t \in Tasks : request[t] # "none" /\ ~Forgotten(t)}

\* The calls of `unregister` that have not returned, but for those of a device
\* one of whose requests is forgotten: the kernel waits for it.
Unregistering == {d \in WkDevs : /\ unreg[d].pc \notin {"idle", "done"} /\ ~WkMay("panic")
                                 /\ \A t \in Tasks : t[1] = d => ~Forgotten(t)}

\* The registrations that have not ended, as done or as failed with the device
\* deleted, but for those of which one queue was accepted and another refused,
\* or whose worker was shut down.
Registering == {d \in WkDevs : /\ reg[d].pc \notin {"idle", "done", "failed"} /\ ~Gone
                               /\ ~(reg[d].pc = "delete" /\ \E q \in QueuesOf(d) : ready[q] = "ok")}

\* A registration that a worker refuses leaves no device behind: its DEL_DEV
\* returns (worker_pool.rs:971, "fail the AddQueue cleanly without leaving the
\* kernel device half-attached").
RefusedIsDeleted == \A d \in WkDevs : reg[d].pc = "delete" ~> reg[d].pc = "failed"

\* A queue that a worker reports removed is released, so DEL_DEV never waits
\* for a worker.
RemovedIsReleased == AckMeansReleased /\ DeleteFindsItClosed

\* Whatever a worker has accepted gets its turn: a slot for its task, a wake
\* for its buffer, a poll before the worker sleeps.
NothingLost == NoMissedWake /\ NothingStranded /\ SpawnNeverFails

\* Every request is answered and every register and unregister returns: from any
\* state the worker comes to one in which nobody waits for it, whichever of them
\* wait for each other.
WorkerProgress == []<>(Unanswered = {} /\ Unregistering = {} /\ Registering = {})
=============================================================================
