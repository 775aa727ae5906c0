--------------------------- MODULE FlushScheduler ---------------------------
(***************************************************************************)
(* Who flushes an export, when, and what happens when S3 does not answer:  *)
(* the scheduler task with its notification, its checkpoint timer and its  *)
(* backoff, the supervisor that restarts it, the capacity monitor's        *)
(* pressure flush, and a drain or the teardown's drain.  All of them take  *)
(* flush_lock, and every S3 call they make goes through CircuitBreaker,    *)
(* which the guests' reads share.                                          *)
(*                                                                         *)
(* FlushCycle has the contents of the blocks; here a block is clean, dirty *)
(* or syncing, and a flush is one upload and one manifest PUT.             *)
(***************************************************************************)
EXTENDS CircuitBreaker

CONSTANTS
    Blocks,
    FlushThreshold,     \* flush_threshold; 0 is manual mode
    MaxBackoff,         \* doublings until MAX_BACKOFF
    PutAttempts,        \* attempts at the manifest, in a flush and after compaction
    DrainIterations,    \* MAX_DRAIN_ITERATIONS
    MaxPanics,          \* max_consecutive_panics
    MaxWrites,          \* bound: guest writes
    MaxOutages,         \* bound: times S3 becomes unreachable
    Scenarios           \* sets of SchedulerEvents that are tried together

\* The scheduler panics; the monitor's 30 s timeout drops a pressure flush; the client
\* of a drain goes away; the manifest PUT meets another writer's ETag; compaction
\* replaces packs; the export is torn down or drained; the disk fills up; others
\* call S3, and some of their calls end without an outcome.
SchedulerEvents == {"panic", "pressure_timeout", "disconnect", "conflict", "compaction", "teardown",
                    "drain", "pressure", "reads", "lost"}

ASSUME SchedulerBounds ==
    /\ IsFiniteSet(Blocks) /\ FlushThreshold \in Nat /\ MaxBackoff \in Nat \ {0}
    /\ PutAttempts \in Nat \ {0} /\ DrainIterations \in Nat \ {0} /\ MaxPanics \in Nat \ {0}
    /\ Scenarios \subseteq SUBSET SchedulerEvents

Flushers == {"sched", "monitor", "drain"}
ASSUME FlushersCall == Flushers \subseteq Callers

VARIABLES
    st, rotation,           \* state_map; flushing_active
    lock, pc, attempt,      \* flush_lock; where each flusher is; attempts at the manifest
    branch,                 \* the select! branch the scheduler is in
    backoff, waited,        \* flush_backoff; it has elapsed since last_flush_failure
    timer, notified,        \* checkpoint_active; the permit of flush_notify
    panics, stop,           \* consecutive_panics; flush_shutdown_tx
    claimed, iterations,    \* the drain: blocks_claimed > 0 in this iteration; iterations done
    owed,                   \* history: blocks unflushed when the drain began and not since
    gaveBack,               \* history: a drain or pressure flush failed
    left,                   \* history: blocks a flush dropped half-way left SYNCING
    dropped,                \* history: a flush was dropped half-way
    s3up, fate,             \* S3 is reachable; what each request out will be answered
    writes, outages,
    events                  \* the scenario of this behaviour

historyVars == <<owed, gaveBack, left, dropped>>
blockVars == <<st, rotation, historyVars>>
schedVars == <<branch, backoff, waited, timer, panics>>
drainVars == <<claimed, iterations>>
worldVars == <<s3up, writes, outages, events>>
vars == <<breakerVars, blockVars, lock, pc, attempt, schedVars, notified, stop, drainVars, worldVars,
          fate>>

Dirty == {b \in Blocks : st[b] = "dirty"}
Syncing == {b \in Blocks : st[b] = "syncing"}
Free == "free"

\* Where a flusher owns the blocks it has claimed.
Working == {"upload", "uploading", "put", "putting", "evict", "failed", "conflict"}

\* A node that starts with what recovery found dirty.
Init ==
    /\ BreakerInit
    /\ st \in [Blocks -> {"clean", "dirty"}] /\ rotation = FALSE
    /\ owed = {} /\ gaveBack = FALSE /\ left = {} /\ dropped = FALSE
    /\ lock = Free /\ attempt = 0
    /\ pc = [f \in Flushers |-> IF f = "sched" THEN "start" ELSE "idle"]
    /\ branch = "notify" /\ backoff = 0 /\ waited = FALSE /\ timer = FALSE
    /\ panics = 0 /\ notified = FALSE /\ stop = FALSE
    /\ claimed = FALSE /\ iterations = 0
    /\ s3up = TRUE /\ fate = [c \in Callers |-> TRUE] /\ writes = 0 /\ outages = 0
    /\ events \in Scenarios

Goto(f, l) == pc' = [pc EXCEPT ![f] = l]

-----------------------------------------------------------------------------
(* The guest and S3.                                                       *)

\* A write, and check_flush_threshold after it.
Write(b) ==
    /\ writes < MaxWrites /\ writes' = writes + 1
    /\ st' = [st EXCEPT ![b] = "dirty"] /\ left' = left \ {b}
    /\ notified' = (notified \/ (FlushThreshold > 0 /\ Cardinality(Dirty \cup {b}) >= FlushThreshold))
    /\ UNCHANGED <<breakerVars, rotation, owed, gaveBack, dropped, lock, pc, attempt, schedVars, stop, drainVars,
                   s3up, outages, events, fate>>

Outage ==
    /\ s3up /\ outages < MaxOutages
    /\ s3up' = FALSE /\ outages' = outages + 1
    /\ UNCHANGED <<breakerVars, blockVars, lock, pc, attempt, schedVars, notified, stop, drainVars,
                   writes, events, fate>>

Recovery ==
    /\ ~s3up /\ s3up' = TRUE
    /\ UNCHANGED <<breakerVars, blockVars, lock, pc, attempt, schedVars, notified, stop, drainVars,
                   writes, outages, events, fate>>

Timeout ==
    /\ Elapse
    /\ UNCHANGED <<blockVars, lock, pc, attempt, schedVars, notified, stop, drainVars, worldVars, fate>>

\* check_circuit, and the request goes out; its fate is that of S3 at that moment.
Send(c) == Admit(c) /\ fate' = [fate EXCEPT ![c] = s3up]

\* record_s3_result.
Answered(c) ==
    /\ IF fate[c] THEN RecordSuccess(c) ELSE RecordFailure(c)
    /\ fate' = [fate EXCEPT ![c] = TRUE]

\* The calls of the others: reads of blocks that are only in S3, requests of the API.
ReaderSends(c) ==
    /\ "reads" \in events /\ Send(c)
    /\ UNCHANGED <<blockVars, lock, pc, attempt, schedVars, notified, stop, drainVars, worldVars>>

ReaderReturns(c) ==
    /\ Answered(c)
    /\ UNCHANGED <<blockVars, lock, pc, attempt, schedVars, notified, stop, drainVars, worldVars>>

\* Its caller went away, or it was the listing of a volume without snapshots.
ReaderLost(c) ==
    /\ "lost" \in events
    /\ Abandon(c) /\ fate' = [fate EXCEPT ![c] = TRUE]
    /\ UNCHANGED <<blockVars, lock, pc, attempt, schedVars, notified, stop, drainVars, worldVars>>

-----------------------------------------------------------------------------
(* flush_packs under flush_lock, the same for every flusher.               *)

TakeLock(f) ==
    /\ pc[f] = "lock" /\ lock = Free
    /\ lock' = f /\ Goto(f, "claim")
    /\ UNCHANGED <<breakerVars, blockVars, attempt, schedVars, notified, stop, drainVars, worldVars, fate>>

\* flush_dirty_inner up to the rotation.  A flushing file whose blocks are
\* still SYNCING ends the flush with Ok and nothing done.
Claim(f) ==
    /\ pc[f] = "claim"
    /\ attempt' = 0
    /\ IF (rotation /\ Syncing # {}) \/ Dirty = {}
       THEN /\ Goto(f, "nothing")
            /\ rotation' = (rotation /\ Syncing # {})
            /\ UNCHANGED <<st, left, drainVars>>
       ELSE /\ rotation' = TRUE /\ left' = {}
            /\ st' = [b \in Blocks |-> IF st[b] = "dirty" THEN "syncing" ELSE st[b]]
            /\ claimed' = (claimed \/ f = "drain")
            /\ Goto(f, "upload")
            /\ UNCHANGED iterations
    /\ UNCHANGED <<breakerVars, owed, gaveBack, dropped, lock, schedVars, notified, stop, worldVars, fate>>

\* Where an S3 call is about to be made, and where its answer is waited for.
InFlight == [upload |-> "uploading", put |-> "putting", compact_put |-> "compact_putting",
             drain_put |-> "drain_putting", monitor_put |-> "monitor_putting"]
Asking(f) == pc[f] \in DOMAIN InFlight

\* allow() of a flusher, or of a reader, finds the timeout passed.
ResetTimeout ==
    /\ (\E f \in Flushers : Asking(f)) \/ "reads" \in events
    /\ ToHalfOpen
    /\ UNCHANGED <<blockVars, lock, pc, attempt, schedVars, notified, stop, drainVars, worldVars, fate>>

Call(f) ==
    /\ Asking(f) /\ Send(f)
    /\ Goto(f, InFlight[pc[f]])
    /\ UNCHANGED <<blockVars, lock, attempt, schedVars, notified, stop, drainVars, worldVars>>

\* What an error of the call made at label l means.
AfterError(l) ==
    IF l \in {"put", "compact_put"} /\ attempt + 1 < PutAttempts THEN l
    ELSE IF l \in {"upload", "put"} THEN "failed"
    ELSE IF l = "compact_put" THEN "compacted"
    ELSE IF l = "drain_put" THEN "drain_error"
    ELSE "flushed"

AfterAnswer(l) ==
    IF l = "upload" THEN "put"
    ELSE IF l = "put" THEN "evict"
    ELSE IF l = "compact_put" THEN "compacted"
    ELSE IF l = "drain_put" THEN "iterated"
    ELSE "flushed"

\* The circuit is open: the call fails at once.
CallRefused(f) ==
    /\ Asking(f) /\ Refuses
    /\ Goto(f, AfterError(pc[f])) /\ attempt' = attempt + 1
    /\ UNCHANGED <<breakerVars, blockVars, lock, schedVars, notified, stop, drainVars, worldVars, fate>>

CallReturns(f) ==
    /\ f \in sent /\ Answered(f)
    /\ \E l \in DOMAIN InFlight :
          /\ pc[f] = InFlight[l]
          /\ IF fate[f]
             THEN Goto(f, AfterAnswer(l)) /\ attempt' = 0
             ELSE Goto(f, AfterError(l)) /\ attempt' = attempt + 1
    /\ UNCHANGED <<blockVars, lock, schedVars, notified, stop, drainVars, worldVars>>

\* If-Match fails: flush_packs undoes the claim, and the scheduler stops.
Conflict(f) ==
    /\ "conflict" \in events /\ fate[f]
    /\ pc[f] \in {"putting", "compact_putting", "drain_putting", "monitor_putting"}
    /\ RecordSuccess(f)
    /\ Goto(f, CASE pc[f] = "putting" -> "conflict"
                 [] pc[f] = "compact_putting" -> "exit"
                 [] pc[f] = "drain_putting" -> "drain_error"
                 [] pc[f] = "monitor_putting" -> "flushed")
    /\ UNCHANGED <<blockVars, lock, attempt, schedVars, notified, stop, drainVars, worldVars, fate>>

\* MUTANT of Undo: the error path forgets the blocks it had claimed.
UndoForgotten == UNCHANGED st /\ rotation' = FALSE

\* The error path of flush_dirty_inner.
Undo ==
    /\ st' = [b \in Blocks |-> IF st[b] = "syncing" THEN "dirty" ELSE st[b]]
    /\ rotation' = FALSE

\* Eviction, the cycle's checkpoint and the end of the flushing file.
Evict(f) ==
    /\ pc[f] = "evict"
    /\ st' = [b \in Blocks |-> IF st[b] = "syncing" THEN "clean" ELSE st[b]]
    /\ owed' = owed \ Syncing
    /\ rotation' = FALSE
    /\ Goto(f, CASE f = "sched" -> "succeeded" [] f = "monitor" -> "monitor_put" [] f = "drain" -> "iterated")
    /\ UNCHANGED <<breakerVars, gaveBack, left, dropped, lock, attempt, schedVars, notified, stop, drainVars,
                   worldVars, fate>>

\* The future of flusher f is dropped wherever it waits: its request will not be
\* recorded, the locks it held are released, and nothing else is undone.
Dropped(f) ==
    /\ IF f \in sent
       THEN Abandon(f) /\ fate' = [fate EXCEPT ![f] = TRUE]
       ELSE UNCHANGED <<breakerVars, fate>>
    /\ lock' = IF lock = f THEN Free ELSE lock
    /\ left' = IF pc[f] \in Working THEN Syncing ELSE left
    /\ dropped' = (dropped \/ pc[f] \in Working)
    /\ UNCHANGED <<st, rotation, gaveBack>>

-----------------------------------------------------------------------------
(* The scheduler task.                                                     *)

\* Recovered dirty blocks arm the timer and, unless the export is flushed
\* manually, notify.
SchedStart ==
    /\ pc["sched"] = "start" /\ Goto("sched", "select")
    /\ timer' = (Dirty # {})
    /\ notified' = (notified \/ (Dirty # {} /\ FlushThreshold > 0))
    /\ UNCHANGED <<breakerVars, blockVars, lock, attempt, branch, backoff, waited, panics, stop,
                   drainVars, worldVars, fate>>

\* Shutdown comes first in select!, and interrupts the backoff and the wait for
\* a permit of the flush semaphore.
SchedStops ==
    /\ pc["sched"] \in {"select", "backoff", "permit", "down"} /\ stop
    /\ Goto("sched", "exited")
    /\ UNCHANGED <<breakerVars, blockVars, lock, attempt, schedVars, notified, stop, drainVars,
                   worldVars, fate>>

OnNotify ==
    /\ pc["sched"] = "select" /\ ~stop /\ notified
    /\ notified' = FALSE /\ timer' = TRUE /\ branch' = "notify"
    /\ Goto("sched", IF backoff > 0 THEN "backoff" ELSE "permit")
    /\ UNCHANGED <<breakerVars, blockVars, lock, attempt, backoff, waited, panics, stop, drainVars,
                   worldVars, fate>>

\* The sleep is over; then a permit of flush_semaphore.
SchedProceeds ==
    /\ pc["sched"] \in {"backoff", "permit"} /\ ~stop
    /\ Goto("sched", IF pc["sched"] = "backoff" THEN "permit" ELSE "lock")
    /\ UNCHANGED <<breakerVars, blockVars, lock, attempt, schedVars, notified, stop, drainVars,
                   worldVars, fate>>

\* last_flush_failure.elapsed() >= flush_backoff from here on.
BackoffElapses ==
    /\ backoff > 0 /\ ~waited /\ waited' = TRUE
    /\ UNCHANGED <<breakerVars, blockVars, lock, pc, attempt, branch, backoff, timer, panics, notified,
                   stop, drainVars, worldVars, fate>>

\* The checkpoint timer fires: a failed flush is retried once its backoff has
\* elapsed; the checkpoint itself changes nothing here.
OnTimer ==
    /\ pc["sched"] = "select" /\ ~stop /\ ~notified /\ timer
    /\ branch' = "timer"
    /\ Goto("sched", IF Dirty # {} /\ backoff > 0 /\ waited THEN "lock" ELSE "rearm")
    /\ UNCHANGED <<breakerVars, blockVars, lock, attempt, backoff, waited, timer, panics, notified, stop,
                   drainVars, worldVars, fate>>

Rearm ==
    /\ pc["sched"] = "rearm" /\ Goto("sched", "select")
    /\ timer' = (Dirty # {})
    /\ UNCHANGED <<breakerVars, blockVars, lock, attempt, branch, backoff, waited, panics, notified, stop,
                   drainVars, worldVars, fate>>

BackToSelect == IF branch = "timer" THEN "rearm" ELSE "select"

\* flush_and_sync returns: Ok resets the backoff, also when nothing was done;
\* an error extends it.  Packs are looked at by compaction in the notify branch.
SchedFlushed ==
    /\ pc["sched"] \in {"nothing", "succeeded"}
    /\ backoff' = 0 /\ waited' = FALSE /\ lock' = Free
    /\ Goto("sched", IF pc["sched"] = "succeeded" /\ branch = "notify" THEN "compact" ELSE BackToSelect)
    /\ UNCHANGED <<breakerVars, blockVars, attempt, branch, timer, panics, notified, stop, drainVars,
                   worldVars, fate>>

SchedFailed ==
    /\ pc["sched"] = "failed" /\ Undo
    /\ backoff' = IF backoff < MaxBackoff THEN backoff + 1 ELSE backoff
    /\ waited' = FALSE /\ lock' = Free
    /\ Goto("sched", BackToSelect)
    /\ UNCHANGED <<breakerVars, historyVars, attempt, branch, timer, panics, notified, stop, drainVars,
                   worldVars, fate>>

SchedConflict ==
    /\ pc["sched"] \in {"conflict", "exit"}
    /\ IF pc["sched"] = "conflict" THEN Undo ELSE UNCHANGED <<st, rotation>>
    /\ lock' = Free /\ Goto("sched", "exited")
    /\ UNCHANGED <<breakerVars, historyVars, attempt, schedVars, notified, stop, drainVars, worldVars, fate>>

\* compact_if_needed has nothing to do or fails, or it has changed the manifest
\* in memory, which is then put under flush_lock.
Compact ==
    /\ pc["sched"] = "compact"
    /\ \/ Goto("sched", "select")
       \/ "compaction" \in events /\ Goto("sched", "compact_lock")
    /\ UNCHANGED <<breakerVars, blockVars, lock, attempt, schedVars, notified, stop, drainVars,
                   worldVars, fate>>

CompactLock ==
    /\ pc["sched"] = "compact_lock" /\ lock = Free
    /\ lock' = "sched" /\ attempt' = 0 /\ Goto("sched", "compact_put")
    /\ UNCHANGED <<breakerVars, blockVars, schedVars, notified, stop, drainVars, worldVars, fate>>

Compacted ==
    /\ pc["sched"] = "compacted"
    /\ lock' = Free /\ Goto("sched", "select")
    /\ UNCHANGED <<breakerVars, blockVars, attempt, schedVars, notified, stop, drainVars, worldVars, fate>>

\* run_supervisor_loop: a panic ends the task wherever it is, in a flush too; it is
\* started again until there were too many in a row.
Panic ==
    /\ "panic" \in events /\ pc["sched"] \notin {"down", "exited"} /\ panics < MaxPanics
    /\ Dropped("sched")
    /\ panics' = panics + 1
    /\ Goto("sched", IF panics' = MaxPanics THEN "exited" ELSE "down")
    /\ UNCHANGED <<owed, attempt, branch, backoff, waited, timer, notified, stop, drainVars, worldVars>>

Restart ==
    /\ pc["sched"] = "down" /\ ~stop
    /\ Goto("sched", "start")
    /\ backoff' = 0 /\ waited' = FALSE /\ timer' = FALSE /\ branch' = "notify"
    /\ UNCHANGED <<breakerVars, blockVars, lock, attempt, panics, notified, stop, drainVars,
                   worldVars, fate>>

-----------------------------------------------------------------------------
(* The capacity monitor.                                                   *)

\* Escalated, and the export is among the dirtiest: flush, unless someone
\* holds flush_lock.
PressureFlush ==
    /\ "pressure" \in events /\ pc["monitor"] = "idle" /\ Dirty # {} /\ lock = Free
    /\ lock' = "monitor" /\ Goto("monitor", "claim")
    /\ UNCHANGED <<breakerVars, blockVars, attempt, schedVars, notified, stop, drainVars, worldVars, fate>>

PressureDone ==
    /\ pc["monitor"] \in {"nothing", "flushed", "failed", "conflict"}
    /\ IF pc["monitor"] \in {"failed", "conflict"}
       THEN Undo /\ gaveBack' = TRUE ELSE UNCHANGED <<st, rotation, gaveBack>>
    /\ lock' = Free /\ Goto("monitor", "idle")
    /\ UNCHANGED <<breakerVars, owed, left, dropped, attempt, schedVars, notified, stop, drainVars, worldVars,
                   fate>>

\* tokio::time::timeout drops the future.
PressureTimeout ==
    /\ "pressure_timeout" \in events /\ pc["monitor"] # "idle"
    /\ Dropped("monitor") /\ Goto("monitor", "idle")
    /\ UNCHANGED <<owed, attempt, schedVars, notified, stop, drainVars, worldVars>>

-----------------------------------------------------------------------------
(* drain_export, and the drain of teardown_export.                         *)

DrainStart ==
    /\ "drain" \in events /\ pc["drain"] = "idle" /\ ~stop
    /\ Goto("drain", "lock") /\ owed' = {b \in Blocks : st[b] # "clean"}
    /\ claimed' = FALSE /\ iterations' = 0
    /\ UNCHANGED <<breakerVars, st, rotation, gaveBack, left, dropped, lock, attempt, schedVars, notified, stop,
                   worldVars, fate>>

\* hyper drops the handler of a request whose client has gone: drain_export, or
\* the removal, ends where it is.  The client may ask again.
DrainDropped ==
    /\ "disconnect" \in events /\ pc["drain"] \notin {"idle", "ok", "error"}
    /\ Dropped("drain") /\ Goto("drain", "idle")
    /\ owed' = {} /\ claimed' = FALSE /\ iterations' = 0
    /\ UNCHANGED <<attempt, schedVars, notified, stop, worldVars>>

\* The device is gone; the scheduler is told to stop and waited for.
Teardown ==
    /\ "teardown" \in events /\ pc["drain"] \in {"idle", "ok", "error"} /\ ~stop
    /\ stop' = TRUE /\ Goto("drain", "await") /\ owed' = {b \in Blocks : st[b] # "clean"}
    /\ writes' = MaxWrites
    /\ claimed' = FALSE /\ iterations' = 0
    /\ UNCHANGED <<breakerVars, st, rotation, gaveBack, left, dropped, lock, attempt, schedVars, notified, s3up,
                   outages, events, fate>>

SchedulerGone ==
    /\ pc["drain"] = "await" /\ pc["sched"] = "exited"
    /\ Goto("drain", "lock")
    /\ UNCHANGED <<breakerVars, blockVars, lock, attempt, schedVars, notified, stop, drainVars,
                   worldVars, fate>>

\* flush_to_s3 puts the manifest also when there was nothing to flush.
DrainNothing ==
    /\ pc["drain"] = "nothing" /\ Goto("drain", "drain_put")
    /\ UNCHANGED <<breakerVars, blockVars, lock, attempt, schedVars, notified, stop, drainVars,
                   worldVars, fate>>

DrainIterated ==
    /\ pc["drain"] = "iterated" /\ lock' = Free /\ Goto("drain", "check")
    /\ UNCHANGED <<breakerVars, blockVars, attempt, schedVars, notified, stop, drainVars, worldVars, fate>>

\* Done when the last iteration claimed nothing and no block is dirty.
DrainCheck ==
    /\ pc["drain"] = "check"
    /\ IF ~claimed /\ Dirty = {}
       THEN Goto("drain", "ok") /\ UNCHANGED drainVars
       ELSE /\ claimed' = FALSE /\ iterations' = iterations + 1
            /\ Goto("drain", IF iterations' = DrainIterations THEN "error" ELSE "lock")
    /\ UNCHANGED <<breakerVars, blockVars, lock, attempt, schedVars, notified, stop, worldVars, fate>>

\* MUTANT of DrainFailed: an error does not count as an iteration.
DrainFailedForEver ==
    /\ pc["drain"] \in {"failed", "conflict", "drain_error"}
    /\ IF pc["drain"] = "drain_error"
       THEN UNCHANGED <<st, rotation, gaveBack>> ELSE Undo /\ gaveBack' = TRUE
    /\ lock' = Free /\ claimed' = FALSE
    /\ Goto("drain", IF stop THEN "lock" ELSE "error")
    /\ UNCHANGED <<breakerVars, owed, left, dropped, attempt, schedVars, notified, stop, iterations, worldVars,
                   fate>>

\* A drain reports the error; the teardown's goes on to its next iteration.
DrainFailed ==
    /\ pc["drain"] \in {"failed", "conflict", "drain_error"}
    /\ IF pc["drain"] = "drain_error"
       THEN UNCHANGED <<st, rotation, gaveBack>> ELSE Undo /\ gaveBack' = TRUE
    /\ lock' = Free /\ claimed' = FALSE
    /\ iterations' = IF stop THEN iterations + 1 ELSE iterations
    /\ Goto("drain", IF stop /\ iterations' < DrainIterations THEN "lock" ELSE "error")
    /\ UNCHANGED <<breakerVars, owed, left, dropped, attempt, schedVars, notified, stop, worldVars, fate>>

-----------------------------------------------------------------------------
FlushSteps(f) ==
    TakeLock(f) \/ Claim(f) \/ Call(f) \/ CallRefused(f) \/ CallReturns(f) \/ Conflict(f) \/ Evict(f)

SchedSteps ==
    \/ SchedStart \/ SchedStops \/ OnNotify \/ SchedProceeds \/ OnTimer \/ Rearm
    \/ SchedFlushed \/ SchedFailed \/ SchedConflict \/ Compact \/ CompactLock \/ Compacted \/ Restart

DrainSteps == SchedulerGone \/ DrainNothing \/ DrainIterated \/ DrainCheck \/ DrainFailed

Next ==
    \/ \E b \in Blocks : Write(b)
    \/ Outage \/ Recovery \/ Timeout \/ ResetTimeout
    \/ \E c \in Callers \ Flushers : ReaderSends(c) \/ ReaderReturns(c) \/ ReaderLost(c)
    \/ \E f \in Flushers : FlushSteps(f)
    \/ SchedSteps \/ BackoffElapses \/ Panic
    \/ PressureFlush \/ PressureDone \/ PressureTimeout
    \/ DrainStart \/ DrainDropped \/ Teardown \/ DrainSteps

Spec == Init /\ [][Next]_vars

\* Tasks are polled, sleeps end, requests are answered and an outage of S3 ends.
\* flush_lock is tokio's fair mutex.
Fairness ==
    /\ WF_vars(Recovery) /\ WF_vars(Timeout) /\ WF_vars(ResetTimeout)
    /\ WF_vars(\E c \in Callers \ Flushers : ReaderReturns(c))
    /\ WF_vars(SchedSteps) /\ WF_vars(BackoffElapses)
    /\ \A f \in Flushers : WF_vars(FlushSteps(f)) /\ SF_vars(TakeLock(f))
    /\ SF_vars(CompactLock) /\ WF_vars(PressureDone) /\ WF_vars(DrainSteps)

FairSpec == Spec /\ Fairness

-----------------------------------------------------------------------------
\* A block marked SYNCING belongs to a flush that is under way: nothing else
\* ever makes it dirty or clean again, and while it stays no flush can rotate.
\* flush_scheduler, pressure_flush, drain and teardown, their errors, conflicts
\* and retries all give back or evict what they claimed, and none takes what
\* another has.  The only blocks that stay SYNCING are those of a flush that was
\* dropped half-way, by a panic, the monitor's timeout or a client that left,
\* and only until the guest writes them again.
NoStrandedSyncing ==
    Syncing \subseteq left \/ (lock # Free /\ pc[lock] \in Working)

\* drain_export returns Ok only when every block that was dirty or being
\* flushed when it was called has reached S3, whoever flushed it, unless a flush
\* of the export was dropped half-way: what it left SYNCING no drain sees.
DrainCovers == pc["drain"] = "ok" /\ ~dropped => owed = {}

Stopped == pc["sched"] = "exited" \/ stop

\* Nothing is left for the scheduler to flush.
Flushed == Cardinality(Dirty) < FlushThreshold /\ Syncing = {}

\* flush_scheduler.rs at the timer branch: "This ensures dirty blocks eventually
\* reach S3 even if no new writes trigger flush_notify (liveness after S3
\* recovery)".  Enough dirty blocks are flushed although S3 fails, the circuit
\* opens, and no write comes after.
DirtyReachesS3 == []<>(Flushed \/ Stopped)

\* What keeps the scheduler from it: a drain or pressure flush that fails leaves its
\* blocks to the next write, a flush dropped half-way stops all the later ones, and
\* a half-open circuit whose permits all went to lost calls refuses every flush.
Hindered == gaveBack \/ dropped \/ ~HalfOpenCanLeave

\* teardown_export has begun and not returned.
Removing == stop /\ pc["drain"] \notin {"ok", "error", "idle"}

\* Every block a flush took is given back or in S3, and a drain that reports
\* success has seen all of them there, as long as no flush is dropped half-way.
FlushesAccounted == NoStrandedSyncing /\ DrainCovers

\* Neither a failed flush nor a removal waits for ever.  Where the scheduler is the
\* one whose flush failed, its own backoff and timer, the breaker's reset and the
\* supervisor's restart never lose a retry.  teardown_export waits for the scheduler
\* and bounds its drain, so removing an export ends whatever S3 does.
SchedulerProgress == []<>((Flushed \/ Stopped \/ Hindered) /\ ~Removing)
=============================================================================
