------------------------ MODULE FlushSchedulerProofs ------------------------
(***************************************************************************)
(* The flushers of an export share flush_lock, the blocks they mark        *)
(* SYNCING and the circuit breaker.  For any number of blocks, callers,    *)
(* retries, panics, outages and scenarios: the breaker sees nothing but    *)
(* its own operations, no block stays SYNCING without a flush that will    *)
(* evict it or give it back, and a drain that succeeds has covered what it *)
(* began with.                                                             *)
(***************************************************************************)
EXTENDS FlushScheduler, FiniteSetTheorems, TLAPS

\* A leaf goes to Zenon; the leaves with arithmetic or sequences go to the SMT solver.
USE ZenonT(60)

-----------------------------------------------------------------------------
(* The breaker.                                                            *)

\* A half-open circuit's permits are accounted for, for any number of callers and
\* permits and any threshold.
BreakerInv == BreakerTypeOK /\ PermitsAccounted

\* The probes in flight are finitely many, and a caller that joins or leaves
\* them changes their number by one.
LEMMA ProbeCount ==
    ASSUME BreakerTypeOK, NEW c \in Callers
    PROVE  /\ IsFiniteSet(probes) /\ Cardinality(probes) \in Nat
           /\ c \notin probes => Cardinality(probes \cup {c}) = Cardinality(probes) + 1
           /\ c \in probes => Cardinality(probes \ {c}) = Cardinality(probes) - 1
           /\ c \notin probes => probes \ {c} = probes
<1>1. IsFiniteSet(probes)
  BY CallersAssumption, FS_Subset DEF BreakerTypeOK
<1>2. Cardinality(probes) \in Nat
  BY <1>1, FS_CardinalityType
<1>3. c \notin probes => Cardinality(probes \cup {c}) = Cardinality(probes) + 1
  BY <1>1, FS_AddElement
<1>4. c \in probes => Cardinality(probes \ {c}) = Cardinality(probes) - 1
  BY <1>1, FS_RemoveElement
<1> QED
  BY <1>1, <1>2, <1>3, <1>4

\* CircuitBreaker::new starts closed.
LEMMA BreakerInitial == BreakerInit => BreakerInv
<1> SUFFICES ASSUME BreakerInit PROVE BreakerInv
  OBVIOUS
<1>1. cooled \in BOOLEAN
  BY DEF BreakerInit
<1>2. /\ circuit = "closed" /\ failures = 0 /\ permits = 0 /\ abandoned = 0
      /\ sent = {} /\ probes = {}
  BY DEF BreakerInit
<1> QED
  BY SMTT(60), <1>1, <1>2, BreakerAssumption
  DEF BreakerInv, BreakerTypeOK, PermitsAccounted

\* Every operation keeps the shape of the state word and the sets of callers.
LEMMA BreakerTypeStep ==
    ASSUME BreakerTypeOK, [BreakerNext]_breakerVars
    PROVE  BreakerTypeOK'
<1> USE BreakerAssumption
<1>1. CASE Elapse
  BY <1>1 DEF Elapse, BreakerTypeOK, callVars
<1>2. CASE ToHalfOpen
  <2>1. cooled' \in BOOLEAN
    BY <1>2 DEF ToHalfOpen
  <2>2. /\ circuit' = "half_open" /\ permits' = HalfOpenPermits /\ failures' = 0
        /\ probes' = {} /\ abandoned' = 0 /\ sent' = sent
    BY <1>2 DEF ToHalfOpen
  <2> QED
    BY SMTT(60), <2>1, <2>2 DEF BreakerTypeOK
<1>3. ASSUME NEW c \in Callers, Admit(c)
      PROVE  BreakerTypeOK'
  BY SMTT(60), <1>3 DEF Admit, BreakerTypeOK
<1>4. ASSUME NEW c \in Callers, RecordSuccess(c)
      PROVE  BreakerTypeOK'
  BY SMTT(60), <1>4 DEF RecordSuccess, Returns, BreakerTypeOK
<1>5. ASSUME NEW c \in Callers, RecordFailure(c)
      PROVE  BreakerTypeOK'
  <2>1. cooled' \in BOOLEAN
    BY <1>5 DEF RecordFailure, BreakerTypeOK, stateWord
  <2>2. /\ sent' \subseteq Callers /\ probes' \subseteq sent' /\ abandoned' = abandoned
        /\ \/ circuit' = circuit /\ permits' = permits /\ failures' = failures
           \/ circuit' = circuit /\ permits' = permits /\ failures' = failures + 1 /\ failures' < Threshold
           \/ circuit' = "open" /\ permits' = 0 /\ failures' = 0
    BY <1>5 DEF RecordFailure, Returns, BreakerTypeOK, stateWord
  <2> QED
    BY SMTT(60), <2>1, <2>2 DEF BreakerTypeOK
<1>6. ASSUME NEW c \in Callers, Abandon(c)
      PROVE  BreakerTypeOK'
  BY SMTT(60), <1>6 DEF Abandon, Returns, BreakerTypeOK, stateWord
<1>7. CASE UNCHANGED breakerVars
  BY <1>7 DEF breakerVars, stateWord, callVars, BreakerTypeOK
<1> QED
  BY <1>1, <1>2, <1>3, <1>4, <1>5, <1>6, <1>7 DEF BreakerNext

\* Every operation keeps the account of the permits.
LEMMA PermitsStep ==
    ASSUME BreakerInv, [BreakerNext]_breakerVars
    PROVE  PermitsAccounted'
<1> USE BreakerAssumption DEF BreakerInv
<1>1. CASE Elapse
  BY <1>1 DEF Elapse, PermitsAccounted, callVars
<1>2. CASE ToHalfOpen
  BY SMTT(60), <1>2, FS_EmptySet DEF ToHalfOpen, PermitsAccounted
<1>3. ASSUME NEW c \in Callers, Admit(c)
      PROVE  PermitsAccounted'
  <2>1. c \notin probes
    BY <1>3 DEF Admit, BreakerTypeOK
  <2> QED
    BY SMTT(60), <1>3, <2>1, ProbeCount DEF Admit, PermitsAccounted, BreakerTypeOK
<1>4. ASSUME NEW c \in Callers, RecordSuccess(c)
      PROVE  PermitsAccounted'
  BY <1>4 DEF RecordSuccess, PermitsAccounted
<1>5. ASSUME NEW c \in Callers, RecordFailure(c)
      PROVE  PermitsAccounted'
  BY <1>5 DEF RecordFailure, PermitsAccounted, stateWord, BreakerTypeOK
<1>6. ASSUME NEW c \in Callers, Abandon(c)
      PROVE  PermitsAccounted'
  BY SMTT(60), <1>6, ProbeCount DEF Abandon, Returns, PermitsAccounted, stateWord, BreakerTypeOK
<1>7. CASE UNCHANGED breakerVars
  BY <1>7 DEF breakerVars, stateWord, callVars, PermitsAccounted
<1> QED
  BY <1>1, <1>2, <1>3, <1>4, <1>5, <1>6, <1>7 DEF BreakerNext

\* circuit_breaker.rs: whatever the order of late answers, refusals, resets and
\* calls that record nothing, a permit of a half-open circuit is never taken twice
\* and never lost but with such a call.
THEOREM PermitsKept == BreakerSpec => []PermitsAccounted
<1>1. BreakerInv /\ [BreakerNext]_breakerVars => BreakerInv'
  BY BreakerTypeStep, PermitsStep DEF BreakerInv
<1>2. BreakerInv => PermitsAccounted
  BY DEF BreakerInv
<1> QED
  BY <1>1, <1>2, BreakerInitial, PTL DEF BreakerSpec

\* Every handler of the scheduler, the monitor, a drain or a reader leaves the
\* breaker alone or is one call of allow() or record() by a caller.
LEMMA BreakerStep == [Next]_vars => [BreakerNext]_breakerVars
<1> SUFFICES ASSUME [Next]_vars PROVE [BreakerNext]_breakerVars
  OBVIOUS
<1>c. \A f \in Flushers : f \in Callers
  BY FlushersCall
<1>1. ASSUME NEW c \in Callers, Admit(c) \/ RecordSuccess(c) \/ RecordFailure(c) \/ Abandon(c)
      PROVE  BreakerNext
  BY <1>1 DEF BreakerNext
<1>2. ASSUME NEW c \in Callers, Answered(c)
      PROVE  BreakerNext
  <2>1. CASE fate[c]
    BY <1>1, <1>2, <2>1 DEF Answered
  <2>2. CASE ~fate[c]
    BY <1>1, <1>2, <2>2 DEF Answered
  <2> QED
    BY <2>1, <2>2
<1>3. CASE Timeout
  BY <1>3 DEF Timeout, BreakerNext
<1>4. CASE ResetTimeout
  BY <1>4 DEF ResetTimeout, BreakerNext
<1>5. ASSUME NEW c \in Callers \ Flushers, ReaderSends(c) \/ ReaderReturns(c) \/ ReaderLost(c)
      PROVE  BreakerNext
  BY <1>5, <1>1, <1>2 DEF ReaderSends, ReaderReturns, ReaderLost, Send
<1>6. ASSUME NEW f \in Flushers, FlushSteps(f)
      PROVE  BreakerNext \/ UNCHANGED breakerVars
  <2>1. CASE TakeLock(f) \/ Claim(f) \/ CallRefused(f) \/ Evict(f)
    BY <2>1 DEF TakeLock, Claim, CallRefused, Evict
  <2>2. CASE Call(f)
    BY <2>2, <1>1, <1>c DEF Call, Send
  <2>3. CASE CallReturns(f)
    BY <2>3, <1>2, <1>c DEF CallReturns
  <2>4. CASE Conflict(f)
    BY <2>4, <1>1, <1>c DEF Conflict
  <2> QED
    BY <1>6, <2>1, <2>2, <2>3, <2>4 DEF FlushSteps
<1>7. CASE Panic \/ PressureTimeout \/ DrainDropped
  <2>1. \E f \in Flushers : Dropped(f)
    BY <1>7 DEF Panic, PressureTimeout, DrainDropped, Flushers
  <2>2. PICK f \in Flushers : Dropped(f)
    BY <2>1
  <2>3. CASE f \in sent
    BY <1>1, <1>c, <2>2, <2>3 DEF Dropped
  <2>4. CASE f \notin sent
    BY <2>2, <2>4 DEF Dropped
  <2> QED
    BY <2>3, <2>4
<1>8. CASE \/ \E b \in Blocks : Write(b)
           \/ Outage \/ Recovery \/ SchedSteps \/ BackoffElapses
           \/ PressureFlush \/ PressureDone \/ DrainStart \/ Teardown \/ DrainSteps
  <2>1. CASE SchedSteps
    BY <2>1 DEF SchedSteps, SchedStart, SchedStops, OnNotify, SchedProceeds, OnTimer, Rearm, SchedFlushed,
         SchedFailed, SchedConflict, Compact, CompactLock, Compacted, Restart
  <2>2. CASE DrainSteps
    BY <2>2 DEF DrainSteps, SchedulerGone, DrainNothing, DrainIterated, DrainCheck, DrainFailed
  <2>3. CASE \/ \E b \in Blocks : Write(b)
             \/ Outage \/ Recovery \/ BackoffElapses
             \/ PressureFlush \/ PressureDone \/ DrainStart \/ Teardown
    BY <2>3 DEF Write, Outage, Recovery, BackoffElapses, PressureFlush, PressureDone, DrainStart, Teardown
  <2> QED
    BY <1>8, <2>1, <2>2, <2>3
<1>9. CASE UNCHANGED vars
  BY <1>9 DEF vars
<1> QED
  BY <1>3, <1>4, <1>5, <1>6, <1>7, <1>8, <1>9 DEF Next

\* The scheduler, the monitor, the drains and the guests' reads use the breaker as
\* circuit_breaker.rs means it to be used: what they do is a behaviour of
\* CircuitBreaker alone.
THEOREM SchedulerImplementsBreaker == Spec => BreakerSpec
<1>1. Init => BreakerInit
  BY DEF Init
<1> QED
  BY <1>1, BreakerStep, PTL DEF Spec, BreakerSpec

\* So the permits are accounted for in the composed system too, with the flushes
\* that panics, timeouts and clients that leave drop while a request is out.
THEOREM SchedulerKeepsPermits == Spec => []PermitsAccounted
BY SchedulerImplementsBreaker, PermitsKept, PTL

-----------------------------------------------------------------------------
(* The lock, the SYNCING blocks and the drain.                             *)

\* Where a flusher waits for S3, where it holds flush_lock, and where it does not.
Waiting == {"uploading", "putting", "compact_putting", "drain_putting", "monitor_putting"}
Holding == Working \cup Waiting \cup
           {"claim", "compact_put", "drain_put", "monitor_put", "nothing", "succeeded", "flushed",
            "compacted", "exit", "iterated", "drain_error"}
Outside == {"start", "idle", "select", "backoff", "permit", "lock", "rearm", "compact", "compact_lock", "down",
            "exited", "await", "check", "ok", "error"}
Labels == Holding \cup Outside

\* flush_lock is held exactly by the flusher that is between taking and releasing
\* it, and only a flusher that waits for S3 has a request out.
LockInv ==
    /\ pc \in [Flushers -> Labels] /\ lock \in Flushers \cup {Free}
    /\ \A f \in Flushers : pc[f] \in Holding <=> lock = f
    /\ \A f \in Flushers : f \in sent => pc[f] \in Waiting

\* What the drain still owes is not clean.  Unless a flush was dropped half-way,
\* no block is left SYNCING and a drain that found nothing to claim under the lock owes nothing.
DrainInv ==
    /\ st \in [Blocks -> {"clean", "dirty", "syncing"}]
    /\ owed \subseteq {b \in Blocks : st[b] # "clean"}
    /\ pc["drain"] \in {"upload", "uploading", "put", "putting", "evict"} => claimed
    /\ ~dropped =>
          /\ left = {}
          /\ pc["drain"] \in {"nothing", "drain_put", "drain_putting", "iterated", "check"} =>
                claimed \/ owed = {}
          /\ pc["drain"] = "ok" => owed = {}

FlushInv == LockInv /\ NoStrandedSyncing /\ DrainInv

\* A flusher moves to l: it stays inside or outside the lock, takes it when it is
\* free, or releases it; the others' requests and its own agree with where they wait.
Moves(f, l) ==
    /\ Goto(f, l)
    /\ \/ pc[f] \in Holding /\ l \in Holding /\ lock' = lock
       \/ pc[f] \notin Holding /\ l \notin Holding /\ lock' = lock
       \/ pc[f] \notin Holding /\ l \in Holding /\ lock = Free /\ lock' = f
       \/ pc[f] \in Holding /\ l \notin Holding /\ lock' = Free
    /\ \A g \in Flushers \ {f} : g \in sent' => g \in sent
    /\ f \in sent' => l \in Waiting

\* Such a move keeps the lock exclusive.
LEMMA LockMoves ==
    ASSUME LockInv, NEW f \in Flushers, NEW l \in Labels, Moves(f, l)
    PROVE  LockInv'
<1>1. /\ pc \in [Flushers -> Labels] /\ lock \in Flushers \cup {Free}
      /\ \A g \in Flushers : pc[g] \in Holding <=> lock = g
      /\ \A g \in Flushers : g \in sent => pc[g] \in Waiting
  BY DEF LockInv
<1>2. pc' = [pc EXCEPT ![f] = l]
  BY DEF Moves, Goto
<1>3. pc' \in [Flushers -> Labels] /\ pc'[f] = l /\ \A g \in Flushers \ {f} : pc'[g] = pc[g]
  BY <1>1, <1>2
<1>4. Free \notin Flushers
  BY DEF Free, Flushers
<1>5. lock' \in Flushers \cup {Free}
  BY <1>1 DEF Moves
<1>6. ASSUME NEW g \in Flushers
      PROVE  pc'[g] \in Holding <=> lock' = g
  <2>1. CASE g = f
    BY <1>1, <1>3, <1>4, <2>1 DEF Moves
  <2>2. CASE g # f
    <3>1. pc'[g] = pc[g] /\ (pc[g] \in Holding <=> lock = g)
      BY <2>2, <1>1, <1>3
    <3> QED
      BY <3>1, <2>2, <1>1, <1>4 DEF Moves
  <2> QED
    BY <2>1, <2>2
<1>7. ASSUME NEW g \in Flushers, g \in sent'
      PROVE  pc'[g] \in Waiting
  <2>1. CASE g = f
    BY <1>3, <1>7, <2>1 DEF Moves
  <2>2. CASE g # f
    BY <1>1, <1>3, <1>7, <2>2 DEF Moves
  <2> QED
    BY <2>1, <2>2
<1> QED
  BY <1>3, <1>5, <1>6, <1>7 DEF LockInv

\* A move that marks nothing SYNCING strands nothing, when a flusher that owns
\* claimed blocks stays where it owns them.
LEMMA StrandedMoves ==
    ASSUME LockInv, NoStrandedSyncing, NEW f \in Flushers, NEW l \in Labels, Moves(f, l),
           pc[f] \in Working => l \in Working,
           Syncing' \subseteq Syncing, left' = left
    PROVE  NoStrandedSyncing'
<1>2. CASE Syncing \subseteq left
  BY <1>2 DEF NoStrandedSyncing
<1>3. CASE lock # Free /\ pc[lock] \in Working
  <2>1. lock \in Flushers /\ pc \in [Flushers -> Labels]
    BY <1>3 DEF LockInv
  <2>2. pc' = [pc EXCEPT ![f] = l]
    BY DEF Moves, Goto
  <2>3. pc'[lock] \in Working
    BY <1>3, <2>1, <2>2
  <2>4. LockInv'
    BY LockMoves
  <2>5. lock' = lock
    BY <2>1, <2>3, <2>4 DEF LockInv, Holding
  <2> QED
    BY <1>3, <2>3, <2>5 DEF NoStrandedSyncing
<1> QED
  BY <1>2, <1>3 DEF NoStrandedSyncing

\* A step of someone else leaves the drain's account right, when the blocks that
\* become clean are no longer owed.
LEMMA DrainKept ==
    ASSUME DrainInv, pc'["drain"] = pc["drain"], claimed' <=> claimed,
           dropped => dropped', left' \subseteq left,
           st' \in [Blocks -> {"clean", "dirty", "syncing"}],
           owed' \subseteq {b \in owed : st'[b] # "clean"}
    PROVE  DrainInv'
<1>1. owed' \subseteq {b \in Blocks : st'[b] # "clean"}
  BY DEF DrainInv
<1>2. owed = {} => owed' = {}
  OBVIOUS
<1> QED
  BY <1>1, <1>2 DEF DrainInv

\* Steps that move no flusher: the outages of S3, the breaker's clock, the readers
\* and the scheduler's clock.
LEMMA QuietSteps ==
    ASSUME FlushInv, UNCHANGED <<pc, lock, claimed, owed, dropped>>,
           \A f \in Flushers : f \in sent' => f \in sent,
           st' \in [Blocks -> {"clean", "dirty", "syncing"}],
           left' \subseteq left,
           \A b \in Blocks : (st'[b] = st[b] /\ (b \in left => b \in left')) \/ st'[b] = "dirty"
    PROVE  FlushInv'
<1>1. LockInv'
  BY DEF FlushInv, LockInv
<1>2. Syncing' \subseteq Syncing /\ (Syncing \subseteq left => Syncing' \subseteq left')
  BY DEF Syncing
<1>3. NoStrandedSyncing'
  BY <1>2 DEF FlushInv, NoStrandedSyncing
<1>4. DrainInv'
  <2>1. DrainInv
    BY DEF FlushInv
  <2>2. owed' \subseteq {b \in owed : st'[b] # "clean"}
    BY <2>1 DEF DrainInv
  <2> QED
    BY <2>1, <2>2, DrainKept
<1> QED
  BY <1>1, <1>3, <1>4 DEF FlushInv

\* Where the drain goes agrees with what it claimed and what it owes.
DrainGoes(l) ==
    /\ l \in {"upload", "uploading", "put", "putting", "evict"} => claimed'
    /\ ~dropped =>
          /\ l \in {"nothing", "drain_put", "drain_putting", "iterated", "check"} => claimed' \/ owed = {}
          /\ l = "ok" => owed = {}

\* A move that changes no block.
LEMMA FlusherMoves ==
    ASSUME FlushInv, NEW f \in Flushers, NEW l \in Labels, Moves(f, l),
           pc[f] \in Working => l \in Working,
           UNCHANGED <<st, owed, left, dropped>>,
           IF f = "drain" THEN DrainGoes(l) ELSE claimed' = claimed
    PROVE  FlushInv'
<1>1. LockInv /\ NoStrandedSyncing /\ DrainInv
  BY DEF FlushInv
<1>2. LockInv'
  BY <1>1, LockMoves
<1>3. NoStrandedSyncing'
  <2>1. Syncing' = Syncing
    BY DEF Syncing
  <2> QED
    BY <1>1, <2>1, StrandedMoves
<1>4. pc' = [pc EXCEPT ![f] = l] /\ pc \in [Flushers -> Labels] /\ "drain" \in Flushers
  BY <1>1 DEF Moves, Goto, LockInv, Flushers
<1>5. DrainInv'
  <2>1. CASE f # "drain"
    <3>1. pc'["drain"] = pc["drain"]
      BY <1>4, <2>1
    <3>2. owed' \subseteq {b \in owed : st'[b] # "clean"} /\ st' \in [Blocks -> {"clean", "dirty", "syncing"}]
      BY <1>1 DEF DrainInv
    <3> QED
      BY <1>1, <2>1, <3>1, <3>2, DrainKept
  <2>2. CASE f = "drain"
    <3>1. pc'["drain"] = l /\ DrainGoes(l)
      BY <1>4, <2>2
    <3> QED
      BY <1>1, <3>1 DEF DrainInv, DrainGoes
  <2> QED
    BY <2>1, <2>2
<1> QED
  BY <1>2, <1>3, <1>5 DEF FlushInv

\* A flusher gives back what it claimed, or evicts it: nothing is SYNCING after,
\* and a block that became clean is no longer owed.
LEMMA NothingSyncing ==
    ASSUME FlushInv, NEW f \in Flushers, NEW l \in Labels, Moves(f, l),
           NEW s \in {"clean", "dirty"},
           st' = [b \in Blocks |-> IF st[b] = "syncing" THEN s ELSE st[b]],
           owed' = IF s = "clean" THEN owed \ Syncing ELSE owed, UNCHANGED <<left, dropped>>,
           IF f = "drain" THEN DrainGoes(l) ELSE claimed' = claimed
    PROVE  FlushInv'
<1>1. LockInv /\ NoStrandedSyncing /\ DrainInv
  BY DEF FlushInv
<1>2. LockInv'
  BY <1>1, LockMoves
<1>3. st \in [Blocks -> {"clean", "dirty", "syncing"}]
  BY <1>1 DEF DrainInv
<1>4. st' \in [Blocks -> {"clean", "dirty", "syncing"}]
  BY <1>3
<1>5. NoStrandedSyncing'
  BY <1>3 DEF NoStrandedSyncing, Syncing
<1>6. owed' \subseteq {b \in owed : st'[b] # "clean"}
  <2>1. owed \subseteq {b \in Blocks : st[b] # "clean"}
    BY <1>1 DEF DrainInv
  <2>2. CASE s = "clean"
    BY <2>1, <2>2 DEF Syncing
  <2>3. CASE s = "dirty"
    BY <2>1, <2>3
  <2> QED
    BY <2>2, <2>3
<1>7. pc' = [pc EXCEPT ![f] = l] /\ pc \in [Flushers -> Labels] /\ "drain" \in Flushers
  BY <1>1 DEF Moves, Goto, LockInv, Flushers
<1>8. DrainInv'
  <2>1. CASE f # "drain"
    <3>1. pc'["drain"] = pc["drain"]
      BY <1>7, <2>1
    <3> QED
      BY <1>1, <1>4, <1>6, <2>1, <3>1, DrainKept
  <2>2. CASE f = "drain"
    <3>1. pc'["drain"] = l /\ DrainGoes(l)
      BY <1>7, <2>2
    <3>2. owed' \subseteq owed /\ owed' \subseteq {b \in Blocks : st'[b] # "clean"}
      BY <1>1, <1>6 DEF DrainInv
    <3>3. owed = {} => owed' = {}
      BY <3>2
    <3> QED
      BY <1>1, <1>4, <3>1, <3>2, <3>3 DEF DrainInv, DrainGoes
  <2> QED
    BY <2>1, <2>2
<1> QED
  BY <1>2, <1>5, <1>8 DEF FlushInv

\* The requests of the other flushers are as they were.
LEMMA RequestsKept ==
    ASSUME LockInv, NEW f \in Flushers, UNCHANGED sent, pc[f] \notin Waiting
    PROVE  (\A g \in Flushers \ {f} : g \in sent' => g \in sent) /\ f \notin sent'
BY DEF LockInv

Finished == {"nothing", "succeeded", "flushed", "compacted", "exit", "iterated", "drain_error"}

\* The labels outside the lock and inside it.
LEMMA OutsideLabels == \A l \in Outside : l \in Labels /\ l \notin Holding /\ l \notin Working /\ l \notin Waiting
<1>1. \A l \in Outside : l \in Labels
  BY DEF Labels
<1>2. \A l \in Outside : l \notin Holding /\ l \notin Working /\ l \notin Waiting
  BY SMTT(60) DEF Outside, Holding, Working, Waiting
<1> QED
  BY <1>1, <1>2

\* Those where a flusher is about to release it and owns no claimed blocks.
LEMMA FinishedLabels == \A l \in Finished : l \in Holding /\ l \notin Working /\ l \notin Waiting
BY SMTT(60) DEF Finished, Holding, Working, Waiting

\* A flusher that does not hold flush_lock, and waits for nothing, goes where it
\* does not hold it either.
LEMMA OutsideMoves ==
    ASSUME FlushInv, NEW f \in Flushers, NEW l \in Outside, Goto(f, l), pc[f] \in Outside,
           UNCHANGED <<st, owed, left, dropped, lock, sent>>,
           IF f = "drain" THEN DrainGoes(l) ELSE claimed' = claimed
    PROVE  FlushInv'
<1>1. l \in Labels /\ l \notin Holding /\ pc[f] \notin Holding /\ pc[f] \notin Working /\ pc[f] \notin Waiting
  BY OutsideLabels
<1>2. LockInv
  BY DEF FlushInv
<1>3. Moves(f, l)
  BY <1>1, <1>2, RequestsKept DEF Moves
<1> QED
  BY <1>1, <1>3, FlusherMoves

\* A flusher takes flush_lock.
LEMMA EntersLock ==
    ASSUME FlushInv, NEW f \in Flushers, NEW l \in {"claim", "compact_put"}, Goto(f, l), pc[f] \in Outside,
           lock = Free, lock' = f, UNCHANGED <<st, owed, left, dropped, sent>>,
           IF f = "drain" THEN DrainGoes(l) ELSE claimed' = claimed
    PROVE  FlushInv'
<1>1. l \in Labels /\ l \in Holding /\ pc[f] \notin Holding /\ pc[f] \notin Working /\ pc[f] \notin Waiting
  <2>1. l \in Labels /\ l \in Holding
    BY DEF Labels, Holding
  <2> QED
    BY <2>1, OutsideLabels
<1>2. LockInv
  BY DEF FlushInv
<1>3. Moves(f, l)
  BY <1>1, <1>2, RequestsKept DEF Moves
<1> QED
  BY <1>1, <1>3, FlusherMoves

\* A flusher that owns no claimed blocks releases flush_lock.
LEMMA LeavesLock ==
    ASSUME FlushInv, NEW f \in Flushers, NEW l \in Outside, Goto(f, l), pc[f] \in Finished,
           lock' = Free, UNCHANGED <<st, owed, left, dropped, sent>>,
           IF f = "drain" THEN DrainGoes(l) ELSE claimed' = claimed
    PROVE  FlushInv'
<1>1. l \in Labels /\ l \notin Holding /\ pc[f] \in Holding /\ pc[f] \notin Working /\ pc[f] \notin Waiting
  BY OutsideLabels, FinishedLabels
<1>2. LockInv
  BY DEF FlushInv
<1>3. Moves(f, l)
  BY <1>1, <1>2, RequestsKept DEF Moves
<1> QED
  BY <1>1, <1>3, FlusherMoves

\* A flusher gives its claim back and releases flush_lock.
LEMMA GivesBack ==
    ASSUME FlushInv, NEW f \in Flushers, NEW l \in Outside, Goto(f, l), pc[f] \in {"failed", "conflict"},
           Undo, lock' = Free, UNCHANGED <<owed, left, dropped, sent>>,
           IF f = "drain" THEN DrainGoes(l) ELSE claimed' = claimed
    PROVE  FlushInv'
<1>1. l \in Labels /\ l \notin Holding /\ pc[f] \in Holding /\ pc[f] \notin Waiting
  BY OutsideLabels DEF Holding, Working, Waiting
<1>2. LockInv
  BY DEF FlushInv
<1>3. Moves(f, l)
  BY <1>1, <1>2, RequestsKept DEF Moves
<1>4. st' = [b \in Blocks |-> IF st[b] = "syncing" THEN "dirty" ELSE st[b]]
  BY DEF Undo
<1>5. owed' = IF "dirty" = "clean" THEN owed \ Syncing ELSE owed
  OBVIOUS
<1> QED
  BY <1>1, <1>3, <1>4, <1>5, NothingSyncing

\* The scheduler task: waiting, flushing's end, compaction and the supervisor.
LEMMA SchedulerSteps ==
    ASSUME FlushInv, SchedSteps
    PROVE  FlushInv'
<1>s. "sched" \in Flushers /\ "sched" # "drain"
  BY DEF Flushers
<1>1. CASE SchedStart \/ SchedStops \/ OnNotify \/ SchedProceeds \/ OnTimer \/ Rearm \/ Compact \/ Restart
  <2>1. UNCHANGED <<st, owed, left, dropped, lock, sent, claimed>>
    BY <1>1 DEF SchedStart, SchedStops, OnNotify, SchedProceeds, OnTimer, Rearm, Compact, Restart,
         breakerVars, callVars, blockVars, historyVars, drainVars, worldVars
  <2>2. pc["sched"] \in Outside
    BY <1>1 DEF SchedStart, SchedStops, OnNotify, SchedProceeds, OnTimer, Rearm, Compact, Restart, Outside
  <2>3. \E l \in Outside : Goto("sched", l)
    <3>1. CASE SchedStart \/ SchedStops \/ Rearm \/ Compact \/ Restart
      BY <3>1 DEF SchedStart, SchedStops, Rearm, Compact, Restart, Outside
    <3>2. CASE OnNotify \/ SchedProceeds
      BY <3>2 DEF OnNotify, SchedProceeds, Outside
    <3>3. CASE OnTimer
      BY <3>3 DEF OnTimer, Outside
    <3> QED
      BY <1>1, <3>1, <3>2, <3>3
  <2> QED
    BY <1>s, <2>1, <2>2, <2>3, OutsideMoves
<1>2. CASE CompactLock
  <2>1. UNCHANGED <<st, owed, left, dropped, sent, claimed>>
    BY <1>2 DEF CompactLock, breakerVars, callVars, blockVars, historyVars, drainVars, worldVars
  <2>2. pc["sched"] \in Outside /\ lock = Free /\ lock' = "sched" /\ Goto("sched", "compact_put")
    BY <1>2 DEF CompactLock, Outside
  <2> QED
    BY <1>s, <2>1, <2>2, EntersLock
<1>3. CASE SchedFlushed \/ Compacted
  <2>1. UNCHANGED <<st, owed, left, dropped, sent, claimed>>
    BY <1>3 DEF SchedFlushed, Compacted, breakerVars, callVars, blockVars, historyVars, drainVars, worldVars
  <2>2. pc["sched"] \in Finished /\ lock' = Free
    BY <1>3 DEF SchedFlushed, Compacted, Finished
  <2>3. \E l \in Outside : Goto("sched", l)
    <3>1. CASE Compacted
      BY <3>1 DEF Compacted, Outside
    <3>2. CASE SchedFlushed
      BY <3>2 DEF SchedFlushed, BackToSelect, Outside
    <3> QED
      BY <1>3, <3>1, <3>2
  <2> QED
    BY <1>s, <2>1, <2>2, <2>3, LeavesLock
<1>4. CASE SchedFailed \/ SchedConflict
  <2>1. UNCHANGED <<owed, left, dropped, sent, claimed>> /\ lock' = Free
    BY <1>4 DEF SchedFailed, SchedConflict, breakerVars, callVars, blockVars, historyVars, drainVars, worldVars
  <2>2. \E l \in Outside : Goto("sched", l)
    BY <1>4 DEF SchedFailed, SchedConflict, BackToSelect, Outside
  <2>3. CASE pc["sched"] = "exit"
    <3>1. UNCHANGED st
      BY <1>4, <2>3 DEF SchedFailed, SchedConflict
    <3>2. pc["sched"] \in Finished
      BY <2>3 DEF Finished
    <3> QED
      BY <1>s, <2>1, <2>2, <3>1, <3>2, LeavesLock
  <2>4. CASE pc["sched"] # "exit"
    <3>1. Undo /\ pc["sched"] \in {"failed", "conflict"}
      BY <1>4, <2>4 DEF SchedFailed, SchedConflict
    <3> QED
      BY <1>s, <2>1, <2>2, <3>1, GivesBack
  <2> QED
    BY <2>3, <2>4
<1> QED
  BY <1>1, <1>2, <1>3, <1>4 DEF SchedSteps

-----------------------------------------------------------------------------
(* flush_packs.                                                            *)

\* Where the drain owns claimed blocks, and where it has found nothing to claim
\* or is done with what it claimed.
Owning == {"upload", "uploading", "put", "putting", "evict"}
Emptied == {"nothing", "drain_put", "drain_putting", "iterated", "check"}

\* From label k to label l the flusher keeps the lock and its share of the claim.
Onward(k, l) ==
    /\ k \in Holding /\ l \in Holding
    /\ k \in Working => l \in Working
    /\ l \in Owning => k \in Owning
    /\ l \in Emptied => k \in Emptied

\* The labels of a call: where it is made, where it is waited for, where an
\* answer and where an error lead.
LEMMA CallLabels ==
    ASSUME NEW l \in DOMAIN InFlight
    PROVE  /\ Onward(l, InFlight[l]) /\ InFlight[l] \in Waiting /\ l \notin Waiting
           /\ Onward(l, AfterError(l)) /\ Onward(InFlight[l], AfterError(l))
           /\ Onward(InFlight[l], AfterAnswer(l))
<1>1. l \in {"upload", "put", "compact_put", "drain_put", "monitor_put"}
  BY SMTT(60) DEF InFlight
<1>2. CASE l = "upload"
  <2>1. InFlight[l] = "uploading" /\ AfterError(l) = "failed" /\ AfterAnswer(l) = "put"
    BY <1>2, SMTT(60) DEF InFlight, AfterError, AfterAnswer
  <2> QED
    BY <1>2, <2>1 DEF Onward, Holding, Working, Waiting, Owning, Emptied
<1>3. CASE l = "put"
  <2>1. InFlight[l] = "putting" /\ AfterError(l) \in {"put", "failed"} /\ AfterAnswer(l) = "evict"
    BY <1>3, SMTT(60) DEF InFlight, AfterError, AfterAnswer
  <2> QED
    BY <1>3, <2>1 DEF Onward, Holding, Working, Waiting, Owning, Emptied
<1>4. CASE l = "compact_put"
  <2>1. InFlight[l] = "compact_putting" /\ AfterError(l) \in {"compact_put", "compacted"} /\ AfterAnswer(l) = "compacted"
    BY <1>4, SMTT(60) DEF InFlight, AfterError, AfterAnswer
  <2> QED
    BY <1>4, <2>1 DEF Onward, Holding, Working, Waiting, Owning, Emptied
<1>5. CASE l = "drain_put"
  <2>1. InFlight[l] = "drain_putting" /\ AfterError(l) = "drain_error" /\ AfterAnswer(l) = "iterated"
    BY <1>5, SMTT(60) DEF InFlight, AfterError, AfterAnswer
  <2> QED
    BY <1>5, <2>1 DEF Onward, Holding, Working, Waiting, Owning, Emptied
<1>6. CASE l = "monitor_put"
  <2>1. InFlight[l] = "monitor_putting" /\ AfterError(l) = "flushed" /\ AfterAnswer(l) = "flushed"
    BY <1>6, SMTT(60) DEF InFlight, AfterError, AfterAnswer
  <2> QED
    BY <1>6, <2>1 DEF Onward, Holding, Working, Waiting, Owning, Emptied
<1> QED
  BY <1>1, <1>2, <1>3, <1>4, <1>5, <1>6

\* A flusher goes on under flush_lock without touching a block.
LEMMA OnwardMoves ==
    ASSUME FlushInv, NEW f \in Flushers, NEW l, Onward(pc[f], l), Goto(f, l),
           UNCHANGED <<st, owed, left, dropped, claimed, lock>>,
           \A g \in Flushers \ {f} : g \in sent' => g \in sent,
           f \in sent' => l \in Waiting
    PROVE  FlushInv'
<1>1. l \in Labels /\ Moves(f, l)
  BY DEF Moves, Onward, Labels
<1>2. pc[f] \in Working => l \in Working
  BY DEF Onward
<1>3. ASSUME f = "drain" PROVE DrainGoes(l)
  <2>1. DrainInv
    BY DEF FlushInv
  <2>2. pc["drain"] # "idle" /\ l # "ok"
    <3>1. pc["drain"] \in Holding /\ l \in Holding
      BY <1>3 DEF Onward
    <3> QED
      BY <3>1, OutsideLabels DEF Outside
  <2>3. l \in Owning => claimed'
    BY <1>3, <2>1 DEF DrainInv, Onward, Owning
  <2>4. ~dropped /\ l \in Emptied => claimed' \/ owed = {}
    BY <1>3, <2>1 DEF DrainInv, Onward, Emptied
  <2> QED
    BY <2>1, <2>2, <2>3, <2>4 DEF DrainInv, DrainGoes, Owning, Emptied
<1> QED
  BY <1>1, <1>2, <1>3, FlusherMoves

\* A call to S3 goes out, is refused by the breaker, returns, or meets another
\* writer's manifest.
LEMMA CallSteps ==
    ASSUME FlushInv, NEW f \in Flushers, Call(f) \/ CallRefused(f) \/ CallReturns(f) \/ Conflict(f)
    PROVE  FlushInv'
<1>1. UNCHANGED <<st, owed, left, dropped, claimed, lock>>
  BY DEF Call, CallRefused, CallReturns, Conflict, blockVars, historyVars, drainVars, worldVars
<1>2. CASE Call(f)
  <2>1. pc[f] \in DOMAIN InFlight /\ Goto(f, InFlight[pc[f]]) /\ sent' = sent \cup {f}
    BY <1>2 DEF Call, Asking, Send, Admit
  <2> QED
    BY <1>1, <2>1, CallLabels, OnwardMoves
<1>3. CASE CallRefused(f)
  <2>1. pc[f] \in DOMAIN InFlight /\ Goto(f, AfterError(pc[f])) /\ sent' = sent
    BY <1>3 DEF CallRefused, Asking, breakerVars, callVars
  <2>2. LockInv /\ pc[f] \notin Waiting
    BY <2>1, CallLabels DEF FlushInv
  <2> QED
    BY <1>1, <2>1, <2>2, CallLabels, RequestsKept, OnwardMoves
<1>4. CASE CallReturns(f)
  <2>1. sent' = sent \ {f}
    <3>1. Answered(f)
      BY <1>4 DEF CallReturns
    <3>2. RecordSuccess(f) \/ RecordFailure(f)
      BY <3>1 DEF Answered
    <3> QED
      BY <3>2 DEF RecordSuccess, RecordFailure, Returns
  <2>2. PICK l \in DOMAIN InFlight : /\ pc[f] = InFlight[l]
                                     /\ Goto(f, AfterAnswer(l)) \/ Goto(f, AfterError(l))
    BY <1>4 DEF CallReturns
  <2>3. CASE Goto(f, AfterAnswer(l))
    BY <1>1, <2>1, <2>2, <2>3, CallLabels, OnwardMoves
  <2>4. CASE Goto(f, AfterError(l))
    BY <1>1, <2>1, <2>2, <2>4, CallLabels, OnwardMoves
  <2> QED
    BY <2>2, <2>3, <2>4
<1>5. CASE Conflict(f)
  <2>1. sent' = sent \ {f}
    BY <1>5 DEF Conflict, RecordSuccess, Returns
  <2>2. \E l : Onward(pc[f], l) /\ Goto(f, l)
    <3>1. CASE pc[f] = "putting"
      <4>1. Goto(f, "conflict") /\ Onward("putting", "conflict")
        BY <1>5, <3>1 DEF Conflict, Onward, Holding, Working, Waiting, Owning, Emptied
      <4> QED
        BY <3>1, <4>1
    <3>2. CASE pc[f] = "compact_putting"
      <4>1. Goto(f, "exit") /\ Onward("compact_putting", "exit")
        BY <1>5, <3>2 DEF Conflict, Onward, Holding, Working, Waiting, Owning, Emptied
      <4> QED
        BY <3>2, <4>1
    <3>3. CASE pc[f] = "drain_putting"
      <4>1. Goto(f, "drain_error") /\ Onward("drain_putting", "drain_error")
        BY <1>5, <3>3 DEF Conflict, Onward, Holding, Working, Waiting, Owning, Emptied
      <4> QED
        BY <3>3, <4>1
    <3>4. CASE pc[f] = "monitor_putting"
      <4>1. Goto(f, "flushed") /\ Onward("monitor_putting", "flushed")
        BY <1>5, <3>4 DEF Conflict, Onward, Holding, Working, Waiting, Owning, Emptied
      <4> QED
        BY <3>4, <4>1
    <3> QED
      BY <1>5, <3>1, <3>2, <3>3, <3>4 DEF Conflict
  <2> QED
    BY <1>1, <2>1, <2>2, OnwardMoves
<1> QED
  BY <1>2, <1>3, <1>4, <1>5

\* The flush takes the dirty blocks, or finds nothing it may take.  Found under
\* flush_lock, nothing dirty means nothing unflushed, unless a dropped flush left
\* blocks SYNCING.
LEMMA ClaimStep ==
    ASSUME FlushInv, NEW f \in Flushers, Claim(f)
    PROVE  FlushInv'
<1>1. UNCHANGED <<owed, dropped, lock, sent>> /\ pc[f] = "claim"
  BY DEF Claim, breakerVars, callVars, worldVars
<1>2. LockInv /\ NoStrandedSyncing /\ DrainInv
  BY DEF FlushInv
<1>3. "claim" \in Holding /\ "claim" \notin Working /\ "claim" \notin Waiting
  BY DEF Holding, Working, Waiting
<1>4. lock = f /\ f # Free
  BY <1>1, <1>2, <1>3 DEF LockInv, Flushers, Free
<1>5. Syncing \subseteq left
  BY <1>1, <1>2, <1>3, <1>4 DEF NoStrandedSyncing
<1>7. CASE (rotation /\ Syncing # {}) \/ Dirty = {}
  <2>1. Goto(f, "nothing") /\ UNCHANGED <<st, left, claimed>>
    BY <1>7 DEF Claim, drainVars
  <2>2. ~dropped => owed = {}
    <3> SUFFICES ASSUME ~dropped, NEW b \in owed PROVE FALSE
      OBVIOUS
    <3>1. Syncing = {} /\ Dirty = {}
      BY <1>2, <1>5, <1>7 DEF DrainInv
    <3>2. b \in Blocks /\ st[b] \in {"dirty", "syncing"}
      BY <1>2 DEF DrainInv
    <3> QED
      BY <3>1, <3>2 DEF Syncing, Dirty
  <2>3. "nothing" \in Labels /\ Moves(f, "nothing")
    BY <1>1, <1>2, <1>3, <2>1, RequestsKept DEF Moves, Holding, Labels
  <2>4. IF f = "drain" THEN DrainGoes("nothing") ELSE claimed' = claimed
    BY <2>1, <2>2 DEF DrainGoes
  <2> QED
    BY <1>1, <1>3, <2>1, <2>3, <2>4, FlusherMoves
<1>8. CASE ~((rotation /\ Syncing # {}) \/ Dirty = {})
  <2>1. /\ Goto(f, "upload") /\ claimed' = (claimed \/ f = "drain") /\ left' = {}
        /\ st' = [b \in Blocks |-> IF st[b] = "dirty" THEN "syncing" ELSE st[b]]
    BY <1>8 DEF Claim
  <2>2. "upload" \in Labels /\ "upload" \in Working /\ Moves(f, "upload")
    BY <1>1, <1>2, <1>3, <2>1, RequestsKept DEF Moves, Holding, Working, Labels
  <2>3. LockInv'
    BY <1>2, <2>2, LockMoves
  <2>4. pc'[f] = "upload" /\ \A g \in Flushers \ {f} : pc'[g] = pc[g]
    BY <1>2, <2>1 DEF Goto, LockInv
  <2>5. NoStrandedSyncing'
    BY <1>1, <1>4, <2>2, <2>4 DEF NoStrandedSyncing
  <2>6. st \in [Blocks -> {"clean", "dirty", "syncing"}] /\ owed \subseteq {b \in Blocks : st[b] # "clean"}
    BY <1>2 DEF DrainInv
  <2>7. st' \in [Blocks -> {"clean", "dirty", "syncing"}]
    BY <2>1, <2>6
  <2>8. owed' \subseteq {b \in owed : st'[b] # "clean"} /\ owed' \subseteq {b \in Blocks : st'[b] # "clean"}
    BY <1>1, <2>1, <2>6
  <2>9. DrainInv'
    <3>1. CASE f = "drain"
      <4>1. pc'["drain"] = "upload" /\ claimed'
        BY <2>1, <2>4, <3>1
      <4> QED
        BY <1>1, <1>2, <2>1, <2>7, <2>8, <3>1, <4>1 DEF DrainInv
    <3>2. CASE f # "drain"
      <4>1. pc'["drain"] = pc["drain"]
        BY <2>4, <3>2 DEF Flushers
      <4>2. claimed' <=> claimed
        BY <2>1, <3>2
      <4> QED
        BY <1>1, <1>2, <2>1, <2>7, <2>8, <4>1, <4>2, DrainKept
    <3> QED
      BY <3>1, <3>2
  <2> QED
    BY <2>3, <2>5, <2>9 DEF FlushInv
<1> QED
  BY <1>7, <1>8

\* The claimed blocks are in S3 and evicted; nothing is SYNCING after.
LEMMA EvictStep ==
    ASSUME FlushInv, NEW f \in Flushers, Evict(f)
    PROVE  FlushInv'
<1>1. UNCHANGED <<left, dropped, lock, sent, claimed>> /\ pc[f] = "evict" /\ owed' = owed \ Syncing
  BY DEF Evict, breakerVars, callVars, worldVars, drainVars
<1>2. st' = [b \in Blocks |-> IF st[b] = "syncing" THEN "clean" ELSE st[b]]
  BY DEF Evict
<1>3. \E l \in {"succeeded", "monitor_put", "iterated"} : Goto(f, l)
  BY DEF Evict, Flushers
<1>4. PICK l \in {"succeeded", "monitor_put", "iterated"} : Goto(f, l)
  BY <1>3
<1>5. l \in Labels /\ l \in Holding /\ l \notin Owning /\ l # "ok"
  BY <1>4 DEF Labels, Holding, Owning
<1>6. Moves(f, l)
  <2>1. pc[f] \in Holding /\ pc[f] \notin Waiting /\ LockInv
    BY <1>1 DEF Holding, Working, Waiting, FlushInv
  <2> QED
    BY <1>1, <1>4, <1>5, <2>1, RequestsKept DEF Moves
<1>7. ASSUME f = "drain" PROVE DrainGoes(l)
  <2>1. claimed
    BY <1>1, <1>7 DEF FlushInv, DrainInv
  <2> QED
    BY <1>1, <1>5, <2>1 DEF DrainGoes, Owning
<1> QED
  BY <1>1, <1>2, <1>5, <1>6, <1>7, NothingSyncing

\* A flusher's steps under flush_lock.
LEMMA FlushingSteps ==
    ASSUME FlushInv, NEW f \in Flushers, FlushSteps(f)
    PROVE  FlushInv'
<1>1. CASE TakeLock(f)
  <2>1. UNCHANGED <<st, owed, left, dropped, sent, claimed>>
    BY <1>1 DEF TakeLock, breakerVars, callVars, blockVars, historyVars, drainVars, worldVars
  <2>2. pc[f] \in Outside /\ lock = Free /\ lock' = f /\ Goto(f, "claim")
    BY <1>1 DEF TakeLock, Outside
  <2>3. f = "drain" => DrainGoes("claim")
    BY <1>1 DEF TakeLock, FlushInv, DrainInv, DrainGoes
  <2> QED
    BY <2>1, <2>2, <2>3, EntersLock
<1>2. CASE Claim(f)
  BY <1>2, ClaimStep
<1>3. CASE Evict(f)
  BY <1>3, EvictStep
<1>4. CASE Call(f) \/ CallRefused(f) \/ CallReturns(f) \/ Conflict(f)
  BY <1>4, CallSteps
<1> QED
  BY <1>1, <1>2, <1>3, <1>4 DEF FlushSteps

-----------------------------------------------------------------------------
(* The monitor and the drain.                                              *)

\* The capacity monitor's flush: it is tried, and it ends.
LEMMA MonitorSteps ==
    ASSUME FlushInv, PressureFlush \/ PressureDone
    PROVE  FlushInv'
<1>m. "monitor" \in Flushers /\ "monitor" # "drain"
  BY DEF Flushers
<1>1. CASE PressureFlush
  <2>1. UNCHANGED <<st, owed, left, dropped, sent, claimed>>
    BY <1>1 DEF PressureFlush, breakerVars, callVars, blockVars, historyVars, drainVars, worldVars
  <2>2. pc["monitor"] \in Outside /\ lock = Free /\ lock' = "monitor" /\ Goto("monitor", "claim")
    BY <1>1 DEF PressureFlush, Outside
  <2> QED
    BY <1>m, <2>1, <2>2, EntersLock
<1>2. CASE PressureDone
  <2>1. UNCHANGED <<owed, left, dropped, sent, claimed>> /\ lock' = Free /\ Goto("monitor", "idle") /\ "idle" \in Outside
    BY <1>2 DEF PressureDone, breakerVars, callVars, drainVars, worldVars, Outside
  <2>2. CASE pc["monitor"] \in {"failed", "conflict"}
    <3>1. Undo
      BY <1>2, <2>2 DEF PressureDone
    <3> QED
      BY <1>m, <2>1, <2>2, <3>1, GivesBack
  <2>3. CASE pc["monitor"] \notin {"failed", "conflict"}
    <3>1. UNCHANGED st /\ pc["monitor"] \in Finished
      BY <1>2, <2>3 DEF PressureDone, Finished
    <3> QED
      BY <1>m, <2>1, <3>1, LeavesLock
  <2> QED
    BY <2>2, <2>3
<1> QED
  BY <1>1, <1>2

\* drain_export, or teardown_export, begins: it owes every block that is not clean.
LEMMA DrainBegins ==
    ASSUME FlushInv, DrainStart \/ Teardown
    PROVE  FlushInv'
<1>1. /\ UNCHANGED <<st, left, dropped, lock, sent>>
      /\ owed' = {b \in Blocks : st[b] # "clean"} /\ pc["drain"] \in Outside
  BY DEF DrainStart, Teardown, breakerVars, callVars, worldVars, Outside
<1>2. PICK l \in {"lock", "await"} : Goto("drain", l)
  BY DEF DrainStart, Teardown
<1>3. LockInv /\ NoStrandedSyncing /\ DrainInv /\ "drain" \in Flushers
  BY DEF FlushInv, Flushers
<1>4. l \in Labels /\ l \notin Holding /\ pc["drain"] \notin Holding /\ pc["drain"] \notin Waiting
      /\ pc["drain"] \notin Working
  BY <1>1, <1>2, OutsideLabels DEF Outside
<1>5. Moves("drain", l)
  BY <1>1, <1>2, <1>3, <1>4, RequestsKept DEF Moves
<1>6. LockInv'
  BY <1>3, <1>4, <1>5, LockMoves
<1>7. Syncing' = Syncing
  BY <1>1 DEF Syncing
<1>8. NoStrandedSyncing'
  BY <1>1, <1>3, <1>4, <1>5, <1>7, StrandedMoves
<1>9. pc'["drain"] = l
  BY <1>2, <1>3 DEF Goto, LockInv
<1>11. DrainInv'
  BY <1>1, <1>2, <1>3, <1>9 DEF DrainInv
<1> QED
  BY <1>6, <1>8, <1>11 DEF FlushInv

\* The drain's iterations.
LEMMA DrainingSteps ==
    ASSUME FlushInv, DrainSteps
    PROVE  FlushInv'
<1>d. "drain" \in Flushers /\ DrainInv /\ LockInv
  BY DEF Flushers, FlushInv
<1>1. CASE SchedulerGone
  <2>1. UNCHANGED <<st, owed, left, dropped, lock, sent, claimed>> /\ Goto("drain", "lock") /\ pc["drain"] \in Outside
    BY <1>1 DEF SchedulerGone, breakerVars, callVars, blockVars, historyVars, drainVars, worldVars, Outside
  <2>2. DrainGoes("lock") /\ "lock" \in Outside
    BY DEF DrainGoes, Outside
  <2> QED
    BY <1>d, <2>1, <2>2, OutsideMoves
<1>2. CASE DrainNothing
  <2>1. /\ UNCHANGED <<st, owed, left, dropped, lock, sent, claimed>> /\ Goto("drain", "drain_put")
        /\ pc["drain"] = "nothing"
    BY <1>2 DEF DrainNothing, breakerVars, callVars, blockVars, historyVars, drainVars, worldVars
  <2>2. Onward("nothing", "drain_put") /\ "nothing" \notin Waiting
    BY DEF Onward, Holding, Working, Owning, Emptied, Waiting
  <2> QED
    BY <1>d, <2>1, <2>2, OnwardMoves, RequestsKept
<1>3. CASE DrainIterated
  <2>1. /\ UNCHANGED <<st, owed, left, dropped, sent, claimed>> /\ Goto("drain", "check")
        /\ pc["drain"] = "iterated" /\ lock' = Free
    BY <1>3 DEF DrainIterated, breakerVars, callVars, blockVars, historyVars, drainVars, worldVars
  <2>2. DrainGoes("check")
    BY <1>d, <2>1 DEF DrainGoes, DrainInv
  <2>3. "iterated" \in Finished /\ "check" \in Outside
    BY DEF Finished, Outside
  <2> QED
    BY <1>d, <2>1, <2>2, <2>3, LeavesLock
<1>4. CASE DrainCheck
  <2>1. /\ UNCHANGED <<st, owed, left, dropped, lock, sent>> /\ pc["drain"] = "check" /\ "check" \in Outside
    BY <1>4 DEF DrainCheck, breakerVars, callVars, blockVars, historyVars, worldVars, Outside
  <2>2. CASE ~claimed /\ Dirty = {}
    <3>1. Goto("drain", "ok") /\ claimed' = claimed
      BY <1>4, <2>2 DEF DrainCheck, drainVars
    <3>2. DrainGoes("ok") /\ "ok" \in Outside
      BY <1>d, <2>1, <2>2 DEF DrainGoes, DrainInv, Outside
    <3> QED
      BY <1>d, <2>1, <3>1, <3>2, OutsideMoves
  <2>3. CASE ~(~claimed /\ Dirty = {})
    <3>1. PICK l \in {"error", "lock"} : Goto("drain", l)
      BY <1>4, <2>3 DEF DrainCheck
    <3>2. DrainGoes(l) /\ l \in Outside
      BY <3>1 DEF DrainGoes, Outside
    <3> QED
      BY <1>d, <2>1, <3>1, <3>2, OutsideMoves
  <2> QED
    BY <2>2, <2>3
<1>5. CASE DrainFailed
  <2>1. UNCHANGED <<owed, left, dropped, sent>> /\ lock' = Free
    BY <1>5 DEF DrainFailed, breakerVars, callVars, worldVars
  <2>2. PICK l \in {"error", "lock"} : Goto("drain", l)
    BY <1>5 DEF DrainFailed
  <2>3. DrainGoes(l) /\ l \in Outside
    BY <2>2 DEF DrainGoes, Outside
  <2>4. CASE pc["drain"] = "drain_error"
    <3>1. UNCHANGED st /\ pc["drain"] \in Finished
      BY <1>5, <2>4 DEF DrainFailed, Finished
    <3> QED
      BY <1>d, <2>1, <2>2, <2>3, <3>1, LeavesLock
  <2>5. CASE pc["drain"] # "drain_error"
    <3>1. Undo /\ pc["drain"] \in {"failed", "conflict"}
      BY <1>5, <2>5 DEF DrainFailed
    <3> QED
      BY <1>d, <2>1, <2>2, <2>3, <3>1, GivesBack
  <2> QED
    BY <2>4, <2>5
<1> QED
  BY <1>1, <1>2, <1>3, <1>4, <1>5 DEF DrainSteps

\* The future of a flusher is dropped, under flush_lock or outside: the lock is free
\* after it, and what it owned is what is left SYNCING.
LEMMA FlusherDropped ==
    ASSUME FlushInv, NEW f \in Flushers, Dropped(f), NEW l \in Outside, Goto(f, l),
           IF f = "drain" THEN l = "idle" /\ owed' = {} ELSE UNCHANGED <<claimed, owed>>
    PROVE  FlushInv'
<1>1. LockInv /\ NoStrandedSyncing /\ DrainInv
  BY DEF FlushInv
<1>2. /\ lock' = IF lock = f THEN Free ELSE lock
      /\ left' = IF pc[f] \in Working THEN Syncing ELSE left
      /\ dropped' <=> (dropped \/ pc[f] \in Working)
      /\ st' = st
  BY DEF Dropped
<1>3. sent' \subseteq sent \ {f}
  <2>1. CASE f \in sent
    BY <2>1 DEF Dropped, Abandon, Returns
  <2>2. CASE f \notin sent
    BY <2>2 DEF Dropped, breakerVars, callVars
  <2> QED
    BY <2>1, <2>2
<1>4. l \in Labels /\ l \notin Holding /\ l \notin Working
  BY OutsideLabels
<1>5. pc[f] \in Holding <=> lock = f
  BY <1>1 DEF LockInv
<1>6. Moves(f, l)
  BY <1>2, <1>3, <1>4, <1>5 DEF Moves
<1>7. LockInv'
  BY <1>1, <1>4, <1>6, LockMoves
<1>8. Syncing' = Syncing
  BY <1>2 DEF Syncing
<1>9. NoStrandedSyncing'
  <2>1. CASE pc[f] \in Working
    BY <1>2, <1>8, <2>1 DEF NoStrandedSyncing
  <2>2. CASE pc[f] \notin Working
    BY <1>1, <1>2, <1>4, <1>6, <1>8, <2>2, StrandedMoves
  <2> QED
    BY <2>1, <2>2
<1>10. pc' = [pc EXCEPT ![f] = l] /\ pc \in [Flushers -> Labels] /\ "drain" \in Flushers
  BY <1>1 DEF Goto, LockInv, Flushers
<1>11. /\ st' \in [Blocks -> {"clean", "dirty", "syncing"}] /\ owed' \subseteq {b \in Blocks : st'[b] # "clean"}
       /\ ~dropped' => left' = {}
  BY <1>1, <1>2 DEF DrainInv
<1>12. CASE f = "drain"
  <2>1. pc'["drain"] = "idle"
    BY <1>10, <1>12
  <2> QED
    BY <1>7, <1>9, <1>11, <2>1 DEF FlushInv, DrainInv
<1>13. CASE f # "drain"
  <2>1. pc'["drain"] = pc["drain"]
    BY <1>10, <1>13
  <2>2. UNCHANGED <<claimed, owed>> /\ (~dropped' => ~dropped)
    BY <1>2, <1>13
  <2>3. DrainInv'
    BY <1>1, <1>11, <2>1, <2>2 DEF DrainInv
  <2> QED
    BY <1>7, <1>9, <2>3 DEF FlushInv
<1> QED
  BY <1>12, <1>13

\* The scheduler panics, the monitor's timeout passes, or the client of a drain goes.
LEMMA DropSteps ==
    ASSUME FlushInv, Panic \/ PressureTimeout \/ DrainDropped
    PROVE  FlushInv'
<1>1. CASE Panic
  <2>1. "sched" \in Flushers /\ "sched" # "drain" /\ Dropped("sched") /\ UNCHANGED <<claimed, owed>>
    BY <1>1 DEF Panic, Flushers, drainVars
  <2>2. \E l \in Outside : Goto("sched", l)
    BY <1>1 DEF Panic, Outside
  <2> QED
    BY <2>1, <2>2, FlusherDropped
<1>2. CASE PressureTimeout
  <2>1. "monitor" \in Flushers /\ "monitor" # "drain" /\ Dropped("monitor") /\ UNCHANGED <<claimed, owed>>
    BY <1>2 DEF PressureTimeout, Flushers, drainVars
  <2>2. Goto("monitor", "idle") /\ "idle" \in Outside
    BY <1>2 DEF PressureTimeout, Outside
  <2> QED
    BY <2>1, <2>2, FlusherDropped
<1>3. CASE DrainDropped
  <2>1. "drain" \in Flushers /\ Dropped("drain") /\ owed' = {}
    BY <1>3 DEF DrainDropped, Flushers
  <2>2. Goto("drain", "idle") /\ "idle" \in Outside
    BY <1>3 DEF DrainDropped, Outside
  <2> QED
    BY <2>1, <2>2, FlusherDropped
<1> QED
  BY <1>1, <1>2, <1>3

-----------------------------------------------------------------------------
\* A node that starts holds no lock, marks nothing SYNCING and drains nothing.
LEMMA FlushInitial == Init => FlushInv
<1> SUFFICES ASSUME Init PROVE FlushInv
  OBVIOUS
<1>1. /\ st \in [Blocks -> {"clean", "dirty"}] /\ owed = {} /\ left = {} /\ lock = Free /\ sent = {}
      /\ pc = [f \in Flushers |-> IF f = "sched" THEN "start" ELSE "idle"]
  BY DEF Init, BreakerInit
<1>2. \A f \in Flushers : pc[f] \in {"start", "idle"}
  BY <1>1
<1>3. "start" \in Labels /\ "start" \notin Holding /\ "idle" \in Labels /\ "idle" \notin Holding
  BY OutsideLabels DEF Outside
<1>4. LockInv
  <2>1. pc \in [Flushers -> Labels]
    BY <1>1, <1>3
  <2>2. \A f \in Flushers : pc[f] \notin Holding /\ lock # f
    BY <1>1, <1>2, <1>3 DEF Free, Flushers
  <2> QED
    BY <1>1, <2>1, <2>2 DEF LockInv
<1>5. NoStrandedSyncing
  BY <1>1 DEF NoStrandedSyncing, Syncing
<1>6. pc["drain"] = "idle"
  BY <1>1 DEF Flushers
<1>7. DrainInv
  BY <1>1, <1>6 DEF DrainInv, Init
<1> QED
  BY <1>4, <1>5, <1>7 DEF FlushInv

\* Every step of the guest, S3, the breaker and the flushers keeps the invariant.
LEMMA FlushStep == FlushInv /\ [Next]_vars => FlushInv'
<1> SUFFICES ASSUME FlushInv, [Next]_vars PROVE FlushInv'
  OBVIOUS
<1>t. st \in [Blocks -> {"clean", "dirty", "syncing"}]
  BY DEF FlushInv, DrainInv
<1>1. ASSUME NEW b \in Blocks, Write(b)
      PROVE  FlushInv'
  <2>1. /\ UNCHANGED <<pc, lock, claimed, owed, dropped, sent>>
        /\ st' = [st EXCEPT ![b] = "dirty"] /\ left' = left \ {b}
    BY <1>1 DEF Write, breakerVars, callVars, drainVars
  <2>2. /\ st' \in [Blocks -> {"clean", "dirty", "syncing"}]
        /\ \A c \in Blocks : (st'[c] = st[c] /\ (c \in left => c \in left')) \/ st'[c] = "dirty"
    BY <1>t, <2>1
  <2> QED
    BY <2>1, <2>2, QuietSteps
<1>2. CASE Outage \/ Recovery \/ Timeout \/ ResetTimeout \/ BackoffElapses
  <2>1. UNCHANGED <<pc, lock, claimed, owed, left, dropped, sent, st>>
    BY <1>2 DEF Outage, Recovery, Timeout, Elapse, ResetTimeout, ToHalfOpen, BackoffElapses, breakerVars, callVars,
         blockVars, historyVars, drainVars, worldVars
  <2> QED
    BY <1>t, <2>1, QuietSteps
<1>3. ASSUME NEW c \in Callers \ Flushers, ReaderSends(c) \/ ReaderReturns(c) \/ ReaderLost(c)
      PROVE  FlushInv'
  <2>1. UNCHANGED <<pc, lock, claimed, owed, left, dropped, st>>
    BY <1>3 DEF ReaderSends, ReaderReturns, ReaderLost, blockVars, historyVars, drainVars, worldVars
  <2>2. sent' \in {sent \cup {c}, sent \ {c}}
    <3>1. CASE ReaderSends(c)
      BY <3>1 DEF ReaderSends, Send, Admit
    <3>2. CASE ReaderReturns(c)
      <4>1. RecordSuccess(c) \/ RecordFailure(c)
        BY <3>2 DEF ReaderReturns, Answered
      <4> QED
        BY <4>1 DEF RecordSuccess, RecordFailure, Returns
    <3>3. CASE ReaderLost(c)
      BY <3>3 DEF ReaderLost, Abandon, Returns
    <3> QED
      BY <1>3, <3>1, <3>2, <3>3
  <2>3. \A f \in Flushers : f \in sent' => f \in sent
    BY <2>2
  <2> QED
    BY <1>t, <2>1, <2>3, QuietSteps
<1>4. ASSUME NEW f \in Flushers, FlushSteps(f)
      PROVE  FlushInv'
  BY <1>4, FlushingSteps
<1>5. CASE SchedSteps
  BY <1>5, SchedulerSteps
<1>6. CASE PressureFlush \/ PressureDone
  BY <1>6, MonitorSteps
<1>10. CASE Panic \/ PressureTimeout \/ DrainDropped
  BY <1>10, DropSteps
<1>7. CASE DrainStart \/ Teardown
  BY <1>7, DrainBegins
<1>8. CASE DrainSteps
  BY <1>8, DrainingSteps
<1>9. CASE UNCHANGED vars
  <2>1. UNCHANGED <<pc, lock, claimed, owed, left, dropped, sent, st>>
    BY <1>9 DEF vars, breakerVars, callVars, blockVars, historyVars, drainVars, worldVars
  <2> QED
    BY <1>t, <2>1, QuietSteps
<1> QED
  BY <1>1, <1>2, <1>3, <1>4, <1>5, <1>6, <1>7, <1>8, <1>9, <1>10 DEF Next

\* flush_scheduler.rs, capacity_monitor.rs and router.rs: whatever fails, conflicts,
\* panics, times out, is disconnected or is retried, a block marked SYNCING belongs
\* to a flush that holds flush_lock and will evict it or give it back, or it was
\* left by a flush that was dropped half-way and has not been written since.
THEOREM NothingStranded == Spec => []NoStrandedSyncing
<1>1. FlushInv => NoStrandedSyncing
  BY DEF FlushInv
<1> QED
  BY <1>1, FlushInitial, FlushStep, PTL DEF Spec

\* Besides, a drain or teardown that reports success has seen every block that was
\* dirty or being flushed when it began reach S3, whoever flushed it and however the
\* scheduler, the monitor, conflicts and outages interleave with its iterations, if
\* no flush was dropped half-way.
THEOREM FlushesAreAccounted == Spec => []FlushesAccounted
<1>1. FlushInv => FlushesAccounted
  BY DEF FlushInv, DrainInv, FlushesAccounted, DrainCovers
<1> QED
  BY <1>1, FlushInitial, FlushStep, PTL DEF Spec
=============================================================================
