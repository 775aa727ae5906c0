----------------------------- MODULE BlockClaims -----------------------------
(* One block of the write cache under concurrent guest requests: sub-block  *)
(* writes need the rest of the block, which is in the active file, in the   *)
(* flushing file or in S3.  Requests of the user-copy transport hold the     *)
(* block's write lock; zero-copy writes and write_zeroes do not, and are     *)
(* ordered by the block's state, the promote claim and the rotation gate     *)
(* (data_file's read lock).                                                  *)
EXTENDS Naturals, FiniteSets

CONSTANTS
    Tasks,      \* requests in flight at a time
    Pages,      \* pages of the block
    Covers,     \* the sets of pages a request may be for
    MaxWrites,  \* requests in all
    MaxCycles,  \* flush cycles in all
    Scenarios   \* what may happen in one behaviour: a set of sets of RareEvents

\* "subblock_zero": write_zeroes and trim of part of the block.
\* "bypassed_claim": a NOT_PRESENT block is marked present by a request that does
\*   not hold its claim, although another does or pages it keeps are in S3.
\* "drop_in_promote": the flushing file is dropped while a promoter still copies
\*   from it.
RareEvents == {"subblock_zero", "bypassed_claim", "drop_in_promote", "fetch_error", "upload_error"}

None == "none"
ASSUME TasksAssumption == None \notin Tasks /\ Pages # {}
ASSUME CoversAssumption == Covers \subseteq (SUBSET Pages) \ {{}}
ASSUME BoundsAssumption == MaxWrites \in Nat /\ MaxCycles \in Nat
ASSUME ScenariosAssumption == Scenarios \subseteq SUBSET RareEvents

VARIABLES
    mode,       \* the export's transport: "copy" or "zc"
    rare,       \* the rare events of this behaviour
    state,      \* the block's entry in the state map
    slot,       \* PromoteClaimBitmap: the claim on the block, or Free
    active, flushing,   \* contents of the two cache files
    ff,         \* flushing_file is Some
    s3,         \* content of the block in the manifest, or Nowhere
    flusher, claimed, cycles,
    wlock,      \* the block's write lock (block_write_locks)
    pc,         \* the step each task is at
    task,       \* the request each task works on
    writes,
    ok,         \* history: per page, the contents a read may return
    since       \* history: writes acknowledged since a task's request began

fileVars == <<active, flushing, ff, s3>>
flushVars == <<flusher, claimed, cycles>>
history == <<writes, ok, since>>
vars == <<mode, rare, state, slot, fileVars, flushVars, wlock, pc, task, history>>

Zero == 0
Prior == MaxWrites + 1
Values == 0 .. MaxWrites + 1
Zeros == [p \in Pages |-> Zero]
Nowhere == <<>>
Free == [by |-> None, materializing |-> FALSE, valid |-> FALSE]

Idle == [id |-> 0, kind |-> "copy", cover |-> Pages, again |-> FALSE,
         st |-> "NOT_PRESENT", must |-> FALSE, arc |-> FALSE, buf |-> Zeros]

\* A block that was never written, or one whose data an earlier run left in S3.
Init ==
    /\ mode \in {"copy", "zc"} /\ rare \in Scenarios
    /\ state = "NOT_PRESENT" /\ slot = Free
    /\ active = Zeros /\ flushing = Zeros /\ ff = FALSE
    /\ s3 \in {Nowhere, [p \in Pages |-> Prior]}
    /\ flusher = "idle" /\ claimed = FALSE /\ cycles = 0
    /\ wlock = None /\ pc = [t \in Tasks |-> "idle"] /\ task = [t \in Tasks |-> Idle] /\ writes = 0
    /\ ok = [p \in Pages |-> IF s3 = Nowhere THEN {Zero} ELSE {Prior}]
    /\ since = [t \in Tasks |-> [p \in Pages |-> {}]]

-----------------------------------------------------------------------------
InGate(t) ==
    pc[t] \in {"inline", "iclaim", "icas", "pread", "pclaim", "pwait", "precheck", "pcopy", "pcas", "mark", "mark2",
               "data", "dirty"}

Promoting == {"pread", "pclaim", "pwait", "precheck", "pcopy", "pcas"}

\* data_file.write() is granted: no task holds the read side.
GateEmpty == \A t \in Tasks : ~InGate(t)

Full(t) == task[t].cover = Pages
Goes(t, l) == pc' = [pc EXCEPT ![t] = l]
Goto(t, l) == Goes(t, l) /\ UNCHANGED task

\* release_token: only the claim that is still the holder's.
Released(t) == IF slot.by = t THEN Free ELSE slot

Claim(t, mat) == [by |-> t, materializing |-> mat, valid |-> TRUE]

\* Where a request goes on after its backfill, and where it starts over.
AfterBackfill(t) == IF task[t].kind = "zc" THEN "present" ELSE "gate"
Again(t) == IF task[t].kind = "copy" THEN "look" ELSE "backfill"

\* promote_syncing_blocks starts: the flushing file's Arc, require_promotion.
Promote(t) ==
    /\ Goes(t, "pread")
    /\ task' = [task EXCEPT ![t].arc = ff,
                            ![t].must = CASE task[t].kind = "copy" -> task[t].must
                                          [] task[t].kind = "zc" -> ~Full(t)
                                          [] OTHER -> FALSE]

\* The pages the request leaves alone are in S3 only.
Unfetched(t) == state = "NOT_PRESENT" /\ s3 # Nowhere /\ ~Full(t)
Bypasses(t) == Unfetched(t) \/ (state = "NOT_PRESENT" /\ slot # Free)

Value(t) == IF task[t].kind = "zero" THEN Zero ELSE task[t].id
Slice(t, base) == [p \in Pages |-> IF p \in task[t].cover THEN Value(t) ELSE base[p]]

\* The request is answered: from here on a read returns this write, or one
\* acknowledged while it ran.
Acknowledge(t) ==
    /\ ok' = [p \in Pages |-> IF p \in task[t].cover THEN {Value(t)} \cup since[t][p] ELSE ok[p]]
    /\ since' = [u \in Tasks |-> [p \in Pages |->
                    IF p \in task[t].cover /\ u # t /\ pc[u] # "idle"
                    THEN {Value(t)} \cup (since[u][p] \cap since[t][p]) ELSE since[u][p]]]
    /\ wlock' = IF wlock = t THEN None ELSE wlock
    /\ Goes(t, "idle") /\ task' = [task EXCEPT ![t] = Idle]
    /\ UNCHANGED writes

-----------------------------------------------------------------------------
(* A guest request arrives.                                                  *)

Begin(t, kind, cover) ==
    /\ pc[t] = "idle" /\ writes < MaxWrites
    /\ kind \in {mode, "zero"} /\ (kind = "zero" /\ cover # Pages => "subblock_zero" \in rare)
    /\ writes' = writes + 1
    /\ task' = [task EXCEPT ![t] = [Idle EXCEPT !.id = writes + 1, !.kind = kind, !.cover = cover]]
    /\ Goes(t, CASE kind = "copy" -> "lock" [] kind = "zc" -> "inline" [] OTHER -> "backfill")
    /\ since' = [since EXCEPT ![t] = [p \in Pages |-> {}]]
    /\ UNCHANGED <<mode, rare, state, slot, fileVars, flushVars, wlock, ok>>

\* BlockHandler::write: lock_write_range.
LockBlock(t) ==
    /\ pc[t] = "lock" /\ wlock = None
    /\ wlock' = t
    /\ Goto(t, "look")
    /\ UNCHANGED <<mode, rare, state, slot, fileVars, flushVars, history>>

\* The zero-copy fast path (pre_write_sync), with the gate held: a present block
\* is promoted, a full block is claimed, anything else needs the slow path, as
\* does a contended gate.
Inline(t) ==
    /\ pc[t] = "inline"
    /\ \/ Goto(t, "backfill")
       \/ state \in {"DIRTY", "SYNCING"} /\ Promote(t)
       \/ state = "NOT_PRESENT" /\ Full(t) /\ Goto(t, "iclaim")
    /\ UNCHANGED <<mode, rare, state, slot, fileVars, flushVars, wlock, history>>

\* backfill_and_write: the block's state decides.  A CLEAN block is waited for.
Look(t) ==
    /\ pc[t] = "look" /\ state # "CLEAN"
    /\ task' = [task EXCEPT ![t].must = state \in {"DIRTY", "SYNCING"}]
    /\ Goes(t, CASE state \in {"DIRTY", "SYNCING"} -> "gate"
                 [] state = "NOT_PRESENT" /\ Full(t) -> "claim"
                 [] OTHER -> "probe")
    /\ UNCHANGED <<mode, rare, state, slot, fileVars, flushVars, wlock, history>>

\* backfill_blocks_in_range; the second call of pre_write names the whole block.
Backfill(t) ==
    /\ pc[t] = "backfill" /\ state # "CLEAN"
    /\ Goto(t, CASE state \in {"DIRTY", "SYNCING"} -> AfterBackfill(t)
                 [] state = "NOT_PRESENT" /\ (Full(t) \/ task[t].again) -> "claim"
                 [] OTHER -> "probe")
    /\ UNCHANGED <<mode, rare, state, slot, fileVars, flushVars, wlock, history>>

\* The same after five seconds of a CLEAN block, which then counts as present.
BackfillTimeout(t) ==
    /\ pc[t] = "backfill" /\ state = "CLEAN"
    /\ Goto(t, AfterBackfill(t))
    /\ UNCHANGED <<mode, rare, state, slot, fileVars, flushVars, wlock, history>>

\* has_s3_data, which is also true while the index of a pack is not cached.
Probe(t) ==
    /\ pc[t] = "probe"
    /\ \/ Goto(t, "mclaim")
       \/ s3 = Nowhere /\ Goto(t, AfterBackfill(t))
    /\ UNCHANGED <<mode, rare, state, slot, fileVars, flushVars, wlock, history>>

-----------------------------------------------------------------------------
(* Claims.                                                                   *)

\* try_claim_block: the promote claim ...
TryClaim(t) ==
    /\ pc[t] \in {"claim", "iclaim"}
    /\ IF slot = Free THEN slot' = Claim(t, FALSE) /\ Goto(t, IF pc[t] = "claim" THEN "cas" ELSE "icas")
                      ELSE UNCHANGED slot /\ Goto(t, Again(t))
    /\ UNCHANGED <<mode, rare, state, fileVars, flushVars, wlock, history>>

\* ... held for the compare-and-swap NOT_PRESENT -> CLEAN.
CasClaim(t) ==
    /\ pc[t] \in {"cas", "icas"}
    /\ Unfetched(t) => "bypassed_claim" \in rare
    /\ slot' = Released(t)
    /\ IF state = "NOT_PRESENT"
       THEN /\ state' = "CLEAN"
            /\ IF pc[t] = "icas" THEN Promote(t) ELSE Goto(t, AfterBackfill(t))
       ELSE UNCHANGED state /\ Goto(t, Again(t))
    /\ UNCHANGED <<mode, rare, fileVars, flushVars, wlock, history>>

\* claim_block_for_materialization.  A zero-copy request that loses goes on.
MaterializeClaim(t) ==
    /\ pc[t] = "mclaim"
    /\ IF slot = Free THEN slot' = Claim(t, TRUE) /\ Goto(t, "mcas")
       ELSE UNCHANGED slot /\ Goto(t, IF task[t].kind = "copy" THEN "look" ELSE AfterBackfill(t))
    /\ UNCHANGED <<mode, rare, state, fileVars, flushVars, wlock, history>>

MaterializeCas(t) ==
    /\ pc[t] = "mcas"
    /\ state = "NOT_PRESENT" /\ (slot.by # t \/ ~slot.valid) => "bypassed_claim" \in rare
    /\ IF state = "NOT_PRESENT"
       THEN state' = "CLEAN" /\ Goto(t, "fetch") /\ UNCHANGED slot
       ELSE /\ slot' = Released(t) /\ UNCHANGED state
            /\ Goto(t, IF task[t].kind = "copy" THEN "look" ELSE AfterBackfill(t))
    /\ UNCHANGED <<mode, rare, fileVars, flushVars, wlock, history>>

\* locate_block looks for local data first ...
FetchLocal(t) ==
    /\ pc[t] = "fetch"
    /\ task' = [task EXCEPT ![t].buf = IF state = "SYNCING" /\ ff THEN flushing ELSE active]
    /\ Goes(t, IF state \in {"DIRTY", "SYNCING"} THEN "commit" ELSE "resolve")
    /\ UNCHANGED <<mode, rare, state, slot, fileVars, flushVars, wlock, history>>

\* ... and then for the newest pack in the manifest.
FetchS3(t) ==
    /\ pc[t] = "resolve"
    /\ task' = [task EXCEPT ![t].buf = IF s3 = Nowhere THEN Zeros ELSE s3]
    /\ Goes(t, "commit")
    /\ UNCHANGED <<mode, rare, state, slot, fileVars, flushVars, wlock, history>>

\* MaterializationClaim::unclaim; the request fails.
FetchError(t) ==
    /\ pc[t] = "resolve" /\ "fetch_error" \in rare
    /\ state' = IF slot.by = t /\ slot.valid /\ state = "CLEAN" THEN "NOT_PRESENT" ELSE state
    /\ slot' = Released(t)
    /\ Goes(t, "idle") /\ task' = [task EXCEPT ![t] = Idle]
    /\ wlock' = IF wlock = t THEN None ELSE wlock
    /\ UNCHANGED <<mode, rare, fileVars, flushVars, history>>

\* write_materialized, under the write lock: the claim must still be the
\* holder's and the block CLEAN.  A zero-copy request writes the fetched block,
\* or nothing when it is all zeros; a user-copy request merges its own data.
Commit(t) ==
    /\ pc[t] = "commit"
    /\ LET skip == task[t].kind # "copy" /\ task[t].buf = Zeros
           lands == slot.by = t /\ slot.valid /\ state = "CLEAN"
       IN \/ /\ skip
             /\ slot' = Released(t)
             /\ Goto(t, AfterBackfill(t))
             /\ UNCHANGED <<state, active>>
          \/ /\ ~skip /\ GateEmpty /\ lands
             /\ active' = IF task[t].kind # "copy" THEN task[t].buf
                          ELSE IF task[t].buf = Zeros THEN Slice(t, active) ELSE Slice(t, task[t].buf)
             /\ state' = "DIRTY"
             /\ Goes(t, "landed") /\ task' = [task EXCEPT ![t].buf = Zeros] /\ UNCHANGED slot
          \/ /\ ~skip /\ GateEmpty /\ ~lands
             /\ slot' = Released(t)
             /\ Goto(t, IF task[t].kind = "copy" THEN "look" ELSE AfterBackfill(t))
             /\ UNCHANGED <<state, active>>
    /\ UNCHANGED <<mode, rare, flushing, ff, s3, flushVars, wlock, history>>

\* The claim is dropped after the data has landed.
DropClaim(t) ==
    /\ pc[t] = "landed"
    /\ slot' = Released(t)
    /\ IF task[t].kind = "copy" THEN Acknowledge(t)
                                ELSE Goto(t, AfterBackfill(t)) /\ UNCHANGED <<wlock, history>>
    /\ UNCHANGED <<mode, rare, state, fileVars, flushVars>>

-----------------------------------------------------------------------------
(* set_present and the promotion inside the rotation gate.                   *)

\* WriteCache::pre_write ("present", outside the gate), write_inner and
\* zero_range ("mark", inside it): a NOT_PRESENT block's claim is invalidated ...
AfterPresent(t) ==
    CASE pc[t] \in {"mark", "mark2"} -> "data"
      [] task[t].again -> "gate"
      [] OTHER -> "recheck"

SetPresent(t) ==
    /\ pc[t] \in {"present", "mark"}
    /\ Bypasses(t) /\ pc[t] = "present" => "bypassed_claim" \in rare
    /\ IF state = "NOT_PRESENT" /\ ~(pc[t] = "mark" /\ task[t].kind = "zc")
       THEN /\ slot' = [slot EXCEPT !.valid = FALSE]
            /\ Goto(t, IF pc[t] = "mark" THEN "mark2" ELSE "present2")
       ELSE UNCHANGED slot /\ Goto(t, AfterPresent(t))
    /\ UNCHANGED <<mode, rare, state, fileVars, flushVars, wlock, history>>

\* ... before its state becomes CLEAN.
SetClean(t) ==
    /\ pc[t] \in {"present2", "mark2"}
    /\ Bypasses(t) /\ pc[t] = "present2" => "bypassed_claim" \in rare
    /\ state' = IF state = "NOT_PRESENT" THEN "CLEAN" ELSE state
    /\ Goto(t, AfterPresent(t))
    /\ UNCHANGED <<mode, rare, slot, fileVars, flushVars, wlock, history>>

\* BlockHandler::pre_write: a block evicted meanwhile is backfilled again.
Recheck(t) ==
    /\ pc[t] = "recheck"
    /\ task' = [task EXCEPT ![t].again = state \in {"SYNCING", "NOT_PRESENT"}]
    /\ Goes(t, IF state \in {"SYNCING", "NOT_PRESENT"} THEN "backfill" ELSE "gate")
    /\ UNCHANGED <<mode, rare, state, slot, fileVars, flushVars, wlock, history>>

\* data_file.read().
EnterGate(t) ==
    /\ pc[t] = "gate"
    /\ Promote(t)
    /\ UNCHANGED <<mode, rare, state, slot, fileVars, flushVars, wlock, history>>

\* BlockEvicted: the gate is left and the request starts over.
Retry(t) == Goes(t, Again(t)) /\ task' = [task EXCEPT ![t].again = FALSE]

\* Mutant: a block being materialised is waited for inside the gate.
PromoteReadWaits(t) ==
    /\ pc[t] = "pread" /\ ~(task[t].must /\ state = "CLEAN" /\ slot # Free)
    /\ IF task[t].must /\ ~task[t].arc /\ state \in {"SYNCING", "NOT_PRESENT"} THEN Retry(t)
       ELSE /\ task' = [task EXCEPT ![t].st = state]
            /\ Goes(t, IF task[t].arc /\ state \in {"SYNCING", "NOT_PRESENT"} THEN "pclaim" ELSE "mark")
    /\ UNCHANGED <<mode, rare, state, slot, fileVars, flushVars, wlock, history>>

\* promote_syncing_blocks reads the state: without a flushing file, or on a
\* CLEAN block that is being materialised, a request that needs the rest of the
\* block gives up; on a present block there is nothing to promote.
PromoteRead(t) ==
    /\ pc[t] = "pread"
    /\ LET materializing == state = "CLEAN" /\ slot # Free
           lost == ~task[t].arc /\ state \in {"SYNCING", "NOT_PRESENT"}
       IN IF task[t].must /\ (materializing \/ lost) THEN Retry(t)
          ELSE /\ task' = [task EXCEPT ![t].st = state]
               /\ Goes(t, IF task[t].arc /\ state \in {"SYNCING", "NOT_PRESENT"} THEN "pclaim" ELSE "mark")
    /\ UNCHANGED <<mode, rare, state, slot, fileVars, flushVars, wlock, history>>

\* Mutant: any holder's claim is stolen.
PromoteClaimStealsAny(t) ==
    /\ pc[t] = "pclaim"
    /\ IF slot = Free \/ task[t].st = "SYNCING"
       THEN slot' = Claim(t, FALSE) /\ Goto(t, "precheck")
       ELSE UNCHANGED slot /\ Goto(t, "pwait")
    /\ UNCHANGED <<mode, rare, state, fileVars, flushVars, wlock, history>>

\* try_claim_promote, steal_from_materializer.
PromoteClaim(t) ==
    /\ pc[t] = "pclaim"
    /\ IF slot = Free \/ (task[t].st = "SYNCING" /\ slot.materializing)
       THEN slot' = Claim(t, FALSE) /\ Goto(t, "precheck")
       ELSE UNCHANGED slot /\ Goto(t, "pwait")
    /\ UNCHANGED <<mode, rare, state, fileVars, flushVars, wlock, history>>

\* wait_for_release, then the loop starts over ...
PromoteWait(t) ==
    /\ pc[t] = "pwait" /\ slot = Free
    /\ Goto(t, "pread")
    /\ UNCHANGED <<mode, rare, state, slot, fileVars, flushVars, wlock, history>>

\* ... as it does after five seconds, unless the request needs the promotion.
PromoteTimeout(t) ==
    /\ pc[t] = "pwait" /\ slot # Free
    /\ IF task[t].must THEN Retry(t) ELSE Goto(t, "pread")
    /\ UNCHANGED <<mode, rare, state, slot, fileVars, flushVars, wlock, history>>

\* Mutant: the state read before the claim is trusted.
PromoteTrustsState(t) ==
    /\ pc[t] = "precheck"
    /\ Goto(t, "pcopy")
    /\ UNCHANGED <<mode, rare, state, slot, fileVars, flushVars, wlock, history>>

\* The state may have moved on before the claim was won: start over.
PromoteRecheck(t) ==
    /\ pc[t] = "precheck"
    /\ IF state = task[t].st THEN UNCHANGED slot /\ Goto(t, "pcopy")
                             ELSE slot' = Released(t) /\ Goto(t, "pread")
    /\ UNCHANGED <<mode, rare, state, fileVars, flushVars, wlock, history>>

\* The whole block is copied from the flushing file, unless it is NOT_PRESENT
\* and only zeros are there: its data may be in S3 since an earlier flush.
PromoteCopy(t) ==
    /\ pc[t] = "pcopy"
    /\ IF task[t].st = "NOT_PRESENT" /\ flushing = Zeros
       THEN /\ slot' = Released(t) /\ UNCHANGED active
            /\ IF task[t].must THEN Retry(t) ELSE Goto(t, "mark")
       ELSE active' = flushing /\ Goto(t, "pcas") /\ UNCHANGED slot
    /\ UNCHANGED <<mode, rare, state, flushing, ff, s3, flushVars, wlock, history>>

PromoteCas(t) ==
    /\ pc[t] = "pcas"
    /\ state' = IF state = task[t].st THEN "DIRTY" ELSE state
    /\ slot' = Released(t)
    /\ Goto(t, "mark")
    /\ UNCHANGED <<mode, rare, fileVars, flushVars, wlock, history>>

\* The data lands: pwrite, fallocate or the kernel's WRITE_FIXED.
WriteData(t) ==
    /\ pc[t] = "data"
    /\ active' = Slice(t, active)
    /\ Goto(t, "dirty")
    /\ UNCHANGED <<mode, rare, state, slot, flushing, ff, s3, flushVars, wlock, history>>

\* transition_to_dirty, the log entry, the gate released, the request answered.
MarkDirty(t) ==
    /\ pc[t] = "dirty"
    /\ state' = "DIRTY"
    /\ Acknowledge(t)
    /\ UNCHANGED <<mode, rare, slot, fileVars, flushVars>>

-----------------------------------------------------------------------------
(* The flush cycle, of this block and of others.                             *)

\* rotate_data_file_inner.
Rotate ==
    /\ flusher = "idle" /\ GateEmpty /\ cycles < MaxCycles
    /\ cycles' = cycles + 1
    /\ flushing' = active /\ active' = Zeros /\ ff' = TRUE
    /\ claimed' = (state = "DIRTY")
    /\ state' = IF state = "DIRTY" THEN "SYNCING" ELSE state
    /\ flusher' = "upload"
    /\ UNCHANGED <<mode, rare, slot, s3, wlock, pc, task, history>>

\* The pack and the manifest that names it are in S3 and in memory.
Upload ==
    /\ flusher = "upload"
    /\ s3' = IF claimed THEN flushing ELSE s3
    /\ flusher' = "evict"
    /\ UNCHANGED <<mode, rare, state, slot, active, flushing, ff, claimed, cycles, wlock, pc, task, history>>

Evict ==
    /\ flusher = "evict" /\ GateEmpty
    /\ state' = IF state = "SYNCING" THEN "NOT_PRESENT" ELSE state
    /\ flusher' = "drop"
    /\ UNCHANGED <<mode, rare, slot, fileVars, claimed, cycles, wlock, pc, task, history>>

MayDrop ==
    "drop_in_promote" \in rare \/ ~\E t \in Tasks : task[t].arc /\ pc[t] \in Promoting

DropFlushing ==
    /\ flusher = "drop" /\ MayDrop
    /\ ff' = FALSE /\ claimed' = FALSE /\ flusher' = "idle"
    /\ UNCHANGED <<mode, rare, state, slot, active, flushing, s3, cycles, wlock, pc, task, history>>

\* flush_dirty_inner after an error: copy back under the write lock ...
UploadError ==
    /\ flusher = "upload" /\ "upload_error" \in rare /\ GateEmpty
    /\ active' = IF state = "SYNCING" THEN flushing ELSE active
    /\ flusher' = "failed"
    /\ UNCHANGED <<mode, rare, state, slot, flushing, ff, s3, claimed, cycles, wlock, pc, task, history>>

\* ... drop the flushing file, and only then make the block DIRTY.
DropFailed ==
    /\ flusher = "failed"
    /\ MayDrop
    /\ ff' = FALSE /\ flusher' = "redirty"
    /\ UNCHANGED <<mode, rare, state, slot, active, flushing, s3, claimed, cycles, wlock, pc, task, history>>

Redirty ==
    /\ flusher = "redirty"
    /\ state' = IF claimed THEN "DIRTY" ELSE state
    /\ claimed' = FALSE /\ flusher' = "idle"
    /\ UNCHANGED <<mode, rare, slot, fileVars, cycles, wlock, pc, task, history>>

-----------------------------------------------------------------------------
TaskNext(t) ==
    \/ LockBlock(t) \/ Inline(t) \/ Look(t) \/ Backfill(t) \/ BackfillTimeout(t) \/ Probe(t)
    \/ TryClaim(t) \/ CasClaim(t) \/ MaterializeClaim(t) \/ MaterializeCas(t)
    \/ FetchLocal(t) \/ FetchS3(t) \/ FetchError(t) \/ Commit(t) \/ DropClaim(t)
    \/ SetPresent(t) \/ SetClean(t) \/ Recheck(t) \/ EnterGate(t)
    \/ PromoteRead(t) \/ PromoteClaim(t) \/ PromoteWait(t) \/ PromoteTimeout(t)
    \/ PromoteRecheck(t) \/ PromoteCopy(t) \/ PromoteCas(t)
    \/ WriteData(t) \/ MarkDirty(t)

FlushNext ==
    Rotate \/ Upload \/ Evict \/ DropFlushing \/ UploadError \/ DropFailed \/ Redirty

Next ==
    \/ \E t \in Tasks :
          \/ \E kind \in {"copy", "zc", "zero"}, cover \in Covers : Begin(t, kind, cover)
          \/ TaskNext(t)
    \/ FlushNext

Spec == Init /\ [][Next]_vars

\* A runtime thread eventually takes up every task that can go on, and a flush
\* that has begun ends: its S3 calls have timeouts.  The RwLock is task-fair, so
\* who waits for the gate to drain gets the write lock.  Nothing is assumed of
\* the behaviours in which the model holds back the writes past a claim.
Unhindered == "bypassed_claim" \in rare

Fairness ==
    /\ \A t \in Tasks : WF_vars(Unhindered /\ TaskNext(t)) /\ SF_vars(Unhindered /\ Commit(t))
    /\ SF_vars(Unhindered /\ flusher # "idle" /\ FlushNext)

FairSpec == Spec /\ Fairness

-----------------------------------------------------------------------------
\* A read of a page: the cache file its state names, else the manifest.
ReadBack(p) ==
    CASE state = "DIRTY" -> active[p]
      [] state = "SYNCING" -> IF ff THEN flushing[p] ELSE active[p]
      [] OTHER -> IF s3 = Nowhere THEN Zero ELSE s3[p]

Pending(p) == \E t \in Tasks : pc[t] # "idle" /\ p \in task[t].cover

States == {"NOT_PRESENT", "CLEAN", "DIRTY", "SYNCING"}

\* Steps at which a task has the claim: for a promotion or a full block ...
Copying == {"precheck", "pcopy", "pcas"}
Claiming == Copying \cup {"cas", "icas"}
\* ... or for a materialisation, from which it may be stolen.
Materializing == {"mcas", "fetch", "resolve", "commit", "landed"}

Pcs ==
    Claiming \cup Materializing \cup
    {"idle", "lock", "inline", "look", "backfill", "probe", "claim", "iclaim", "mclaim", "present",
     "present2", "recheck", "gate", "pread", "pclaim", "pwait", "mark", "mark2", "data", "dirty"}

Requests ==
    [id : 0 .. MaxWrites, kind : {"copy", "zc", "zero"}, cover : SUBSET Pages,
     again : BOOLEAN, st : States, must : BOOLEAN, arc : BOOLEAN, buf : [Pages -> Values]]

\* Types; the bounds on requests and flush cycles are part of them.
TypeOK ==
    /\ mode \in {"copy", "zc"} /\ rare \in Scenarios /\ state \in States
    /\ slot \in [by : Tasks \cup {None}, materializing : BOOLEAN, valid : BOOLEAN]
    /\ active \in [Pages -> Values] /\ flushing \in [Pages -> Values] /\ ff \in BOOLEAN
    /\ s3 \in [Pages -> Values] \cup {Nowhere}
    /\ flusher \in {"idle", "upload", "evict", "drop", "failed", "redirty"}
    /\ claimed \in BOOLEAN /\ cycles \in 0 .. MaxCycles
    /\ wlock \in Tasks \cup {None} /\ pc \in [Tasks -> Pcs] /\ task \in [Tasks -> Requests]
    /\ writes \in 0 .. MaxWrites
    /\ ok \in [Pages -> SUBSET Values] /\ since \in [Tasks -> [Pages -> SUBSET Values]]

\* Nobody writes past a claim, zeroes part of the block, or drops the flushing
\* file under a promoter.
Orderly == rare \cap {"subblock_zero", "bypassed_claim", "drop_in_promote"} = {}

\* A page nobody is writing reads as what was last written to it, whatever
\* happens to the other pages of its block.
AcknowledgedIsRead == Orderly => \A p \in Pages : ~Pending(p) => ReadBack(p) \in ok[p]

\* promote_syncing_blocks on a CLEAN block whose claim is free: it is "a zero-prior
\* claim (remainder legitimately sparse zeros) or a full-block writer (its own
\* guest write covers every byte)", so a sub-block write may land on it.
CleanIsZeroOrCovered ==
    Orderly /\ state = "CLEAN" /\ slot = Free =>
        \/ s3 \in {Nowhere, Zeros}
        \/ \E t \in Tasks : pc[t] # "idle" /\ Full(t)

\* The claims are released on every path, also on errors and after a steal: the
\* holder of a claim is at a step that ends with its release.
NoLeakedClaim == slot # Free => slot.by \in Tasks /\ pc[slot.by] \in Claiming \cup Materializing

\* A promoter copies the flushing file over the block only while it has the
\* claim, so two never interleave their copies; a steal only ever takes the claim
\* of a materialisation.
OneCopier == \A t \in Tasks : pc[t] \in Copying => slot.by = t

\* Every request is answered: nobody waits in the gate for somebody who needs
\* the gate empty, or for a CLEAN block that no one will finish.  The requests are
\* interchangeable, so it is asked of one of them.
Answered ==
    LET t == CHOOSE u \in Tasks : TRUE
    IN  (Unhindered /\ pc[t] # "idle") ~> pc[t] = "idle"

\* The pages of a block keep what was written to them, and a CLEAN block that
\* nobody claims has nothing left to fetch.
BlocksSound == AcknowledgedIsRead /\ CleanIsZeroOrCovered

\* The claim of a block has a holder that will release it, and every copier
\* is that holder.
ClaimsSound == NoLeakedClaim /\ OneCopier
=============================================================================
