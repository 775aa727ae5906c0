------------------------- MODULE BlockClaimsProofs --------------------------
(***************************************************************************)
(* Proofs about BlockClaims, for any number of requests and pages and any  *)
(* set of rare events: a claim is never leaked, and only the holder of the *)
(* claim copies the flushing file.                                         *)
(*                                                                         *)
(* OneCopier is not inductive: a steal might take the claim of a promoter. *)
(* HoldersKeep adds that a promoter's claim is not marked as a             *)
(* materialisation, which is all that steal_from_materializer takes, and   *)
(* NoLeakedClaim that a claim which is not free has a holder to release it.*)
(* Every step of a request does one of three things to the claim, which    *)
(* have a lemma each: it leaves it to its holder, releases it or takes it. *)
(***************************************************************************)
EXTENDS BlockClaims, TLAPS

\* A leaf goes to Zenon; the leaves with arithmetic or sequences go to the SMT solver.
USE ZenonT(60)

Holding == Claiming \cup Materializing

ClaimTypeOK ==
    /\ pc \in [Tasks -> Pcs]
    /\ slot \in [by : Tasks \cup {None}, materializing : BOOLEAN, valid : BOOLEAN]

\* The claim of a promoter or of a full-block writer is its own to release.
HoldersKeep ==
    \A t \in Tasks : pc[t] \in Claiming => slot.by = t /\ ~slot.materializing

ClaimInv == ClaimTypeOK /\ NoLeakedClaim /\ HoldersKeep

-----------------------------------------------------------------------------
(* What a step may do to the claim.                                        *)

\* A step without a claim operation: the holder goes on holding.
LEMMA KeepStep ==
    ASSUME ClaimInv, NEW t \in Tasks, NEW l \in Pcs, Goes(t, l),
           slot' = slot \/ slot' = [slot EXCEPT !.valid = FALSE],
           l \in Claiming => pc[t] \in Claiming,
           pc[t] \in Holding => l \in Holding
    PROVE  ClaimInv'
<1> USE DEF ClaimInv, ClaimTypeOK, Goes
<1>1. ClaimTypeOK'
    OBVIOUS
<1>2. slot'.by = slot.by /\ slot'.materializing = slot.materializing
    OBVIOUS
<1>3. slot' # Free => slot # Free
    BY SMTT(60) DEF Free
<1>4. NoLeakedClaim'
    BY <1>2, <1>3 DEF NoLeakedClaim, Holding
<1>5. HoldersKeep'
    BY <1>2 DEF HoldersKeep
<1> QED BY <1>1, <1>4, <1>5

\* release_token: afterwards the request is at a step that holds nothing.
LEMMA ReleaseStep ==
    ASSUME ClaimInv, NEW t \in Tasks, NEW l \in Pcs, Goes(t, l),
           slot' = Released(t), l \notin Holding
    PROVE  ClaimInv'
<1> USE DEF ClaimInv, ClaimTypeOK, Goes
<1>1. ClaimTypeOK'
    BY DEF Released, Free
<1>2. NoLeakedClaim'
    BY DEF Released, NoLeakedClaim, Holding
<1>3. HoldersKeep'
    BY DEF Released, HoldersKeep, Holding
<1> QED BY <1>1, <1>2, <1>3

\* A claim is taken when it is free or, by a promoter, from a materialisation.
LEMMA TakeStep ==
    ASSUME ClaimInv, NEW t \in Tasks, NEW l \in Pcs, Goes(t, l),
           slot = Free \/ slot.materializing,
           \/ slot' = Claim(t, FALSE) /\ l \in Claiming
           \/ slot' = Claim(t, TRUE) /\ l \in Materializing
    PROVE  ClaimInv'
<1> USE DEF ClaimInv, ClaimTypeOK, Goes
<1>1. ClaimTypeOK'
    <2>1. pc' \in [Tasks -> Pcs]
        OBVIOUS
    <2>2. \A m \in BOOLEAN : Claim(t, m) \in [by : Tasks \cup {None}, materializing : BOOLEAN, valid : BOOLEAN]
        BY DEF Claim
    <2> QED BY <2>1, <2>2
<1>2. NoLeakedClaim'
    BY SMTT(60) DEF Claim, NoLeakedClaim
<1>3. \A u \in Tasks : pc[u] \notin Claiming
    BY SMTT(60), TasksAssumption DEF HoldersKeep, Free, TasksAssumption
<1>4. HoldersKeep'
    BY SMTT(60), <1>3 DEF Claim, HoldersKeep, Claiming, Copying, Materializing
<1> QED BY <1>1, <1>2, <1>4

\* A step of a request that holds no claim and takes none.
LEMMA WalkStep ==
    ASSUME ClaimInv, NEW t \in Tasks, NEW l \in Pcs \ Holding, Goes(t, l),
           pc[t] \notin Holding, slot' = slot \/ slot' = [slot EXCEPT !.valid = FALSE]
    PROVE  ClaimInv'
BY KeepStep DEF Holding

-----------------------------------------------------------------------------
(* One step per action.                                                    *)

\* Every step keeps the claim invariant.
LEMMA ClaimStep ==
    ASSUME ClaimInv, [Next]_vars
    PROVE  ClaimInv'
<1> USE DEF Pcs, Holding, Claiming, Copying, Materializing
<1>1. ASSUME NEW t \in Tasks, NEW kind, NEW cover, Begin(t, kind, cover) PROVE ClaimInv'
    <2>1. PICK l \in {"lock", "inline", "backfill"} : Goes(t, l)
        BY <1>1 DEF Begin
    <2> QED BY <1>1, <2>1, WalkStep DEF Begin
<1>2. ASSUME NEW t \in Tasks, LockBlock(t) PROVE ClaimInv'
    BY <1>2, WalkStep DEF LockBlock, Goto
<1>3. ASSUME NEW t \in Tasks, Inline(t) PROVE ClaimInv'
    <2>1. PICK l \in {"backfill", "pread", "iclaim"} : Goes(t, l)
        BY <1>3 DEF Inline, Goto, Promote
    <2> QED BY <1>3, <2>1, WalkStep DEF Inline
<1>4. ASSUME NEW t \in Tasks, Look(t) PROVE ClaimInv'
    <2>1. PICK l \in {"gate", "claim", "probe"} : Goes(t, l)
        BY <1>4 DEF Look, Goto
    <2> QED BY <1>4, <2>1, WalkStep DEF Look
<1>5. ASSUME NEW t \in Tasks, Backfill(t) PROVE ClaimInv'
    <2>1. PICK l \in {"present", "gate", "claim", "probe"} : Goes(t, l)
        BY <1>5 DEF Backfill, Goto, AfterBackfill
    <2> QED BY <1>5, <2>1, WalkStep DEF Backfill
<1>6. ASSUME NEW t \in Tasks, BackfillTimeout(t) PROVE ClaimInv'
    <2>1. PICK l \in {"present", "gate"} : Goes(t, l)
        BY <1>6 DEF BackfillTimeout, Goto, AfterBackfill
    <2> QED BY <1>6, <2>1, WalkStep DEF BackfillTimeout
<1>7. ASSUME NEW t \in Tasks, Probe(t) PROVE ClaimInv'
    <2>1. PICK l \in {"mclaim", "present", "gate"} : Goes(t, l)
        BY <1>7 DEF Probe, Goto, AfterBackfill
    <2> QED BY <1>7, <2>1, WalkStep DEF Probe
<1>8. ASSUME NEW t \in Tasks, TryClaim(t) PROVE ClaimInv'
    <2>1. CASE slot = Free
        <3>1. PICK l \in {"cas", "icas"} : Goes(t, l)
            BY <1>8, <2>1 DEF TryClaim, Goto
        <3> QED BY <1>8, <2>1, <3>1, TakeStep DEF TryClaim
    <2>2. CASE slot # Free
        <3>1. PICK l \in {"look", "backfill"} : Goes(t, l)
            BY <1>8, <2>2 DEF TryClaim, Goto, Again
        <3> QED BY <1>8, <2>2, <3>1, WalkStep DEF TryClaim
    <2> QED BY <2>1, <2>2
<1>9. ASSUME NEW t \in Tasks, CasClaim(t) PROVE ClaimInv'
    <2>1. PICK l \in {"pread", "present", "gate", "look", "backfill"} : Goes(t, l)
        BY <1>9 DEF CasClaim, Goto, Promote, AfterBackfill, Again
    <2> QED BY <1>9, <2>1, ReleaseStep DEF CasClaim
<1>10. ASSUME NEW t \in Tasks, MaterializeClaim(t) PROVE ClaimInv'
    <2>1. CASE slot = Free
        BY <1>10, <2>1, TakeStep DEF MaterializeClaim, Goto
    <2>2. CASE slot # Free
        <3>1. PICK l \in {"look", "present", "gate"} : Goes(t, l)
            BY <1>10, <2>2 DEF MaterializeClaim, Goto, AfterBackfill
        <3> QED BY <1>10, <2>2, <3>1, WalkStep DEF MaterializeClaim
    <2> QED BY <2>1, <2>2
<1>11. ASSUME NEW t \in Tasks, MaterializeCas(t) PROVE ClaimInv'
    <2>1. CASE state = "NOT_PRESENT"
        BY <1>11, <2>1, KeepStep DEF MaterializeCas, Goto
    <2>2. CASE state # "NOT_PRESENT"
        <3>1. PICK l \in {"look", "present", "gate"} : Goes(t, l)
            BY <1>11, <2>2 DEF MaterializeCas, Goto, AfterBackfill
        <3> QED BY <1>11, <2>2, <3>1, ReleaseStep DEF MaterializeCas
    <2> QED BY <2>1, <2>2
<1>12. ASSUME NEW t \in Tasks, FetchLocal(t) PROVE ClaimInv'
    <2>1. PICK l \in {"commit", "resolve"} : Goes(t, l)
        BY <1>12 DEF FetchLocal
    <2> QED BY <1>12, <2>1, KeepStep DEF FetchLocal
<1>13. ASSUME NEW t \in Tasks, FetchS3(t) PROVE ClaimInv'
    BY <1>13, KeepStep DEF FetchS3
<1>14. ASSUME NEW t \in Tasks, FetchError(t) PROVE ClaimInv'
    BY <1>14, ReleaseStep DEF FetchError
<1>15. ASSUME NEW t \in Tasks, Commit(t) PROVE ClaimInv'
    <2>1. CASE slot' = slot /\ Goes(t, "landed")
        BY <1>15, <2>1, KeepStep DEF Commit
    <2>2. CASE slot' = Released(t) /\ \E l \in {"look", "present", "gate"} : Goes(t, l)
        BY <1>15, <2>2, ReleaseStep
    <2> QED BY <1>15, <2>1, <2>2 DEF Commit, Goto, AfterBackfill
<1>16. ASSUME NEW t \in Tasks, DropClaim(t) PROVE ClaimInv'
    <2>1. PICK l \in {"idle", "present", "gate"} : Goes(t, l)
        BY <1>16 DEF DropClaim, Goto, Acknowledge, AfterBackfill
    <2> QED BY <1>16, <2>1, ReleaseStep DEF DropClaim
<1>17. ASSUME NEW t \in Tasks, SetPresent(t) PROVE ClaimInv'
    <2>1. PICK l \in {"mark2", "present2", "data", "gate", "recheck"} : Goes(t, l)
        BY <1>17 DEF SetPresent, Goto, AfterPresent
    <2> QED BY <1>17, <2>1, WalkStep DEF SetPresent
<1>18. ASSUME NEW t \in Tasks, SetClean(t) PROVE ClaimInv'
    <2>1. PICK l \in {"data", "gate", "recheck"} : Goes(t, l)
        BY <1>18 DEF SetClean, Goto, AfterPresent
    <2> QED BY <1>18, <2>1, WalkStep DEF SetClean
<1>19. ASSUME NEW t \in Tasks, Recheck(t) PROVE ClaimInv'
    <2>1. PICK l \in {"backfill", "gate"} : Goes(t, l)
        BY <1>19 DEF Recheck, Goto
    <2> QED BY <1>19, <2>1, WalkStep DEF Recheck
<1>20. ASSUME NEW t \in Tasks, EnterGate(t) PROVE ClaimInv'
    BY <1>20, WalkStep DEF EnterGate, Goto, Promote
<1>21. ASSUME NEW t \in Tasks, PromoteRead(t) PROVE ClaimInv'
    <2>1. PICK l \in {"look", "backfill", "pclaim", "mark"} : Goes(t, l)
        BY <1>21 DEF PromoteRead, Goto, Retry, Again
    <2> QED BY <1>21, <2>1, WalkStep DEF PromoteRead
<1>22. ASSUME NEW t \in Tasks, PromoteClaim(t) PROVE ClaimInv'
    <2>1. CASE slot = Free \/ (task[t].st = "SYNCING" /\ slot.materializing)
        BY <1>22, <2>1, TakeStep DEF PromoteClaim, Goto
    <2>2. CASE ~(slot = Free \/ (task[t].st = "SYNCING" /\ slot.materializing))
        BY <1>22, <2>2, WalkStep DEF PromoteClaim, Goto
    <2> QED BY <2>1, <2>2
<1>23. ASSUME NEW t \in Tasks, PromoteWait(t) PROVE ClaimInv'
    BY <1>23, WalkStep DEF PromoteWait, Goto
<1>24. ASSUME NEW t \in Tasks, PromoteTimeout(t) PROVE ClaimInv'
    <2>1. PICK l \in {"look", "backfill", "pread"} : Goes(t, l)
        BY <1>24 DEF PromoteTimeout, Goto, Retry, Again
    <2> QED BY <1>24, <2>1, WalkStep DEF PromoteTimeout
<1>25. ASSUME NEW t \in Tasks, PromoteRecheck(t) PROVE ClaimInv'
    <2>1. CASE state = task[t].st
        BY <1>25, <2>1, KeepStep DEF PromoteRecheck, Goto
    <2>2. CASE state # task[t].st
        BY <1>25, <2>2, ReleaseStep DEF PromoteRecheck, Goto
    <2> QED BY <2>1, <2>2
<1>26. ASSUME NEW t \in Tasks, PromoteCopy(t) PROVE ClaimInv'
    <2>1. CASE slot' = slot /\ Goes(t, "pcas")
        BY <1>26, <2>1, KeepStep DEF PromoteCopy
    <2>2. CASE slot' = Released(t) /\ \E l \in {"look", "backfill", "mark"} : Goes(t, l)
        BY <1>26, <2>2, ReleaseStep
    <2> QED BY <1>26, <2>1, <2>2 DEF PromoteCopy, Goto, Retry, Again
<1>27. ASSUME NEW t \in Tasks, PromoteCas(t) PROVE ClaimInv'
    BY <1>27, ReleaseStep DEF PromoteCas, Goto
<1>28. ASSUME NEW t \in Tasks, WriteData(t) PROVE ClaimInv'
    BY <1>28, WalkStep DEF WriteData, Goto
<1>29. ASSUME NEW t \in Tasks, MarkDirty(t) PROVE ClaimInv'
    BY <1>29, WalkStep DEF MarkDirty, Goto, Acknowledge
<1>30. CASE FlushNext \/ UNCHANGED vars
    <2>1. UNCHANGED <<pc, slot>>
        BY <1>30 DEF FlushNext, Rotate, Upload, Evict, DropFlushing, UploadError, DropFailed, Redirty, vars
    <2> QED BY <2>1 DEF ClaimInv, ClaimTypeOK, NoLeakedClaim, HoldersKeep
<1>31. ASSUME NEW t \in Tasks, TaskNext(t) PROVE ClaimInv'
    BY <1>31, <1>2, <1>3, <1>4, <1>5, <1>6, <1>7, <1>8, <1>9, <1>10, <1>11, <1>12, <1>13, <1>14,
       <1>15, <1>16, <1>17, <1>18, <1>19, <1>20, <1>21, <1>22, <1>23, <1>24, <1>25, <1>26,
       <1>27, <1>28, <1>29 DEF TaskNext
<1> QED BY <1>1, <1>30, <1>31 DEF Next

\* Nobody holds a claim at the start.
LEMMA ClaimInit == Init => ClaimInv
BY SMTT(60), TasksAssumption DEF TasksAssumption, Init, ClaimInv, ClaimTypeOK, NoLeakedClaim, HoldersKeep,
   Free, Pcs, Claiming, Copying, Materializing

\* The claim invariant holds in every behaviour.
LEMMA ClaimsHold == Spec => []ClaimInv
<1>1. ClaimInv /\ [Next]_vars => ClaimInv'
    BY ClaimStep
<1> QED BY <1>1, ClaimInit, PTL DEF Spec

-----------------------------------------------------------------------------
(* What the invariant gives.                                               *)

\* No path of any request, through lost races, steals, invalidated claims and
\* failed fetches, ends with the promote claim still taken: a block can always be
\* promoted and materialised again.
THEOREM ClaimsAreReleased == Spec => []NoLeakedClaim
BY ClaimsHold, PTL DEF ClaimInv

\* promote_syncing_blocks copies the flushing file over the block only with the
\* claim in its hands, and steal_from_materializer never takes it from another
\* promoter.
THEOREM CopiersExclude == Spec => []OneCopier
<1>1. ClaimInv => OneCopier
    BY DEF ClaimInv, HoldersKeep, OneCopier, Claiming
<1> QED BY <1>1, ClaimsHold, PTL

\* Both together: whoever copies has the claim, and whoever has the claim gives
\* it back.
THEOREM ClaimsAreSound == Spec => []ClaimsSound
BY ClaimsAreReleased, CopiersExclude, PTL DEF ClaimsSound
=============================================================================
