----------------------------- MODULE FencingProofs -----------------------------
(*****************************************************************************)
(* For any number of nodes, tokens, edits and faults: while the manifest      *)
(* exists and the fence never runs beside a flush, the nodes implement        *)
(* SingleWriter.  A PUT is harmless because its body extends the manifest its *)
(* If-Match names; that is what Extends and Current say of every request      *)
(* in flight, answered or abandoned.                                          *)
(*****************************************************************************)
EXTENDS Fencing, TLAPS

\* A leaf goes to Zenon; the leaves with arithmetic or sequences go to the SMT solver.
USE ZenonT(60)

Answered == {"sent", "ok", "conflict", "error"}
Up == {"created", "serving"}

\* A request that carries an ETag publishes at least what that manifest has.
Extends(r) == r.expect \in Manifest /\ r.body \in Manifest /\ r.expect.packs \subseteq r.body.packs

\* What node n would publish extends what it believes is stored, its own
\* outstanding PUT carries exactly its in-memory manifest, and its fence and its
\* flush are never under way together.
Current(n) ==
  /\ mode[n] \in Up => etag[n] \in Manifest /\ etag[n].packs \subseteq mem[n].packs
  /\ pc[<<n, "attach">>] # "idle" => mode[n] = "created"
  /\ pc[<<n, "flush">>] # "idle" => mode[n] = "serving" /\ dirty[n] \in mem[n].packs
  /\ \A p \in {<<n, "attach">>, <<n, "flush">>} :
       pc[p] \in Answered => Extends(req[p]) /\ req[p].body = mem[n]

\* The strengthening of AckedStaysPublished that every step preserves.
FenceInv ==
  Conditional =>
    /\ s3 \in Manifest
    /\ acked \subseteq s3.packs
    /\ \A n \in Nodes : Current(n)
    /\ \A r \in late : Extends(r)
    /\ \A p \in Procs : pc[p] = "ok" => req[p].body.packs \subseteq s3.packs

USE TagAssumption, FencingAssumption

\* The type invariant in three parts: the calls, the nodes, and the rest.
CallsOK == /\ pc \in [Procs -> Steps] /\ left \in [Procs -> Nat]
           /\ req \in [Procs -> [body : Manifest \cup {NoTag}, expect : Manifest \cup {NoTag}]]
           /\ \A p \in Procs : pc[p] \in Answered => req[p].body \in Manifest

NodesOK == /\ mem \in [Nodes -> Manifest] /\ etag \in [Nodes -> Manifest \cup {NoTag}]
           /\ held \in [Nodes -> 0..MaxToken] /\ wants \in [Nodes -> 0..MaxToken]
           /\ mode \in [Nodes -> {"down", "created", "serving", "crashed"}]
           /\ stopped \in [Nodes -> {"no", "conflict", "fenced"}]
           /\ dirty \in [Nodes -> 0..MaxEdits]
           /\ issued \in [Nodes -> SUBSET (1..MaxToken)]

WorldOK == /\ occurs \in Scenarios /\ s3 \in Manifest \cup {NoTag}
           /\ late \in SUBSET [body : Manifest, expect : Manifest \cup {NoTag}]
           /\ written \in 0..MaxEdits /\ faults \in 0..MaxFaults
           /\ acked \in SUBSET (0..MaxEdits)

\* Ending a call, or all the calls of a node, keeps the types of the calls.
LEMMA DoneTypes ==
  ASSUME CallsOK
  PROVE /\ \A p \in Procs : Done(p) => CallsOK'
        /\ \A n \in Nodes : AllDone(n) => CallsOK'
<1> USE DEF CallsOK, Steps, NoReq, Answered
<1>1. ASSUME NEW p \in Procs, Done(p) PROVE CallsOK'
  BY <1>1 DEF Done
<1>2. ASSUME NEW n \in Nodes, AllDone(n) PROVE CallsOK'
  <2> DEFINE a == <<n, "attach">>
             f == <<n, "flush">>
  <2>1. a \in Procs /\ f \in Procs
    BY DEF Procs
  <2>2. /\ pc' = [pc EXCEPT ![a] = "idle", ![f] = "idle"]
        /\ req' = [req EXCEPT ![a] = NoReq, ![f] = NoReq]
        /\ left' = [left EXCEPT ![a] = 0, ![f] = 0]
    BY <1>2 DEF AllDone
  <2> HIDE DEF a, f
  <2> QED
    BY <2>1, <2>2
<1> QED
  BY <1>1, <1>2

\* A manifest stays one when its token is replaced or packs are added to it.
LEMMA ManifestEdits ==
  ASSUME NEW m \in Manifest, NEW t \in 0..MaxToken, NEW d \in 0..MaxEdits
  PROVE /\ Fresh \in Manifest
        /\ [m EXCEPT !.token = t] \in Manifest
        /\ [m EXCEPT !.token = t].packs = m.packs
        /\ d # 0 => [token |-> t, packs |-> m.packs \cup {d}] \in Manifest
  BY SMTT(60) DEF Manifest, Edits, Fresh

\* Every step of the fence's model keeps the types of its state.
LEMMA FenceTypeStep == FenceTypeOK /\ [FenceNext]_fenceVars => FenceTypeOK'
<1> SUFFICES ASSUME CallsOK, NodesOK, WorldOK, [FenceNext]_fenceVars
             PROVE CallsOK' /\ NodesOK' /\ WorldOK'
  BY DEF FenceTypeOK, CallsOK, NodesOK, WorldOK, Answered
<1>0. \A n \in Nodes : <<n, "attach">> \in Procs /\ <<n, "flush">> \in Procs
  BY DEF Procs
<1>00. Fresh \in Manifest
  BY SMTT(60) DEF Fresh, Manifest
<1>1. ASSUME NEW n \in Nodes, CreateHere(n) PROVE CallsOK' /\ NodesOK' /\ WorldOK'
  <2>1. CallsOK'
    BY <1>0, <1>1 DEF CreateHere, FenceStarts, CallsOK, Steps, NoReq, Answered, calls
  <2>2. NodesOK'
    <3>1. /\ issued' \in [Nodes -> SUBSET (1..MaxToken)]
          /\ wants' \in [Nodes -> 0..MaxToken]
      BY SMTT(60), <1>1 DEF CreateHere, AttachRequest, NodesOK
    <3>2. /\ mem' = [mem EXCEPT ![n] = IF s3 = NoTag THEN Fresh ELSE s3]
          /\ etag' = [etag EXCEPT ![n] = s3]
          /\ held' = [held EXCEPT ![n] = 0]
          /\ stopped' = [stopped EXCEPT ![n] = "no"]
          /\ mode' = [mode EXCEPT ![n] = "created"]
          /\ dirty' = dirty
      BY <1>1 DEF CreateHere, LoadManifest
    <3> QED
      BY SMTT(60), <1>00, <3>1, <3>2 DEF NodesOK, WorldOK
  <2>3. WorldOK'
    BY <1>1 DEF CreateHere, WorldOK
  <2> QED
    BY <2>1, <2>2, <2>3
<1>2. ASSUME NEW n \in Nodes, Reattach(n) PROVE CallsOK' /\ NodesOK' /\ WorldOK'
  <2>1. CallsOK'
    BY <1>0, <1>2 DEF Reattach, FenceStarts, CallsOK, Steps, NoReq, Answered, calls
  <2>2. NodesOK'
    BY SMTT(60), <1>2 DEF Reattach, AttachRequest, NodesOK, nodeVars
  <2>3. WorldOK'
    BY <1>2 DEF Reattach, WorldOK
  <2> QED
    BY <2>1, <2>2, <2>3
<1>3. ASSUME NEW n \in Nodes, Rediscover(n) PROVE CallsOK' /\ NodesOK' /\ WorldOK'
  <2>1. CallsOK'
    BY <1>0, <1>3 DEF Rediscover, CallsOK, Steps, NoReq, Answered, calls
  <2>2. NodesOK'
    BY SMTT(60), <1>00, <1>3 DEF Rediscover, LoadManifest, NodesOK, WorldOK
  <2>3. WorldOK'
    BY <1>3 DEF Rediscover, WorldOK
  <2> QED
    BY <2>1, <2>2, <2>3
<1>4. ASSUME NEW n \in Nodes, NodeCrash(n) PROVE CallsOK' /\ NodesOK' /\ WorldOK'
  <2>1. CallsOK'
    BY <1>0, <1>4, DoneTypes DEF NodeCrash, CallsOK, Steps, NoReq, Answered, calls
  <2>2. NodesOK'
    BY <1>4 DEF NodeCrash, NodesOK, nodeVars
  <2>3. WorldOK'
    BY SMTT(60), <1>4 DEF NodeCrash, WorldOK
  <2> QED
    BY <2>1, <2>2, <2>3
<1>5. ASSUME NEW n \in Nodes, FenceReject(n) PROVE CallsOK' /\ NodesOK' /\ WorldOK'
  <2>1. CallsOK'
    BY <1>0, <1>5, DoneTypes DEF FenceReject, NotAttached, CallsOK, Steps, NoReq, Answered, calls
  <2>2. NodesOK'
    BY SMTT(60), <1>5 DEF FenceReject, NotAttached, NodesOK, nodeVars
  <2>3. WorldOK'
    BY <1>5 DEF FenceReject, WorldOK
  <2> QED
    BY <2>1, <2>2, <2>3
<1>6. ASSUME NEW n \in Nodes, FenceGrant(n) PROVE CallsOK' /\ NodesOK' /\ WorldOK'
  <2> DEFINE body == [mem[n] EXCEPT !.token = wants[n]]
  <2>0. body \in Manifest
    BY ManifestEdits DEF NodesOK
  <2>1. CallsOK'
    <3>1. CASE wants[n] = mem[n].token
      BY <1>0, <1>6, <3>1, DoneTypes DEF FenceGrant
    <3>2. CASE wants[n] # mem[n].token
      <4>1. /\ pc' = [pc EXCEPT ![<<n, "attach">>] = "sent"]
            /\ req' = [req EXCEPT ![<<n, "attach">>] = [body |-> body, expect |-> etag[n]]]
            /\ left' = left
        BY <1>6, <3>2 DEF FenceGrant
      <4> HIDE DEF body
      <4> QED
        BY <1>0, <2>0, <4>1 DEF CallsOK, NodesOK, Steps, Answered
    <3> QED
      BY <3>1, <3>2
  <2>2. NodesOK'
    <3>1. /\ mem' = mem \/ mem' = [mem EXCEPT ![n] = body]
          /\ mode' = mode \/ mode' = [mode EXCEPT ![n] = "serving"]
          /\ held' = [held EXCEPT ![n] = wants[n]]
          /\ UNCHANGED <<etag, wants, stopped, dirty, issued>>
      BY <1>6 DEF FenceGrant, Granted
    <3> HIDE DEF body
    <3> QED
      BY <2>0, <3>1 DEF NodesOK
  <2>3. WorldOK'
    BY <1>6 DEF FenceGrant, WorldOK
  <2> QED
    BY <2>1, <2>2, <2>3
<1>7. ASSUME NEW n \in Nodes, FenceSeized(n) PROVE CallsOK' /\ NodesOK' /\ WorldOK'
  <2>1. CallsOK'
    BY <1>0, <1>7, DoneTypes DEF FenceSeized, CallsOK, Steps, NoReq, Answered, calls
  <2>2. NodesOK'
    BY <1>0, <1>7 DEF FenceSeized, Granted, NodesOK, CallsOK, Answered
  <2>3. WorldOK'
    BY <1>7 DEF FenceSeized, WorldOK
  <2> QED
    BY <2>1, <2>2, <2>3
<1>8. ASSUME NEW n \in Nodes, FenceReload(n) PROVE CallsOK' /\ NodesOK' /\ WorldOK'
  <2>1. CallsOK'
    <3>1. CASE left[<<n, "attach">>] > 1
      <4> DEFINE c == <<n, "attach">>
      <4>0. c \in Procs /\ left[c] > 1 /\ left[c] \in Nat
        BY <1>0, <3>1 DEF CallsOK
      <4>1. left[c] - 1 \in Nat
        BY <4>0, Z3
      <4>2. /\ left' = [left EXCEPT ![c] = left[c] - 1]
            /\ pc' = [pc EXCEPT ![c] = "check"]
            /\ req' = [req EXCEPT ![c] = NoReq]
            /\ pc[c] = "conflict"
        BY <1>8, <3>1 DEF FenceReload
      <4> HIDE DEF c
      <4> QED
        BY <4>0, <4>1, <4>2 DEF CallsOK, Steps, NoReq, Answered
    <3>2. CASE ~(left[<<n, "attach">>] > 1)
      BY <1>0, <1>8, <3>2, DoneTypes DEF FenceReload, NotAttached
    <3> QED
      BY <3>1, <3>2
  <2>2. NodesOK'
    BY SMTT(60), <1>8 DEF FenceReload, NotAttached, NodesOK, WorldOK, nodeVars
  <2>3. WorldOK'
    BY <1>8 DEF FenceReload, WorldOK
  <2> QED
    BY <2>1, <2>2, <2>3
<1>9. ASSUME NEW n \in Nodes, FenceError(n) PROVE CallsOK' /\ NodesOK' /\ WorldOK'
  <2>1. CallsOK'
    BY <1>0, <1>9, DoneTypes DEF FenceError, NotAttached, CallsOK, Steps, NoReq, Answered, calls
  <2>2. NodesOK'
    BY SMTT(60), <1>9 DEF FenceError, NotAttached, NodesOK, nodeVars
  <2>3. WorldOK'
    BY <1>9 DEF FenceError, WorldOK
  <2> QED
    BY <2>1, <2>2, <2>3
<1>10. ASSUME NEW n \in Nodes, GuestEdit(n) PROVE CallsOK' /\ NodesOK' /\ WorldOK'
  <2>1. CallsOK'
    BY <1>0, <1>10 DEF GuestEdit, CallsOK, Steps, NoReq, Answered, calls
  <2>2. NodesOK'
    BY SMTT(60), <1>10 DEF GuestEdit, NodesOK, WorldOK, nodeVars
  <2>3. WorldOK'
    BY SMTT(60), <1>10 DEF GuestEdit, WorldOK
  <2> QED
    BY <2>1, <2>2, <2>3
<1>11. ASSUME NEW n \in Nodes, StagePacks(n) PROVE CallsOK' /\ NodesOK' /\ WorldOK'
  <2>1. CallsOK'
    BY <1>0, <1>11 DEF StagePacks, CallsOK, Steps, NoReq, Answered, calls
  <2>2. NodesOK'
    BY <1>11, ManifestEdits DEF StagePacks, FlushRuns, NodesOK, nodeVars
  <2>3. WorldOK'
    BY <1>11 DEF StagePacks, WorldOK
  <2> QED
    BY <2>1, <2>2, <2>3
<1>12. ASSUME NEW n \in Nodes, SkipKnownPack(n) PROVE CallsOK' /\ NodesOK' /\ WorldOK'
  <2>1. CallsOK'
    BY <1>0, <1>12 DEF SkipKnownPack, CallsOK, Steps, NoReq, Answered, calls
  <2>2. NodesOK'
    BY SMTT(60), <1>12 DEF SkipKnownPack, FlushRuns, NodesOK, nodeVars
  <2>3. WorldOK'
    BY <1>12 DEF SkipKnownPack, WorldOK
  <2> QED
    BY <2>1, <2>2, <2>3
<1>13. ASSUME NEW n \in Nodes, SendSync(n) PROVE CallsOK' /\ NodesOK' /\ WorldOK'
  <2>1. CallsOK'
    BY <1>0, <1>13 DEF SendSync, CallsOK, NodesOK, Steps, NoReq, Answered, calls
  <2>2. NodesOK'
    BY <1>13 DEF SendSync, NodesOK, nodeVars
  <2>3. WorldOK'
    BY <1>13 DEF SendSync, WorldOK
  <2> QED
    BY <2>1, <2>2, <2>3
<1>14. ASSUME NEW n \in Nodes, Synced(n) PROVE CallsOK' /\ NodesOK' /\ WorldOK'
  <2>1. CallsOK'
    BY <1>0, <1>14, DoneTypes DEF Synced, CallsOK, Steps, NoReq, Answered, calls
  <2>2. NodesOK'
    <3>1. req[<<n, "flush">>].body \in Manifest
      BY <1>0, <1>14 DEF Synced, CallsOK, Answered
    <3>2. /\ etag' = [etag EXCEPT ![n] = req[<<n, "flush">>].body]
          /\ dirty' = [dirty EXCEPT ![n] = 0]
          /\ UNCHANGED <<mem, held, wants, mode, stopped, issued>>
      BY <1>14 DEF Synced
    <3> QED
      BY SMTT(60), <3>1, <3>2 DEF NodesOK
  <2>3. WorldOK'
    BY <1>14 DEF Synced, WorldOK, NodesOK
  <2> QED
    BY <2>1, <2>2, <2>3
<1>15. ASSUME NEW n \in Nodes, SyncConflict(n) PROVE CallsOK' /\ NodesOK' /\ WorldOK'
  <2>1. CallsOK'
    BY <1>0, <1>15, DoneTypes DEF SyncConflict, CallsOK, Steps, NoReq, Answered, calls
  <2>2. NodesOK'
    BY <1>15 DEF SyncConflict, NodesOK, nodeVars
  <2>3. WorldOK'
    BY <1>15 DEF SyncConflict, WorldOK
  <2> QED
    BY <2>1, <2>2, <2>3
<1>16. ASSUME NEW n \in Nodes, SyncError(n) PROVE CallsOK' /\ NodesOK' /\ WorldOK'
  <2>1. CallsOK'
    <3>1. CASE left[<<n, "flush">>] > 1
      <4> DEFINE c == <<n, "flush">>
      <4>0. c \in Procs /\ left[c] > 1 /\ left[c] \in Nat
        BY <1>0, <3>1 DEF CallsOK
      <4>1. left[c] - 1 \in Nat
        BY <4>0, Z3
      <4>2. /\ left' = [left EXCEPT ![c] = left[c] - 1]
            /\ pc' = [pc EXCEPT ![c] = "sent"]
            /\ req' = req
            /\ pc[c] = "error"
        BY <1>16, <3>1 DEF SyncError
      <4> HIDE DEF c
      <4> QED
        BY <4>0, <4>1, <4>2 DEF CallsOK, Steps, Answered
    <3>2. CASE ~(left[<<n, "flush">>] > 1)
      BY <1>0, <1>16, <3>2, DoneTypes DEF SyncError
    <3> QED
      BY <3>1, <3>2
  <2>2. NodesOK'
    BY <1>16 DEF SyncError, NodesOK, nodeVars
  <2>3. WorldOK'
    BY <1>16 DEF SyncError, WorldOK
  <2> QED
    BY <2>1, <2>2, <2>3
<1>17. ASSUME NEW p \in Procs, StorePut(p) PROVE CallsOK' /\ NodesOK' /\ WorldOK'
  BY <1>17 DEF StorePut, Matches, CallsOK, NodesOK, WorldOK, Steps, Answered, nodeVars
<1>18. ASSUME NEW p \in Procs, AnswerLost(p) PROVE CallsOK' /\ NodesOK' /\ WorldOK'
  BY SMTT(60), <1>18 DEF AnswerLost, CallsOK, NodesOK, WorldOK, Steps, Answered, nodeVars
<1>19. ASSUME NEW p \in Procs, GaveUp(p) PROVE CallsOK' /\ NodesOK' /\ WorldOK'
  BY SMTT(60), <1>19 DEF GaveUp, CallsOK, NodesOK, WorldOK, Steps, Answered, nodeVars
<1>20. CASE LatePut
  BY <1>20 DEF LatePut, Matches, CallsOK, NodesOK, WorldOK, calls, nodeVars
<1>21. CASE UNCHANGED fenceVars
  BY <1>21 DEF fenceVars, calls, nodeVars, CallsOK, NodesOK, WorldOK
<1>22. QED
  BY <1>1, <1>2, <1>3, <1>4, <1>5, <1>6, <1>7, <1>8, <1>9, <1>10, <1>11,
     <1>12, <1>13, <1>14, <1>15, <1>16, <1>17, <1>18, <1>19, <1>20, <1>21 DEF FenceNext


\* A step of a node leaves the other nodes' share of the invariant alone.
LEMMA OthersCurrent ==
  ASSUME NEW n \in Nodes, NEW m \in Nodes, m # n, Current(m),
         mode'[m] = mode[m], etag'[m] = etag[m], mem'[m] = mem[m], dirty'[m] = dirty[m],
         pc'[<<m, "attach">>] = pc[<<m, "attach">>], pc'[<<m, "flush">>] = pc[<<m, "flush">>],
         req'[<<m, "attach">>] = req[<<m, "attach">>], req'[<<m, "flush">>] = req[<<m, "flush">>]
  PROVE Current(m)'
  BY DEF Current, Extends

\* The answer to a call, or its loss, changes nothing a node believes.
LEMMA AnswerKeepsCurrent ==
  ASSUME NEW m, Current(m), UNCHANGED <<req, mode, etag, mem, dirty>>,
         \A q \in {<<m, "attach">>, <<m, "flush">>} :
            pc'[q] = pc[q] \/ (pc[q] \in Answered /\ pc'[q] \in Answered)
  PROVE Current(m)'
<1>1. \A q \in {<<m, "attach">>, <<m, "flush">>} :
        /\ pc'[q] # "idle" => pc[q] # "idle"
        /\ pc'[q] \in Answered => pc[q] \in Answered
  BY DEF Answered
<1> QED
  BY <1>1 DEF Current, Extends

\* The scenario of a behaviour never changes.
LEMMA ScenarioFixed == [FenceNext]_fenceVars => occurs' = occurs
  BY DEF FenceNext, fenceVars, CreateHere, Reattach, Rediscover, NodeCrash, FenceReject, FenceGrant,
     FenceSeized, FenceReload, FenceError, GuestEdit, StagePacks, SkipKnownPack, SendSync, Synced,
     SyncConflict, SyncError, StorePut, AnswerLost, GaveUp, LatePut

\* Every step keeps the fence's invariant.
LEMMA FenceInvStep ==
  FenceTypeOK /\ FenceInv /\ [FenceNext]_fenceVars => FenceInv'
<1> SUFFICES ASSUME FenceTypeOK, FenceInv, [FenceNext]_fenceVars, Conditional'
             PROVE FenceInv'
  BY DEF FenceInv
<1>a. occurs' = occurs
  BY ScenarioFixed
<1>b. Conditional /\ CallsOK /\ NodesOK /\ WorldOK
  BY <1>a DEF FenceTypeOK, CallsOK, NodesOK, WorldOK, Answered, Conditional
<1>c. /\ s3 \in Manifest /\ acked \subseteq s3.packs
      /\ \A n \in Nodes : Current(n)
      /\ \A r \in late : Extends(r)
      /\ \A p \in Procs : pc[p] = "ok" => req[p].body.packs \subseteq s3.packs
  BY <1>b DEF FenceInv
<1>d. SUFFICES /\ s3' \in Manifest /\ (acked \subseteq s3.packs)'
               /\ \A n \in Nodes : Current(n)'
               /\ \A r \in late' : Extends(r)
               /\ \A p \in Procs : pc'[p] = "ok" => req'[p].body.packs \subseteq s3'.packs
  BY DEF FenceInv, Extends
<1> DEFINE Goal == /\ s3' \in Manifest /\ (acked \subseteq s3.packs)'
                   /\ \A n \in Nodes : Current(n)'
                   /\ \A r \in late' : Extends(r)
                   /\ \A p \in Procs : pc'[p] = "ok" => req'[p].body.packs \subseteq s3'.packs
<1>e. \A n \in Nodes : <<n, "attach">> \in Procs /\ <<n, "flush">> \in Procs
  BY DEF Procs
<1>f. ASSUME NEW p \in Procs, pc[p] \in Answered PROVE Extends(req[p])
  <2>1. PICK n \in Nodes : p = <<n, "attach">> \/ p = <<n, "flush">>
    BY SMTT(60) DEF Procs
  <2> QED
    BY <1>c, <1>f, <2>1 DEF Current
<1>1. ASSUME NEW n \in Nodes, CreateHere(n) PROVE Goal
  <2>1. Current(n)'
    <3>1. mode[n] = "down" /\ pc[<<n, "flush">>] = "idle" /\ s3 \in Manifest
      BY <1>b, <1>c, <1>1 DEF CreateHere, Current, Answered, Up
    <3>2. /\ mode'[n] = "created" /\ etag'[n] = s3 /\ mem'[n] = s3
          /\ pc'[<<n, "attach">>] = "check" /\ pc'[<<n, "flush">>] = "idle"
      BY <1>b, <1>c, <1>e, <1>1, <3>1 DEF CreateHere, LoadManifest, FenceStarts, NodesOK, CallsOK, nodeVars, calls
    <3> QED
      BY <1>b, <1>c, <3>1, <3>2 DEF Current, Extends, Answered, Up, NodesOK, CallsOK
  <2>2. ASSUME NEW m \in Nodes, m # n PROVE Current(m)'
    BY <1>b, <1>c, <1>e, <1>1, <2>2, OthersCurrent DEF CreateHere, AttachRequest, LoadManifest, FenceStarts, NodesOK, CallsOK, nodeVars, calls
  <2>3. \A p \in Procs : pc'[p] = "ok" => req'[p].body.packs \subseteq s3'.packs
    BY <1>b, <1>c, <1>e, <1>1 DEF CreateHere, AttachRequest, LoadManifest, FenceStarts, CallsOK, nodeVars, calls
  <2> QED
    BY <1>c, <1>1, <2>1, <2>2, <2>3 DEF CreateHere
<1>2. ASSUME NEW n \in Nodes, Reattach(n) PROVE Goal
  BY <1>b, <1>2 DEF Reattach, Conditional
<1>3. ASSUME NEW n \in Nodes, Rediscover(n) PROVE Goal
  <2>1. Current(n)'
    BY <1>b, <1>c, <1>e, <1>3 DEF Rediscover, LoadManifest, Current, Extends, Answered, Up, NodesOK, CallsOK, nodeVars, calls
  <2>2. ASSUME NEW m \in Nodes, m # n PROVE Current(m)'
    BY <1>b, <1>c, <1>e, <1>3, <2>2, OthersCurrent DEF Rediscover, LoadManifest, NodesOK, CallsOK, nodeVars, calls
  <2>3. \A p \in Procs : pc'[p] = "ok" => req'[p].body.packs \subseteq s3'.packs
    BY <1>b, <1>c, <1>e, <1>3 DEF Rediscover, LoadManifest, CallsOK, nodeVars, calls
  <2> QED
    BY <1>c, <1>3, <2>1, <2>2, <2>3 DEF Rediscover
<1>4. ASSUME NEW n \in Nodes, NodeCrash(n) PROVE Goal
  <2>1. Current(n)'
    BY <1>b, <1>c, <1>e, <1>4 DEF NodeCrash, AllDone, Current, Extends, Answered, Up, NodesOK, CallsOK, nodeVars, calls
  <2>2. ASSUME NEW m \in Nodes, m # n PROVE Current(m)'
    BY <1>b, <1>c, <1>e, <1>4, <2>2, OthersCurrent DEF NodeCrash, AllDone, NodesOK, CallsOK, nodeVars, calls
  <2>3. \A p \in Procs : pc'[p] = "ok" => req'[p].body.packs \subseteq s3'.packs
    BY <1>b, <1>c, <1>e, <1>4 DEF NodeCrash, AllDone, CallsOK, nodeVars, calls
  <2> QED
    BY <1>c, <1>4, <2>1, <2>2, <2>3 DEF NodeCrash
<1>5. ASSUME NEW n \in Nodes, FenceReject(n) PROVE Goal
  <2>1. Current(n)'
    <3>1. mode[n] = "created"
      BY <1>b, <1>c, <1>5 DEF FenceReject, Current, Answered, Up
    <3>2. /\ mode'[n] = "down"
          /\ pc'[<<n, "attach">>] = "idle" /\ pc'[<<n, "flush">>] = "idle"
      BY <1>b, <1>c, <1>e, <1>5, <3>1 DEF FenceReject, NotAttached, AllDone, NodesOK, CallsOK, nodeVars, calls
    <3> QED
      BY <1>b, <1>c, <3>1, <3>2 DEF Current, Extends, Answered, Up, NodesOK, CallsOK
  <2>2. ASSUME NEW m \in Nodes, m # n PROVE Current(m)'
    BY <1>b, <1>c, <1>e, <1>5, <2>2, OthersCurrent DEF FenceReject, NotAttached, Done, AllDone, NodesOK, CallsOK, nodeVars, calls
  <2>3. \A p \in Procs : pc'[p] = "ok" => req'[p].body.packs \subseteq s3'.packs
    BY <1>b, <1>c, <1>e, <1>5 DEF FenceReject, NotAttached, Done, AllDone, CallsOK, nodeVars, calls
  <2> QED
    BY <1>c, <1>5, <2>1, <2>2, <2>3 DEF FenceReject
<1>6. ASSUME NEW n \in Nodes, FenceGrant(n) PROVE Goal
  <2>1. Current(n)'
    <3> DEFINE body == [mem[n] EXCEPT !.token = wants[n]]
    <3>1. mode[n] = "created" /\ pc[<<n, "flush">>] = "idle"
      BY <1>c, <1>6 DEF FenceGrant, Current
    <3>2. body \in Manifest /\ body.packs = mem[n].packs
      BY <1>b, ManifestEdits DEF NodesOK
    <3>3. CASE wants[n] = mem[n].token
      <4>1. /\ mode'[n] = "serving" /\ etag'[n] = etag[n] /\ mem'[n] = mem[n]
            /\ pc'[<<n, "attach">>] = "idle" /\ pc'[<<n, "flush">>] = "idle"
        BY <1>b, <1>e, <1>6, <3>1, <3>3 DEF FenceGrant, Granted, Done, NodesOK, CallsOK
      <4> QED
        BY <1>c, <3>1, <4>1 DEF Current, Answered, Up
    <3>4. CASE wants[n] # mem[n].token
      <4>1. /\ mode'[n] = "created" /\ etag'[n] = etag[n] /\ mem'[n] = body
            /\ pc'[<<n, "attach">>] = "sent" /\ pc'[<<n, "flush">>] = "idle"
            /\ req'[<<n, "attach">>] = [body |-> body, expect |-> etag[n]]
        BY <1>b, <1>e, <1>6, <3>1, <3>4 DEF FenceGrant, NodesOK, CallsOK
      <4> HIDE DEF body
      <4> QED
        BY SMTT(60), <1>c, <3>1, <3>2, <4>1 DEF Current, Extends, Answered, Up
    <3> QED
      BY <3>3, <3>4
  <2>2. ASSUME NEW m \in Nodes, m # n PROVE Current(m)'
    BY <1>b, <1>c, <1>e, <1>6, <2>2, OthersCurrent DEF FenceGrant, Granted, Done, NodesOK, CallsOK, nodeVars, calls
  <2>3. \A p \in Procs : pc'[p] = "ok" => req'[p].body.packs \subseteq s3'.packs
    BY <1>b, <1>c, <1>e, <1>6 DEF FenceGrant, Granted, Done, CallsOK, nodeVars, calls
  <2> QED
    BY <1>c, <1>6, <2>1, <2>2, <2>3 DEF FenceGrant
<1>7. ASSUME NEW n \in Nodes, FenceSeized(n) PROVE Goal
  <2>1. Current(n)'
    BY <1>b, <1>c, <1>e, <1>7 DEF FenceSeized, Granted, Done, Current, Extends, Answered, Up, NodesOK, CallsOK, nodeVars, calls
  <2>2. ASSUME NEW m \in Nodes, m # n PROVE Current(m)'
    BY <1>b, <1>c, <1>e, <1>7, <2>2, OthersCurrent DEF FenceSeized, Granted, Done, NodesOK, CallsOK, nodeVars, calls
  <2>3. \A p \in Procs : pc'[p] = "ok" => req'[p].body.packs \subseteq s3'.packs
    BY <1>b, <1>c, <1>e, <1>7 DEF FenceSeized, Granted, Done, CallsOK, nodeVars, calls
  <2> QED
    BY <1>c, <1>7, <2>1, <2>2, <2>3 DEF FenceSeized
<1>8. ASSUME NEW n \in Nodes, FenceReload(n) PROVE Goal
  <2>1. Current(n)'
    <3>1. mode[n] = "created" /\ pc[<<n, "flush">>] = "idle"
      BY <1>c, <1>8 DEF FenceReload, Current
    <3>2. /\ pc'[<<n, "attach">>] \in {"check", "idle"} /\ pc'[<<n, "flush">>] = "idle"
          /\ mode'[n] \in {"created", "down"}
          /\ pc'[<<n, "attach">>] = "check" => mode'[n] = "created"
      BY <1>b, <1>e, <1>8, <3>1 DEF FenceReload, NotAttached, AllDone, NodesOK, CallsOK
    <3>3. etag'[n] = s3 /\ mem'[n] = s3
      BY <1>b, <1>c, <1>8 DEF FenceReload, NodesOK
    <3> QED
      BY <1>c, <3>1, <3>2, <3>3 DEF Current, Answered, Up
  <2>2. ASSUME NEW m \in Nodes, m # n PROVE Current(m)'
    BY <1>b, <1>c, <1>e, <1>8, <2>2, OthersCurrent DEF FenceReload, NotAttached, Done, AllDone, NodesOK, CallsOK, nodeVars, calls
  <2>3. \A p \in Procs : pc'[p] = "ok" => req'[p].body.packs \subseteq s3'.packs
    BY <1>b, <1>c, <1>e, <1>8 DEF FenceReload, NotAttached, Done, AllDone, CallsOK, nodeVars, calls
  <2> QED
    BY <1>c, <1>8, <2>1, <2>2, <2>3 DEF FenceReload
<1>9. ASSUME NEW n \in Nodes, FenceError(n) PROVE Goal
  <2>1. Current(n)'
    <3>1. mode[n] = "created"
      BY <1>b, <1>c, <1>9 DEF FenceError, Current, Answered, Up
    <3>2. /\ mode'[n] = "down"
          /\ pc'[<<n, "attach">>] = "idle" /\ pc'[<<n, "flush">>] = "idle"
      BY <1>b, <1>c, <1>e, <1>9, <3>1 DEF FenceError, NotAttached, AllDone, NodesOK, CallsOK, nodeVars, calls
    <3> QED
      BY <1>b, <1>c, <3>1, <3>2 DEF Current, Extends, Answered, Up, NodesOK, CallsOK
  <2>2. ASSUME NEW m \in Nodes, m # n PROVE Current(m)'
    BY <1>b, <1>c, <1>e, <1>9, <2>2, OthersCurrent DEF FenceError, NotAttached, Done, AllDone, NodesOK, CallsOK, nodeVars, calls
  <2>3. \A p \in Procs : pc'[p] = "ok" => req'[p].body.packs \subseteq s3'.packs
    BY <1>b, <1>c, <1>e, <1>9 DEF FenceError, NotAttached, Done, AllDone, CallsOK, nodeVars, calls
  <2> QED
    BY <1>c, <1>9, <2>1, <2>2, <2>3 DEF FenceError
<1>10. ASSUME NEW n \in Nodes, GuestEdit(n) PROVE Goal
  <2>1. Current(n)'
    BY <1>b, <1>c, <1>e, <1>10 DEF GuestEdit, Current, Extends, Answered, Up, NodesOK, CallsOK, nodeVars, calls
  <2>2. ASSUME NEW m \in Nodes, m # n PROVE Current(m)'
    BY <1>b, <1>c, <1>e, <1>10, <2>2, OthersCurrent DEF GuestEdit, NodesOK, CallsOK, nodeVars, calls
  <2>3. \A p \in Procs : pc'[p] = "ok" => req'[p].body.packs \subseteq s3'.packs
    BY <1>b, <1>c, <1>e, <1>10 DEF GuestEdit, CallsOK, nodeVars, calls
  <2> QED
    BY <1>c, <1>10, <2>1, <2>2, <2>3 DEF GuestEdit
<1>11. ASSUME NEW n \in Nodes, StagePacks(n) PROVE Goal
  <2>1. Current(n)'
    <3>1. mode[n] = "serving" /\ pc[<<n, "attach">>] = "idle"
      BY <1>b, <1>c, <1>11 DEF StagePacks, FlushRuns, Conditional, Current
    <3>2. /\ mode'[n] = "serving" /\ etag'[n] = etag[n] /\ dirty'[n] = dirty[n]
          /\ mem'[n] = [token |-> held[n], packs |-> mem[n].packs \cup {dirty[n]}]
          /\ pc'[<<n, "attach">>] = "idle" /\ pc'[<<n, "flush">>] = "staged"
      BY <1>b, <1>e, <1>11, <3>1 DEF StagePacks, NodesOK, CallsOK
    <3> QED
      BY SMTT(60), <1>c, <3>1, <3>2 DEF Current, Answered, Up
  <2>2. ASSUME NEW m \in Nodes, m # n PROVE Current(m)'
    BY <1>b, <1>c, <1>e, <1>11, <2>2, OthersCurrent DEF StagePacks, FlushRuns, NodesOK, CallsOK, nodeVars, calls
  <2>3. \A p \in Procs : pc'[p] = "ok" => req'[p].body.packs \subseteq s3'.packs
    BY <1>b, <1>c, <1>e, <1>11 DEF StagePacks, FlushRuns, CallsOK, nodeVars, calls
  <2> QED
    BY <1>c, <1>11, <2>1, <2>2, <2>3 DEF StagePacks
<1>12. ASSUME NEW n \in Nodes, SkipKnownPack(n) PROVE Goal
  <2>1. Current(n)'
    BY <1>b, <1>c, <1>e, <1>12 DEF SkipKnownPack, FlushRuns, Conditional, Current, Extends, Answered, Up, NodesOK, CallsOK, nodeVars, calls
  <2>2. ASSUME NEW m \in Nodes, m # n PROVE Current(m)'
    BY <1>b, <1>c, <1>e, <1>12, <2>2, OthersCurrent DEF SkipKnownPack, FlushRuns, NodesOK, CallsOK, nodeVars, calls
  <2>3. \A p \in Procs : pc'[p] = "ok" => req'[p].body.packs \subseteq s3'.packs
    BY <1>b, <1>c, <1>e, <1>12 DEF SkipKnownPack, FlushRuns, CallsOK, nodeVars, calls
  <2> QED
    BY <1>c, <1>12, <2>1, <2>2, <2>3 DEF SkipKnownPack
<1>13. ASSUME NEW n \in Nodes, SendSync(n) PROVE Goal
  <2>1. Current(n)'
    <3>1. mode[n] = "serving" /\ pc[<<n, "attach">>] = "idle"
      BY <1>c, <1>13 DEF SendSync, Current
    <3>2. /\ mode'[n] = "serving" /\ etag'[n] = etag[n] /\ dirty'[n] = dirty[n] /\ mem'[n] = mem[n]
          /\ pc'[<<n, "attach">>] = "idle" /\ pc'[<<n, "flush">>] = "sent"
          /\ req'[<<n, "flush">>] = [body |-> mem[n], expect |-> etag[n]]
      BY <1>b, <1>e, <1>13, <3>1 DEF SendSync, NodesOK, CallsOK, nodeVars
    <3>3. mem[n] \in Manifest
      BY <1>b DEF NodesOK
    <3> QED
      <4>1. /\ etag[n] \in Manifest /\ etag[n].packs \subseteq mem[n].packs
            /\ dirty[n] \in mem[n].packs
        BY <1>c, <1>13, <3>1 DEF SendSync, Current, Up
      <4>2. Extends(req'[<<n, "flush">>]) /\ req'[<<n, "flush">>].body = mem[n]
        <5> DEFINE r == req'[<<n, "flush">>]
        <5>2. r.body = mem[n] /\ r.expect = etag[n]
          BY SMTT(60), <3>2
        <5> HIDE DEF r
        <5>3. Extends(r)
          BY <3>3, <4>1, <5>2 DEF Extends
        <5> QED
          BY <5>2, <5>3 DEF r
      <4> QED
        BY <3>1, <3>2, <4>1, <4>2 DEF Current, Extends, Answered, Up
  <2>2. ASSUME NEW m \in Nodes, m # n PROVE Current(m)'
    BY <1>b, <1>c, <1>e, <1>13, <2>2, OthersCurrent DEF SendSync, NodesOK, CallsOK, nodeVars, calls
  <2>3. \A p \in Procs : pc'[p] = "ok" => req'[p].body.packs \subseteq s3'.packs
    BY <1>b, <1>c, <1>e, <1>13 DEF SendSync, CallsOK, nodeVars, calls
  <2> QED
    BY <1>c, <1>13, <2>1, <2>2, <2>3 DEF SendSync
<1>14. ASSUME NEW n \in Nodes, Synced(n) PROVE Goal
  <2>1. Current(n)'
    BY <1>b, <1>c, <1>e, <1>14 DEF Synced, Done, Current, Extends, Answered, Up, NodesOK, CallsOK, nodeVars, calls
  <2>2. ASSUME NEW m \in Nodes, m # n PROVE Current(m)'
    BY <1>b, <1>c, <1>e, <1>14, <2>2, OthersCurrent DEF Synced, Done, NodesOK, CallsOK, nodeVars, calls
  <2>3. \A p \in Procs : pc'[p] = "ok" => req'[p].body.packs \subseteq s3'.packs
    BY <1>b, <1>c, <1>e, <1>14 DEF Synced, Done, CallsOK, nodeVars, calls
  <2> QED
    <3>1. dirty[n] \in s3.packs
      BY <1>b, <1>c, <1>e, <1>14 DEF Synced, Current, Answered, Extends
    <3> QED
      BY <1>c, <1>14, <2>1, <2>2, <2>3, <3>1 DEF Synced
<1>15. ASSUME NEW n \in Nodes, SyncConflict(n) PROVE Goal
  <2>1. Current(n)'
    BY <1>b, <1>c, <1>e, <1>15 DEF SyncConflict, Done, Current, Extends, Answered, Up, NodesOK, CallsOK, nodeVars, calls
  <2>2. ASSUME NEW m \in Nodes, m # n PROVE Current(m)'
    BY <1>b, <1>c, <1>e, <1>15, <2>2, OthersCurrent DEF SyncConflict, Done, NodesOK, CallsOK, nodeVars, calls
  <2>3. \A p \in Procs : pc'[p] = "ok" => req'[p].body.packs \subseteq s3'.packs
    BY <1>b, <1>c, <1>e, <1>15 DEF SyncConflict, Done, CallsOK, nodeVars, calls
  <2> QED
    BY <1>c, <1>15, <2>1, <2>2, <2>3 DEF SyncConflict
<1>16. ASSUME NEW n \in Nodes, SyncError(n) PROVE Goal
  <2>1. Current(n)'
    <3>1. mode[n] = "serving" /\ pc[<<n, "attach">>] = "idle"
      BY <1>c, <1>16 DEF SyncError, Current
    <3>2. /\ mode'[n] = "serving" /\ etag'[n] = etag[n] /\ dirty'[n] = dirty[n] /\ mem'[n] = mem[n]
          /\ pc'[<<n, "attach">>] = "idle"
      BY <1>b, <1>e, <1>16, <3>1 DEF SyncError, Done, NodesOK, CallsOK, nodeVars
    <3>3. \/ pc'[<<n, "flush">>] = "sent" /\ req'[<<n, "flush">>] = req[<<n, "flush">>]
          \/ pc'[<<n, "flush">>] = "idle"
      BY <1>b, <1>e, <1>16 DEF SyncError, Done, CallsOK
    <3>4. pc[<<n, "flush">>] = "error"
      BY <1>16 DEF SyncError
    <3> QED
      BY SMTT(60), <1>c, <3>1, <3>2, <3>3, <3>4 DEF Current, Extends, Answered, Up
  <2>2. ASSUME NEW m \in Nodes, m # n PROVE Current(m)'
    BY <1>b, <1>c, <1>e, <1>16, <2>2, OthersCurrent DEF SyncError, Done, NodesOK, CallsOK, nodeVars, calls
  <2>3. \A p \in Procs : pc'[p] = "ok" => req'[p].body.packs \subseteq s3'.packs
    BY <1>b, <1>c, <1>e, <1>16 DEF SyncError, Done, CallsOK, nodeVars, calls
  <2> QED
    BY <1>c, <1>16, <2>1, <2>2, <2>3 DEF SyncError
<1>17. ASSUME NEW p \in Procs, StorePut(p) PROVE Goal
  <2>1. ASSUME NEW m \in Nodes PROVE Current(m)'
    <3>1. UNCHANGED <<req, mode, etag, mem, dirty>>
      BY <1>17 DEF StorePut, nodeVars
    <3>2. \A q \in Procs : pc'[q] = pc[q] \/ (pc[q] = "sent" /\ pc'[q] \in {"ok", "conflict"})
      BY <1>b, <1>17 DEF StorePut, CallsOK
    <3> QED
      BY <1>c, <1>e, <3>1, <3>2, AnswerKeepsCurrent DEF Answered
  <2>2. s3' \in Manifest /\ s3.packs \subseteq s3'.packs /\ (acked \subseteq s3.packs)'
    BY <1>b, <1>c, <1>f, <1>17 DEF StorePut, Matches, Answered, Extends
  <2>3. \A q \in Procs : pc'[q] = "ok" => req'[q].body.packs \subseteq s3'.packs
    BY <1>b, <1>c, <1>17, <2>2 DEF StorePut, Matches, CallsOK
  <2>4. \A r \in late' : Extends(r)
    BY <1>c, <1>f, <1>17 DEF StorePut, Answered
  <2> QED
    BY <2>1, <2>2, <2>3, <2>4
<1>18. ASSUME NEW p \in Procs, AnswerLost(p) PROVE Goal
  <2>1. ASSUME NEW m \in Nodes PROVE Current(m)'
    <3>1. UNCHANGED <<req, mode, etag, mem, dirty>>
      BY <1>18 DEF AnswerLost, nodeVars
    <3>2. \A q \in Procs : pc'[q] = pc[q] \/ (pc[q] = "ok" /\ pc'[q] \in {"error"})
      BY <1>b, <1>18 DEF AnswerLost, CallsOK
    <3> QED
      BY <1>c, <1>e, <3>1, <3>2, AnswerKeepsCurrent DEF Answered
  <2>2. s3' \in Manifest /\ s3.packs \subseteq s3'.packs /\ (acked \subseteq s3.packs)'
    BY <1>b, <1>c, <1>f, <1>18 DEF AnswerLost, Answered, Extends
  <2>3. \A q \in Procs : pc'[q] = "ok" => req'[q].body.packs \subseteq s3'.packs
    BY <1>b, <1>c, <1>18, <2>2 DEF AnswerLost, CallsOK
  <2>4. \A r \in late' : Extends(r)
    BY <1>c, <1>f, <1>18 DEF AnswerLost, Answered
  <2> QED
    BY <2>1, <2>2, <2>3, <2>4
<1>19. ASSUME NEW p \in Procs, GaveUp(p) PROVE Goal
  <2>1. ASSUME NEW m \in Nodes PROVE Current(m)'
    <3>1. UNCHANGED <<req, mode, etag, mem, dirty>>
      BY <1>19 DEF GaveUp, nodeVars
    <3>2. \A q \in Procs : pc'[q] = pc[q] \/ (pc[q] = "sent" /\ pc'[q] = "error")
      BY <1>b, <1>19 DEF GaveUp, CallsOK
    <3> QED
      BY <1>c, <1>e, <3>1, <3>2, AnswerKeepsCurrent DEF Answered
  <2>2. s3' \in Manifest /\ s3.packs \subseteq s3'.packs /\ (acked \subseteq s3.packs)'
    BY <1>b, <1>c, <1>f, <1>19 DEF GaveUp, Answered, Extends
  <2>3. \A q \in Procs : pc'[q] = "ok" => req'[q].body.packs \subseteq s3'.packs
    BY <1>b, <1>c, <1>19, <2>2 DEF GaveUp, CallsOK
  <2>4. \A r \in late' : Extends(r)
    BY SMTT(60), <1>c, <1>f, <1>19 DEF GaveUp, Answered
  <2> QED
    BY <2>1, <2>2, <2>3, <2>4
<1>20. CASE LatePut
  <2>1. UNCHANGED <<pc, req, mode, etag, mem, dirty, acked>>
    BY <1>20 DEF LatePut, calls, nodeVars
  <2>2. PICK r \in late : s3' = (IF Matches(r.expect) THEN r.body ELSE s3) /\ late' = late \ {r}
    BY <1>20 DEF LatePut
  <2>3. \A n \in Nodes : Current(n)'
    BY <1>c, <2>1, AnswerKeepsCurrent
  <2>4. Extends(r)
    BY <1>c
  <2>5. s3' \in Manifest /\ s3.packs \subseteq s3'.packs
    BY <1>c, <2>2, <2>4 DEF Matches, Extends
  <2>6. \A p \in Procs : pc'[p] = "ok" => req'[p].body.packs \subseteq s3'.packs
    BY <1>c, <2>1, <2>5
  <2>7. \A q \in late' : Extends(q)
    BY <1>c, <2>2
  <2> QED
    BY <1>c, <2>1, <2>3, <2>5, <2>6, <2>7
<1>21. CASE UNCHANGED fenceVars
  <2>1. UNCHANGED <<s3, late, acked, pc, req, mode, etag, mem, dirty>>
    BY <1>21 DEF fenceVars, calls, nodeVars
  <2>2. \A n \in Nodes : Current(n)'
    BY <1>c, <2>1, AnswerKeepsCurrent
  <2> QED
    BY <1>c, <2>1, <2>2
<1>22. QED
  BY <1>1, <1>2, <1>3, <1>4, <1>5, <1>6, <1>7, <1>8, <1>9, <1>10, <1>11,
     <1>12, <1>13, <1>14, <1>15, <1>16, <1>17, <1>18, <1>19, <1>20, <1>21, <1>d DEF FenceNext

\* The initial state satisfies both invariants.
LEMMA FenceInitial == FenceInit => FenceTypeOK /\ FenceInv
<1> SUFFICES ASSUME FenceInit PROVE FenceTypeOK /\ FenceInv
  OBVIOUS
<1>1. Fresh \in Manifest /\ Fresh.packs = {}
  BY SMTT(60) DEF Fresh, Manifest
<1>2. FenceTypeOK
  <2>1. NoReq \in [body : Manifest \cup {NoTag}, expect : Manifest \cup {NoTag}]
    BY DEF NoReq
  <2> QED
    BY SMTT(60), <1>1, <2>1 DEF FenceInit, FenceTypeOK, Steps
<1>3. FenceInv
  BY SMTT(60), <1>1 DEF FenceInit, FenceInv, Conditional, Current, Answered, Up, Procs
<1> QED
  BY <1>2, <1>3

\* Whatever the nodes, tokens, writes and faults: a flush that put_manifest has
\* answered Ok stays in the stored manifest (AckedStaysPublished).
THEOREM PublicationsKept == FenceSpec => []AckedStaysPublished
<1>1. FenceTypeOK /\ FenceInv /\ [FenceNext]_fenceVars => (FenceTypeOK /\ FenceInv)'
  BY FenceTypeStep, FenceInvStep
<1>2. FenceInv => AckedStaysPublished
  BY DEF FenceInv, AckedStaysPublished, Packs
<1> QED
  BY FenceInitial, <1>1, <1>2, PTL DEF FenceSpec

\* A step either leaves the acknowledged edits and extends the stored manifest,
\* or leaves the stored manifest and acknowledges more.
LEMMA PublishOrAcknowledge ==
  ASSUME FenceTypeOK, FenceInv, Conditional, [FenceNext]_fenceVars
  PROVE \/ acked' = acked /\ s3.packs \subseteq s3'.packs
        \/ s3' = s3 /\ acked \subseteq acked'
<1>1. /\ \A n \in Nodes : Current(n)
      /\ \A r \in late : Extends(r)
      /\ s3 \in Manifest
  BY DEF FenceInv
<1>2. ASSUME NEW p \in Procs, StorePut(p) PROVE acked' = acked /\ s3.packs \subseteq s3'.packs
  <2>1. PICK n \in Nodes : p = <<n, "attach">> \/ p = <<n, "flush">>
    BY SMTT(60) DEF Procs
  <2>2. Extends(req[p])
    BY <1>1, <1>2, <2>1 DEF StorePut, Current, Answered
  <2> QED
    BY <1>1, <1>2, <2>2 DEF StorePut, Matches, Extends
<1>3. ASSUME LatePut PROVE acked' = acked /\ s3.packs \subseteq s3'.packs
  BY <1>1, <1>3 DEF LatePut, Matches, Extends
<1>4. ASSUME NEW n \in Nodes, Synced(n) PROVE s3' = s3 /\ acked \subseteq acked'
  BY <1>4 DEF Synced
<1>5. ASSUME ~LatePut, \A p \in Procs : ~StorePut(p), \A n \in Nodes : ~Synced(n)
      PROVE s3' = s3 /\ acked' = acked
  BY <1>5 DEF FenceNext, fenceVars, CreateHere, Reattach, Rediscover, NodeCrash, FenceReject,
     FenceGrant, FenceSeized, FenceReload, FenceError, GuestEdit, StagePacks, SkipKnownPack,
     SendSync, SyncConflict, SyncError, AnswerLost, GaveUp
<1> QED
  BY <1>2, <1>3, <1>4, <1>5

\* The nodes implement SingleWriter: each of their steps publishes more, or
\* acknowledges what is published, or changes neither.
THEOREM FencingImplementsSingleWriter == FenceSpec => ImplementsSingleWriter
<1> DEFINE pub == IF Conditional THEN Packs(s3) ELSE {}
           ack == IF Conditional THEN acked ELSE {}
<1>1. FenceInit => SW!Init
  <2> SUFFICES ASSUME FenceInit PROVE SW!Init
    OBVIOUS
  <2>1. pub \in SUBSET Edits
    BY FenceInitial DEF FenceTypeOK, Manifest, Packs
  <2>2. ack = {}
    BY DEF FenceInit
  <2> QED
    BY <2>1, <2>2 DEF SW!Init
<1>2. FenceTypeOK /\ FenceInv /\ FenceTypeOK' /\ FenceInv' /\ [FenceNext]_fenceVars
        => [SW!Publish \/ SW!Acknowledge]_<<pub, ack>>
  <2> SUFFICES ASSUME FenceTypeOK, FenceInv, FenceTypeOK', FenceInv', [FenceNext]_fenceVars
               PROVE [SW!Publish \/ SW!Acknowledge]_<<pub, ack>>
    OBVIOUS
  <2>1. Conditional' = Conditional
    BY ScenarioFixed DEF Conditional
  <2>2. CASE ~Conditional
    BY <2>1, <2>2
  <2>3. CASE Conditional
    <3>1. /\ pub = s3.packs /\ pub' = s3'.packs /\ ack = acked /\ ack' = acked'
          /\ s3' \in Manifest /\ acked' \subseteq s3'.packs
      BY <2>1, <2>3 DEF FenceInv, Packs
    <3>2. \/ acked' = acked /\ s3.packs \subseteq s3'.packs
          \/ s3' = s3 /\ acked \subseteq acked'
      BY <2>3, PublishOrAcknowledge
    <3>3. s3'.packs \subseteq Edits
      BY <3>1 DEF Manifest
    <3> HIDE DEF pub, ack
    <3> QED
      BY <3>1, <3>2, <3>3 DEF SW!Publish, SW!Acknowledge, pub, ack
  <2> QED
    BY <2>2, <2>3
<1>3. FenceTypeOK /\ FenceInv /\ [FenceNext]_fenceVars => (FenceTypeOK /\ FenceInv)'
  BY FenceTypeStep, FenceInvStep
<1> QED
  BY FenceInitial, <1>1, <1>2, <1>3, PTL DEF FenceSpec, ImplementsSingleWriter, SW!Spec

=============================================================================
