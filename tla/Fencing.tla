-------------------------------- MODULE Fencing --------------------------------
(*****************************************************************************)
(* The single-attach fence.  Several nodes may believe they own one volume;   *)
(* they share only its manifest object, read with GET and written with a PUT  *)
(* that is conditional (If-Match) once the node knows an ETag.  A node        *)
(* attaches with a token, stamps it into the manifest (the seize) and from    *)
(* then on stamps every manifest its flushes publish.                         *)
(*                                                                            *)
(* A manifest is its token and the packs it refers to; the ETag is derived    *)
(* from the content, as S3's is, so a manifest stands for its own ETag.  The  *)
(* pair (generation, lease_revision) packed into a u128 is one natural.  An   *)
(* edit is one dirty block with the pack it is flushed into.                  *)
(*****************************************************************************)
EXTENDS Naturals, FiniteSets

CONSTANTS
    Nodes,
    NoTag,        \* "no ETag known" / "no manifest object"
    MaxToken,     \* bound on the tokens the orchestrator issues
    MaxEdits,     \* bound on the guest writes
    FenceTries,   \* 3 in enforce_attach_fence
    PutTries,     \* 3 in the atomic flush
    MaxFaults,    \* bound on lost, failed and late PUTs and on crashes
    Scenarios     \* the sets of occurrences a behaviour may draw from:
                  \* "blank", "early", "reattach", "restart"

Edits == 1..MaxEdits
Manifest == [token : 0..MaxToken, packs : SUBSET Edits]
Procs == Nodes \X {"attach", "flush"}

ASSUME TagAssumption == NoTag \notin Manifest
ASSUME FencingAssumption == /\ MaxToken \in Nat /\ MaxEdits \in Nat
                            /\ FenceTries \in Nat \ {0} /\ PutTries \in Nat \ {0}
                            /\ MaxFaults \in Nat

VARIABLES
    occurs,     \* the scenario of this behaviour
    s3,         \* the manifest object
    late,       \* PUTs whose client gave up and which S3 may still execute
    mem,        \* per node: the in-memory VolumeManifest
    etag,       \* per node: WriteCache::manifest_etag
    held,       \* per node: current_generation / current_lease_revision
    wants,      \* per node: the token of the attach request being served
    mode,       \* per node: "down", "created" (in the map), "serving", "crashed"
    stopped,    \* per node: "no", or why the flush scheduler has returned:
                \* "conflict" or "fenced" (the latch that refuses guest writes)
    dirty,      \* per node: the dirty block on its SSD, 0 when there is none
    pc,         \* per process: where it is in enforce_attach_fence / the sync
    req,        \* per process: its manifest PUT, body and If-Match
    left,       \* per process: the attempts it has left
    issued,     \* per node: the tokens the orchestrator has sent it
    written, faults,
    acked       \* the edits whose publication was answered Ok

nodeVars == <<mem, etag, held, wants, mode, stopped, dirty>>
calls == <<pc, req, left>>
fenceVars == <<occurs, s3, late, nodeVars, calls, issued, written, faults, acked>>

NoReq == [body |-> NoTag, expect |-> NoTag]

Fresh == [token |-> 0, packs |-> {}]

Packs(m) == IF m = NoTag THEN {} ELSE m.packs
Token(m) == IF m = NoTag THEN 0 ELSE m.token

FenceInit ==
  /\ occurs \in Scenarios
  /\ s3 = IF "blank" \in occurs THEN NoTag ELSE Fresh
  /\ late = {}
  /\ mem = [n \in Nodes |-> Fresh]
  /\ etag = [n \in Nodes |-> NoTag]
  /\ held = [n \in Nodes |-> 0]
  /\ wants = [n \in Nodes |-> 0]
  /\ mode = [n \in Nodes |-> "down"]
  /\ stopped = [n \in Nodes |-> "no"]
  /\ dirty = [n \in Nodes |-> 0]
  /\ pc = [p \in Procs |-> "idle"]
  /\ req = [p \in Procs |-> NoReq]
  /\ left = [p \in Procs |-> 0]
  /\ issued = [n \in Nodes |-> {}]
  /\ written = 0 /\ faults = 0 /\ acked = {}

(*****************************************************************************)
(* The orchestrator (external): a placement carries a token above every one   *)
(* issued before; a request it sent earlier may be delivered again, or late.  *)
(*****************************************************************************)
Highest == CHOOSE t \in 0..MaxToken :
             /\ t = 0 \/ \E n \in Nodes : t \in issued[n]
             /\ \A n \in Nodes : \A u \in issued[n] : u <= t

AttachRequest(n, t) ==
  /\ t \in issued[n] \cup ({Highest + 1} \cap 1..MaxToken)
  /\ issued' = [issued EXCEPT ![n] = @ \cup {t}]
  /\ wants' = [wants EXCEPT ![n] = t]

\* The fence starts its bounded retries; a process is done with its PUT.
FenceStarts(n) == /\ pc' = [pc EXCEPT ![<<n, "attach">>] = "check"]
                  /\ req' = [req EXCEPT ![<<n, "attach">>] = NoReq]
                  /\ left' = [left EXCEPT ![<<n, "attach">>] = FenceTries]

Done(p) == /\ pc' = [pc EXCEPT ![p] = "idle"]
           /\ req' = [req EXCEPT ![p] = NoReq]
           /\ left' = [left EXCEPT ![p] = 0]

AllDone(n) == /\ pc' = [pc EXCEPT ![<<n, "attach">>] = "idle", ![<<n, "flush">>] = "idle"]
              /\ req' = [req EXCEPT ![<<n, "attach">>] = NoReq, ![<<n, "flush">>] = NoReq]
              /\ left' = [left EXCEPT ![<<n, "attach">>] = 0, ![<<n, "flush">>] = 0]

(*****************************************************************************)
(* create_export, normal path: the manifest and its ETag come from S3, or the *)
(* volume starts blank with no ETag.  The write cache opens with no token.    *)
(*****************************************************************************)
LoadManifest(n) ==
  /\ mem' = [mem EXCEPT ![n] = IF s3 = NoTag THEN Fresh ELSE s3]
  /\ etag' = [etag EXCEPT ![n] = s3]
  /\ held' = [held EXCEPT ![n] = 0]
  /\ stopped' = [stopped EXCEPT ![n] = "no"]

CreateHere(n) ==
  /\ mode[n] = "down"
  /\ \E t \in 1..MaxToken : AttachRequest(n, t)
  /\ LoadManifest(n)
  /\ mode' = [mode EXCEPT ![n] = "created"]
  /\ FenceStarts(n)
  /\ UNCHANGED <<occurs, s3, late, dirty, written, faults, acked>>

\* A PUT of an export that is already attached here re-runs the fence.
Reattach(n) == /\ "reattach" \in occurs
               /\ mode[n] = "serving" /\ pc[<<n, "attach">>] = "idle"
               /\ \E t \in 1..MaxToken : AttachRequest(n, t)
               /\ FenceStarts(n)
               /\ UNCHANGED <<occurs, s3, late, mem, etag, held, mode, stopped, dirty,
                              written, faults, acked>>

\* After a crash the daemon re-creates every export it finds; no fence is run.
Rediscover(n) ==
  /\ "restart" \in occurs
  /\ mode[n] = "crashed"
  /\ LoadManifest(n)
  /\ mode' = [mode EXCEPT ![n] = "serving"]
  /\ UNCHANGED <<occurs, s3, late, wants, dirty, calls, issued, written, faults, acked>>

(*****************************************************************************)
(* enforce_attach_fence.  A refused or failed attach of a new export runs     *)
(* cleanup_failed_create: no drain, and the local files go.                   *)
(*****************************************************************************)
\* Mutant: the token one below the stored one is admitted.
GrantsOffByOne(stored, mine) == stored <= mine + 1

\* attach_fence: a node's own token is admitted again, an older one is not.
Grants(stored, mine) == stored <= mine

Granted(n) == /\ mode' = [mode EXCEPT ![n] = "serving"]
              /\ dirty' = dirty

NotAttached(n) == IF mode[n] = "created"
                    THEN /\ mode' = [mode EXCEPT ![n] = "down"]
                         /\ dirty' = [dirty EXCEPT ![n] = 0]
                         /\ AllDone(n)
                    ELSE /\ mode' = mode /\ dirty' = dirty
                         /\ Done(<<n, "attach">>)

FenceReject(n) == /\ pc[<<n, "attach">>] = "check"
                  /\ ~Grants(mem[n].token, wants[n])
                  /\ NotAttached(n)
                  /\ UNCHANGED <<occurs, s3, late, mem, etag, held, wants, stopped,
                                 issued, written, faults, acked>>

FenceGrant(n) ==
  LET body == [mem[n] EXCEPT !.token = wants[n]] IN
  /\ pc[<<n, "attach">>] = "check"
  /\ Grants(mem[n].token, wants[n])
  /\ held' = [held EXCEPT ![n] = wants[n]]
  /\ IF wants[n] = mem[n].token
       THEN /\ Granted(n)
            /\ Done(<<n, "attach">>)
            /\ mem' = mem
       ELSE /\ mem' = [mem EXCEPT ![n] = body]
            /\ pc' = [pc EXCEPT ![<<n, "attach">>] = "sent"]
            /\ req' = [req EXCEPT ![<<n, "attach">>] = [body |-> body, expect |-> etag[n]]]
            /\ UNCHANGED <<left, mode, dirty>>
  /\ UNCHANGED <<occurs, s3, late, etag, wants, stopped, issued, written, faults, acked>>

FenceSeized(n) == /\ pc[<<n, "attach">>] = "ok"
                  /\ etag' = [etag EXCEPT ![n] = req[<<n, "attach">>].body]
                  /\ Granted(n)
                  /\ Done(<<n, "attach">>)
                  /\ UNCHANGED <<occurs, s3, late, mem, held, wants, stopped,
                                 issued, written, faults, acked>>

\* The manifest moved: reload it with its ETag and run the fence again.
FenceReload(n) ==
  LET a == <<n, "attach">> IN
  /\ pc[a] = "conflict"
  /\ etag' = [etag EXCEPT ![n] = s3]
  /\ mem' = IF s3 = NoTag THEN mem ELSE [mem EXCEPT ![n] = s3]
  /\ IF left[a] > 1
       THEN /\ pc' = [pc EXCEPT ![a] = "check"]
            /\ req' = [req EXCEPT ![a] = NoReq]
            /\ left' = [left EXCEPT ![a] = @ - 1]
            /\ UNCHANGED <<mode, dirty>>
       ELSE NotAttached(n)
  /\ UNCHANGED <<occurs, s3, late, held, wants, stopped, issued, written, faults, acked>>

FenceError(n) == /\ pc[<<n, "attach">>] = "error"
                 /\ NotAttached(n)
                 /\ UNCHANGED <<occurs, s3, late, mem, etag, held, wants, stopped,
                                issued, written, faults, acked>>

(*****************************************************************************)
(* The guest, and the flush: stage the packs and the token into the in-memory *)
(* manifest, serialize it, PUT it under the ETag read then, with retries.     *)
(*****************************************************************************)
GuestEdit(n) ==
  /\ mode[n] = "serving" /\ dirty[n] = 0
  /\ pc[<<n, "flush">>] = "idle"
  /\ stopped[n] # "fenced"
  /\ written < MaxEdits
  /\ written' = written + 1
  /\ dirty' = [dirty EXCEPT ![n] = written + 1]
  /\ UNCHANGED <<occurs, s3, late, mem, etag, held, wants, mode, stopped,
                 calls, issued, faults, acked>>

FlushRuns(n) == /\ mode[n] = "serving" \/ (mode[n] = "created" /\ "early" \in occurs)
                /\ stopped[n] = "no" /\ dirty[n] # 0

\* Mutant of StagePacks: the flushed packs replace the ones the manifest had.
StagePacksReplace(n) ==
  /\ FlushRuns(n) /\ pc[<<n, "flush">>] = "idle"
  /\ dirty[n] \notin mem[n].packs
  /\ mem' = [mem EXCEPT ![n] = [token |-> held[n], packs |-> {dirty[n]}]]
  /\ pc' = [pc EXCEPT ![<<n, "flush">>] = "staged"]
  /\ UNCHANGED <<req, left, occurs, s3, late, etag, held, wants, mode, stopped, dirty,
                 issued, written, faults, acked>>

StagePacks(n) ==
  /\ FlushRuns(n) /\ pc[<<n, "flush">>] = "idle"
  /\ dirty[n] \notin mem[n].packs
  /\ mem' = [mem EXCEPT ![n] = [token |-> held[n], packs |-> @.packs \cup {dirty[n]}]]
  /\ pc' = [pc EXCEPT ![<<n, "flush">>] = "staged"]
  /\ UNCHANGED <<req, left, occurs, s3, late, etag, held, wants, mode, stopped, dirty,
                 issued, written, faults, acked>>

\* The pack is in the in-memory manifest already: nothing to upload or publish.
SkipKnownPack(n) ==
  /\ FlushRuns(n) /\ pc[<<n, "flush">>] = "idle"
  /\ dirty[n] \in mem[n].packs
  /\ dirty' = [dirty EXCEPT ![n] = 0]
  /\ UNCHANGED <<occurs, s3, late, mem, etag, held, wants, mode, stopped, calls,
                 issued, written, faults, acked>>

SendSync(n) == /\ pc[<<n, "flush">>] = "staged"
               /\ pc' = [pc EXCEPT ![<<n, "flush">>] = "sent"]
               /\ req' = [req EXCEPT ![<<n, "flush">>] = [body |-> mem[n], expect |-> etag[n]]]
               /\ left' = [left EXCEPT ![<<n, "flush">>] = PutTries]
               /\ UNCHANGED <<occurs, s3, late, nodeVars, issued, written, faults, acked>>

Synced(n) == /\ pc[<<n, "flush">>] = "ok"
             /\ etag' = [etag EXCEPT ![n] = req[<<n, "flush">>].body]
             /\ acked' = acked \cup {dirty[n]}
             /\ dirty' = [dirty EXCEPT ![n] = 0]
             /\ Done(<<n, "flush">>)
             /\ UNCHANGED <<occurs, s3, late, mem, held, wants, mode, stopped,
                            issued, written, faults>>

\* fenced_by_newer_token: a newer token in the stored manifest latches fenced.
Superseded(n) == held[n] # 0 /\ held[n] < Token(s3)

\* Fenced or not, is_manifest_conflict makes the scheduler return for good.
SyncConflict(n) == /\ pc[<<n, "flush">>] = "conflict"
                   /\ stopped' = [stopped EXCEPT ![n] = IF Superseded(n) THEN "fenced" ELSE "conflict"]
                   /\ Done(<<n, "flush">>)
                   /\ UNCHANGED <<occurs, s3, late, mem, etag, held, wants, mode, dirty,
                                  issued, written, faults, acked>>

SyncError(n) ==
  LET f == <<n, "flush">> IN
  /\ pc[f] = "error"
  /\ IF left[f] > 1 THEN /\ pc' = [pc EXCEPT ![f] = "sent"]
                          /\ left' = [left EXCEPT ![f] = @ - 1]
                          /\ req' = req
                     ELSE Done(f)
  /\ UNCHANGED <<occurs, s3, late, nodeVars, issued, written, faults, acked>>

(*****************************************************************************)
(* The object store (external): a PUT is executed once, at a point between    *)
(* its call and its answer, or after its client has given up.                 *)
(*****************************************************************************)
Matches(expect) == expect = NoTag \/ expect = s3

StorePut(p) == /\ pc[p] = "sent"
               /\ IF Matches(req[p].expect)
                    THEN s3' = req[p].body /\ pc' = [pc EXCEPT ![p] = "ok"]
                    ELSE s3' = s3 /\ pc' = [pc EXCEPT ![p] = "conflict"]
               /\ UNCHANGED <<occurs, late, nodeVars, req, left, issued, written, faults, acked>>

\* Executed, but the answer is lost: the client sees an error.
AnswerLost(p) == /\ pc[p] = "ok" /\ faults < MaxFaults
                 /\ faults' = faults + 1
                 /\ pc' = [pc EXCEPT ![p] = "error"]
                 /\ UNCHANGED <<occurs, s3, late, nodeVars, req, left, issued, written, acked>>

\* The client sees an error; the request is lost, or it is still on its way.
GaveUp(p) == /\ pc[p] = "sent" /\ faults < MaxFaults
             /\ faults' = faults + 1
             /\ pc' = [pc EXCEPT ![p] = "error"]
             /\ late' \in {late, late \cup {req[p]}}
             /\ UNCHANGED <<occurs, s3, nodeVars, req, left, issued, written, acked>>

LatePut == \E r \in late : /\ s3' = IF Matches(r.expect) THEN r.body ELSE s3
                           /\ late' = late \ {r}
                           /\ UNCHANGED <<occurs, nodeVars, calls, issued, written, faults, acked>>

\* The daemon dies; its SSD keeps the dirty block.  The next daemon re-creates the
\* exports of the device map whose export.json it can load ("crashed"); the others
\* wait for an attach request ("down").
NodeCrash(n) ==
  /\ mode[n] \in {"created", "serving"} /\ faults < MaxFaults
  /\ faults' = faults + 1
  /\ mode' = [mode EXCEPT ![n] = IF mode[n] = "serving" /\ "restart" \in occurs
                                   THEN "crashed" ELSE "down"]
  /\ AllDone(n)
  /\ UNCHANGED <<occurs, s3, late, mem, etag, held, wants, stopped, dirty,
                 issued, written, acked>>

FenceNext ==
  \/ \E n \in Nodes : \/ CreateHere(n) \/ Reattach(n) \/ Rediscover(n) \/ NodeCrash(n)
                      \/ FenceReject(n) \/ FenceGrant(n) \/ FenceSeized(n)
                      \/ FenceReload(n) \/ FenceError(n)
                      \/ GuestEdit(n) \/ StagePacks(n) \/ SkipKnownPack(n) \/ SendSync(n)
                      \/ Synced(n) \/ SyncConflict(n) \/ SyncError(n)
  \/ \E p \in Procs : StorePut(p) \/ AnswerLost(p) \/ GaveUp(p)
  \/ LatePut

FenceSpec == FenceInit /\ [][FenceNext]_fenceVars

(*****************************************************************************)
(* Properties                                                                 *)
(*****************************************************************************)
Steps == {"idle", "check", "staged", "sent", "ok", "conflict", "error"}

\* The type of the fence's state (WriteCacheInner, the manifest object, the calls).
FenceTypeOK ==
  /\ occurs \in Scenarios
  /\ s3 \in Manifest \cup {NoTag}
  /\ late \in SUBSET [body : Manifest, expect : Manifest \cup {NoTag}]
  /\ mem \in [Nodes -> Manifest]
  /\ etag \in [Nodes -> Manifest \cup {NoTag}]
  /\ held \in [Nodes -> 0..MaxToken] /\ wants \in [Nodes -> 0..MaxToken]
  /\ mode \in [Nodes -> {"down", "created", "serving", "crashed"}]
  /\ stopped \in [Nodes -> {"no", "conflict", "fenced"}]
  /\ dirty \in [Nodes -> 0..MaxEdits]
  /\ pc \in [Procs -> Steps] /\ left \in [Procs -> Nat]
  /\ req \in [Procs -> [body : Manifest \cup {NoTag}, expect : Manifest \cup {NoTag}]]
  /\ \A p \in Procs : pc[p] \in {"sent", "ok", "conflict", "error"} => req[p].body \in Manifest
  /\ issued \in [Nodes -> SUBSET (1..MaxToken)]
  /\ written \in 0..MaxEdits /\ faults \in 0..MaxFaults
  /\ acked \in SUBSET (0..MaxEdits)

\* The manifest exists before two nodes meet over it, and enforce_attach_fence,
\* which does not take flush_lock, never runs beside a flush of the same export.
Conditional == occurs \cap {"blank", "early", "reattach"} = {}

\* The nodes together implement SingleWriter: whatever they interleave, lose,
\* repeat or deliver late, the stored manifest never drops a pack, and a flush
\* that put_manifest answered Ok (whose blocks are then evicted from the SSD)
\* is in it.  An INVARIANT in the sense of the abstract module's Acknowledge.
SW == INSTANCE SingleWriter WITH
        published <- IF Conditional THEN Packs(s3) ELSE {},
        acked <- IF Conditional THEN acked ELSE {}
ImplementsSingleWriter == SW!Spec

\* What a flush was told is published stays in the manifest every node will
\* load from now on (enforce_attach_fence's seize and reload included).
AckedStaysPublished == Conditional => acked \subseteq Packs(s3)

\* The token of the stored manifest never falls back, so a request fenced once
\* is fenced for ever (attach_fence's stored_token), as long as every node that
\* flushes has run the fence since its cache was opened.
TokenOnlyRises ==
  [][occurs \subseteq {"blank"} => Token(s3) <= Token(s3')]_fenceVars

\* A flush scheduler returns for good on a manifest conflict only when a newer
\* token has taken the volume - provided no PUT of its own was lost, failed or
\* came late (is_manifest_conflict treats that one as another writer too).
StopsOnlyWhenSuperseded ==
  \A n \in Nodes : stopped[n] # "no" /\ faults = 0 /\ Conditional /\ mode[n] = "serving"
                      => held[n] < Token(s3)

\* "stored_token (the highest token that has owned the volume)": the token in
\* the manifest is never replaced by a lower one.
StoredTokenIsHighest == [][Token(s3) <= Token(s3')]_s3

\* attach_fence and is_manifest_conflict: the token in the manifest decides who
\* writes, it never falls back, and only a newer one stops a flush scheduler.
TokensDecide == TokenOnlyRises /\ []StopsOnlyWhenSuperseded
=============================================================================
