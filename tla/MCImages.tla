------------------------------ MODULE MCImages ------------------------------
(***************************************************************************)
(* Data structures that many parties share, and the images volumes are     *)
(* made from.                                                              *)
(*                                                                         *)
(* Fencing: two nodes and two tokens, so one seizes the volume, with two   *)
(* edits, one failing call and a retry of each kind.                       *)
(*                                                                         *)
(* StateMap: three blocks in two pages of one byte, so two blocks share a  *)
(* byte.  Two threads use the two blocks of one byte, three kinds of call  *)
(* at a time; a scan runs beside one thread that changes all three blocks. *)
(*                                                                         *)
(* Ext4Image: groups of 12 blocks with 4 inodes, extents of 3 blocks and   *)
(* two in an inode, so that files of 12 and 34 units (blocks of 2) have    *)
(* several extents, a leaf block, and cross groups.                        *)
(*                                                                         *)
(* LayerMerge: stacks of three layers over a directory with one child and  *)
(* a file beside it, with whiteouts, opaque markers and hard links, for    *)
(* both file systems; pairs of trees over the same names, whose files may  *)
(* differ in their data alone.                                             *)
(*                                                                         *)
(* ErofsImage: blocks of 8 units with slots of 2: a file of 5 has its tail *)
(* beside the inode, of 23 (7 over two blocks) a tail that does not fit    *)
(* there, of 17 full blocks and a tail of one.  Three entries fill a       *)
(* directory block, so one with two children has a full block of its own.  *)
(***************************************************************************)
EXTENDS Fencing, StateMap, Ext4Image, LayerMerge, ErofsImage, TLC

VARIABLE part

MapUses == {[ops |-> o, scans |-> {}, on |-> {0, 1}, by |-> Callers] :
                o \in {{"claim", "dirty", "evict"}, {"dirty", "sync", "evict"}, {"get", "claim"}}}
           \cup {[ops |-> {"dirty", "sync", "evict"}, scans |-> {2}, on |-> Entries,
                  by |-> {CHOOSE t \in Callers : TRUE}]}

-----------------------------------------------------------------------------
(* The ext4 writer: without options; inline data, a journal and alignment. *)

XOpt(inl, al, j, b) == [inline |-> inl, align |-> al, alignMin |-> 2, journal |-> j, boot |-> b]

TarPaths == {<<"a">>, <<"d", "x">>, <<"d">>}

XReg(n, x) == [kind |-> "reg", size |-> n, xattrs |-> x]

TarFiles == {DirFile, [kind |-> "lnk", size |-> 3, xattrs |-> FALSE], XReg(2, TRUE)}
                \cup {XReg(n, FALSE) : n \in {0, 12, 34}}

TarOptions == {XOpt(FALSE, 0, 0, {<<"a">>}), XOpt(TRUE, 4, 3, {<<"d", "x">>})}

-----------------------------------------------------------------------------
(* Stacks of layers and pairs of trees.                                    *)

Dir == <<"d">>
Child == <<"d", "x">>
Beside == <<"e">>

Ent(k, p) == [kind |-> k, path |-> p, to |-> <<>>]

DirParts ==
    {<<>>, <<Ent("file", Child)>>, <<Ent("file", Dir)>>, <<Ent("whiteout", Dir)>>,
     <<Ent("opaque", Dir), Ent("file", Child)>>}
    \cup {a \o b : a \in {<<Ent("dir", Dir)>>, <<Ent("opaque", Dir), Ent("dir", Dir)>>},
                   b \in {<<>>, <<Ent("file", Child)>>, <<Ent("whiteout", Child)>>}}

BesideParts == {<<>>, <<Ent("file", Beside)>>, <<Ent("whiteout", Beside)>>,
                <<[kind |-> "link", path |-> Beside, to |-> Child]>>}

\* a whiteout beside what it deletes, in both orders
SelfMarked ==
    {<<Ent("whiteout", Child), Ent("file", Child)>>, <<Ent("file", Child), Ent("whiteout", Child)>>,
     <<Ent("whiteout", Dir), Ent("dir", Dir)>>, <<Ent("dir", Dir), Ent("whiteout", Dir)>>,
     <<Ent("whiteout", Dir), Ent("file", Child)>>}

\* a hard link comes after its target in the archive
TarLayers ==
    {l \in {a \o b : a \in DirParts, b \in BesideParts} \cup SelfMarked :
        \A k \in 1..Len(l) : l[k].kind = "link" => \E j \in 1..k : l[j] = Ent("file", Child)}

TarStacks == {<<a, b, c>> : a \in {l \in TarLayers : \A k \in 1..Len(l) : ~IsMarker(l[k])},
                            b \in TarLayers, c \in TarLayers}

TNode(k, meta, data) == Node(k, <<meta, <<data>>>>)

TFiles == {TNode("file", 3, "p"), TNode("file", 3, "q"), TNode("file", 4, "p")}

DirTrees ==
    {<<>>, Dir :> TNode("file", 1, "p")} \cup {Dir :> TNode("dir", i, "p") : i \in {1, 2}}
    \cup {(Dir :> TNode("dir", i, "p")) @@ (Child :> n) : i \in {1, 2}, n \in TFiles}

Trees == {a @@ b : a \in DirTrees,
                   b \in {<<>>} \cup {Beside :> n : n \in TFiles \cup {TNode("file", 5, "p")}}}

Snapshots == Trees \X Trees

-----------------------------------------------------------------------------
(* The EROFS writer: without options, and with the order and alignment     *)
(* that bless asks for.  A name is its bytes; Early has one that sorts     *)
(* before ".".                                                             *)

ErofsPaths == {<<97>>, <<100, 97>>, <<100>>}

Early == {<<45>>, <<97>>}

Of(kind, size, xattrs) == [kind |-> kind, size |-> size, xattrs |-> xattrs]

ErofsFiles == {Of("reg", 0, FALSE), Of("reg", 5, FALSE), Of("reg", 17, TRUE),
               Of("reg", 23, FALSE), Of("lnk", 3, FALSE), Of("dir", 0, TRUE)}

ErofsOptions == {[align |-> 0, alignMin |-> 0, priority |-> <<>>],
                 [align |-> 4, alignMin |-> 9, priority |-> <<<<100, 97>>, <<97>>>>]}

-----------------------------------------------------------------------------
(* A behaviour is one of the five parts; the others stay where they start. *)

Parts == {"fence", "map", "ext4", "erofs", "layers"}

MCInit ==
    /\ part \in Parts
    /\ FenceInit /\ SMInit /\ X4Init /\ ErInit
    /\ part # "fence" => occurs = CHOOSE o \in Scenarios : TRUE
    /\ part # "map" => smUse = CHOOSE u \in SMUses : TRUE
    /\ part # "ext4" => fs.opts = CHOOSE o \in XOptions : TRUE
    /\ part # "erofs" => er.opts = CHOOSE o \in ErOptions : TRUE
    /\ IF part = "layers" THEN LMInit
                          ELSE job = [kind |-> "merge", fs |-> "ext4", layers |-> <<>>] /\ merged = NoImage

MCNext ==
    \/ part = "fence" /\ FenceNext /\ UNCHANGED <<smVars, x4Vars, lmVars, erVars, part>>
    \/ part = "map" /\ SMNext /\ UNCHANGED <<fenceVars, x4Vars, lmVars, erVars, part>>
    \/ part = "ext4" /\ X4Next /\ UNCHANGED <<fenceVars, smVars, lmVars, erVars, part>>
    \/ part = "erofs" /\ ErNext /\ UNCHANGED <<fenceVars, smVars, x4Vars, lmVars, part>>
    \/ part = "layers" /\ LMNext /\ UNCHANGED <<fenceVars, smVars, x4Vars, erVars, part>>

MCSpec == MCInit /\ [][MCNext]_<<fenceVars, smVars, x4Vars, lmVars, erVars, part>>
=============================================================================
