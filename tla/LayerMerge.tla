----------------------------- MODULE LayerMerge -----------------------------
(***************************************************************************)
(* OCI layers become file systems (src/ext4/src/tar_convert.rs), and two   *)
(* file systems become an OCI layer (src/ext4/src/diff.rs).                *)
(*                                                                         *)
(* A layer is a sequence of tar entries.  merge_layers flattens a stack of *)
(* layers into one tree; write_single_layer keeps a layer's deletions in   *)
(* the form overlayfs understands, so that the images can be stacked when  *)
(* they are mounted; diff_to_tar makes the layer that turns one tree into  *)
(* another.  Each is an operator here, and the reference is what the OCI   *)
(* image specification says a stack of layers is: the layers applied one   *)
(* after the other, each one's whiteouts to the layers below it.           *)
(*                                                                         *)
(* A path is a sequence of names.  A tree maps paths to nodes; a node's id *)
(* is a pair of its metadata and its contents, and the names of one file,  *)
(* its hard links, share the id.                                           *)
(***************************************************************************)
EXTENDS Integers, Sequences, FiniteSets
LOCAL INSTANCE TLC
LOCAL INSTANCE SequencesExt
LOCAL INSTANCE FiniteSetsExt

CONSTANTS
    Stacks,      \* the stacks of layers that may be converted, bottom first
    TreePairs    \* the pairs <<base, target>> of trees that may be compared

VARIABLES
    job,         \* what is converted: a stack of layers or a pair of trees
    merged       \* what came out

lmVars == <<job, merged>>

\* Tar entries.  A whiteout's path is the path it deletes, an opaque
\* marker's the directory whose lower contents it hides.
IsMarker(e) == e.kind \in {"whiteout", "opaque"}

IsUnder(p, d) == Len(p) > Len(d) /\ SubSeq(p, 1, Len(d)) = d

\* is_child_of compares strings: no path starts with the root's "" and a "/"
IsChildOf(p, d) == d # <<>> /\ IsUnder(p, d)

UpTo(p) == IF p = <<>> THEN <<>> ELSE SubSeq(p, 1, Len(p) - 1)

Above(p) == {SubSeq(p, 1, k) : k \in 1..(Len(p) - 1)}

\* what nobody gave contents: a parent made on the way, a whiteout
NoId == <<0, <<>>>>

Node(kind, id) == [kind |-> kind, id |-> id, opaque |-> FALSE]

EntriesOf(layer) == {layer[k] : k \in 1..Len(layer)}

-----------------------------------------------------------------------------
(* The sinks: the two file system writers as the conversions use them.     *)
(* Files have data, so that in ext4 an inode with extents is never reused. *)

FileSystems == {"ext4", "erofs"}

Blank(fs) == [fs |-> fs, ok |-> TRUE, tree |-> <<>>]

Refused(s) == [s EXCEPT !.ok = FALSE]

IsDirAt(s, p) == p = <<>> \/ (p \in DOMAIN s.tree /\ s.tree[p].kind = "dir")

\* the names of what p names
NamesOf(s, p) ==
    IF s.tree[p].kind # "file" THEN {p}
    ELSE {q \in DOMAIN s.tree : s.tree[q].kind = "file" /\ s.tree[q].id = s.tree[p].id}

OnlyName(s, p) == Cardinality(NamesOf(s, p)) < 2

\* make_parents: the missing directories above p; below a file it fails
SinkParents(s, p) ==
    LET missing == Above(p) \ DOMAIN s.tree IN
    IF \E q \in Above(p) : q \in DOMAIN s.tree /\ s.tree[q].kind # "dir"
    THEN Refused(s)
    ELSE [s EXCEPT !.tree = [q \in missing |-> Node("dir", NoId)] @@ @]

\* ext4: a directory and a file never replace each other, and a file with
\* data keeps its only name
Ext4Create(s, p, node) ==
    IF /\ p \in DOMAIN s.tree
       /\ \/ (s.tree[p].kind = "dir") # (node.kind = "dir")
          \/ s.tree[p].kind = "file" /\ OnlyName(s, p)
    THEN Refused(s)
    ELSE [s EXCEPT !.tree = (p :> node) @@ @]

\* EROFS: what is there is changed in place, under all its names
ErofsCreate(s, p, node) ==
    LET names == IF p \in DOMAIN s.tree THEN NamesOf(s, p) ELSE {p}
    IN  [s EXCEPT !.tree = [q \in names |-> node] @@ @]

SinkCreate(s, p, node) ==
    IF ~s.ok \/ ~IsDirAt(s, UpTo(p)) THEN Refused(s)
    ELSE IF s.fs = "ext4" THEN Ext4Create(s, p, node) ELSE ErofsCreate(s, p, node)

\* ext4: the new name may not orphan what it named before, nor link a directory
Ext4Link(s, old, new) ==
    IF \/ new \in DOMAIN s.tree /\ (s.tree[new].kind = "dir" \/ OnlyName(s, new))
       \/ s.tree[old].kind = "dir"
    THEN Refused(s)
    ELSE [s EXCEPT !.tree = (new :> s.tree[old]) @@ @]

\* EROFS: the name is given to the node, whatever had it
ErofsLink(s, old, new) == [s EXCEPT !.tree = (new :> s.tree[old]) @@ @]

SinkLink(s, old, new) ==
    IF ~s.ok \/ ~IsDirAt(s, UpTo(new)) \/ old \notin DOMAIN s.tree THEN Refused(s)
    ELSE IF s.fs = "ext4" THEN Ext4Link(s, old, new) ELSE ErofsLink(s, old, new)

\* close: a directory that EROFS turned into something else keeps its
\* children, but no directory leads to them
Reachable(s) ==
    [s EXCEPT !.tree = [p \in {q \in DOMAIN s.tree : \A a \in Above(q) : IsDirAt(s, a)} |->
                          s.tree[p]]]

\* write_tar_entry_inner, after make_parents; id is the entry's identity
WriteTarEntry(s, e, id, opaque) ==
    LET t == SinkParents(s, e.path) IN
    IF e.kind = "link" THEN SinkLink(t, e.to, e.path)
    ELSE SinkCreate(t, e.path, [Node(e.kind, id) EXCEPT !.opaque = opaque])

-----------------------------------------------------------------------------
(* merge_layers.                                                            *)

\* build_ownership_map: the highest layer with an entry for the path
OwnerOf(layers, p) ==
    Max({0} \cup {i \in 1..Len(layers) :
            \E e \in EntriesOf(layers[i]) : ~IsMarker(e) /\ e.path = p})

\* the paths deleted: every whiteout's, and what is owned below a layer that
\* makes a directory above it opaque
DeletedFrom(layers) ==
    {p \in UNION {{e.path : e \in EntriesOf(layers[i])} : i \in 1..Len(layers)} :
        \E i \in 1..Len(layers) : \E e \in EntriesOf(layers[i]) :
            \/ e.kind = "whiteout" /\ e.path = p
            \/ e.kind = "opaque" /\ IsChildOf(p, e.path) /\ OwnerOf(layers, p) < i}

\* write_layer_entries
WriteLayerEntries(s, layers, i) ==
    LET step(t, e) ==
            IF \/ IsMarker(e)
               \/ e.path \in DeletedFrom(layers)
               \/ OwnerOf(layers, e.path) # i
            THEN t
            ELSE WriteTarEntry(t, e, <<i, e.path>>, FALSE)
    IN  FoldLeft(step, s, layers[i])

MergeLayers(layers, fs) ==
    LET step(s, i) == WriteLayerEntries(s, layers, i)
    IN  Reachable(FoldLeft(step, Blank(fs), [i \in 1..Len(layers) |-> i]))

-----------------------------------------------------------------------------
(* write_single_layer.                                                      *)

\* Mutant of ScanOpaqueDirs: the first pass is skipped.
ScanOpaqueDirsNone(layer) == {}

ScanOpaqueDirs(layer) ==
    {e.path : e \in {m \in EntriesOf(layer) : m.kind = "opaque"}}

\* the opaque directories without an entry are created after the others, in
\* whatever order the set yields them
SynthesizeOpaque(s, dirs) ==
    LET step(t, d) ==
            SinkCreate(SinkParents(t, d), d, [Node("dir", NoId) EXCEPT !.opaque = TRUE])
    IN  FoldLeft(step, s, SetToSeq(dirs))

WriteSingleLayer(layer, i, fs) ==
    LET opaqueDirs == ScanOpaqueDirs(layer)
        step(s, e) ==
            CASE e.kind = "opaque" -> s
              [] e.kind = "whiteout" ->
                    SinkCreate(SinkParents(s, e.path), e.path, Node("whiteout", NoId))
              [] OTHER ->
                    WriteTarEntry(s, e, <<i, e.path>>,
                                  e.kind = "dir" /\ e.path \in opaqueDirs)
        seen == {e.path : e \in {m \in EntriesOf(layer) : m.kind = "dir"}}
    IN  Reachable(SynthesizeOpaque(FoldLeft(step, Blank(fs), layer), opaqueDirs \ seen))

\* overlayfs (external): the upper tree hides what it whites out, replaces or
\* makes opaque; a directory in both takes the upper's metadata
OverlayMount(lower, upper) ==
    LET hidden == {p \in DOMAIN lower :
            \/ \E q \in DOMAIN upper :
                  /\ p = q \/ IsUnder(p, q)
                  /\ upper[q].kind # "dir"
            \/ \E q \in DOMAIN upper : IsUnder(p, q) /\ upper[q].opaque}
        seen == {q \in DOMAIN upper : upper[q].kind # "whiteout"}
        kept == DOMAIN lower \ hidden
    IN  [p \in kept \cup seen |->
            IF p \in seen THEN [upper[p] EXCEPT !.opaque = FALSE] ELSE lower[p]]

StackLayers(trees) ==
    LET step(t, u) == OverlayMount(t, u) IN FoldLeft(step, <<>>, trees)

-----------------------------------------------------------------------------
(* diff_to_tar.                                                             *)

\* walk(): parents before their children
RECURSIVE WalkOrder(_, _)
WalkOrder(tree, paths) ==
    IF paths = {} THEN <<>>
    ELSE LET first == CHOOSE p \in paths : \A q \in paths : Len(p) <= Len(q)
         IN  <<first>> \o WalkOrder(tree, paths \ {first})

\* mode, owner, size, mtime, link target, device and xattrs; never the data
MetadataEqual(a, b) == a.kind = b.kind /\ a.id[1] = b.id[1]

\* the deleted paths, without those under a deleted directory
Whiteouts(base, target) ==
    LET gone == DOMAIN base \ DOMAIN target IN
    {p \in gone : ~\E q \in gone : IsUnder(p, q) /\ base[q].kind = "dir"}

\* the second name of a file that was written becomes a hard link
DiffToTar(base, target) ==
    LET changed == {p \in DOMAIN target :
                        ~(p \in DOMAIN base /\ MetadataEqual(base[p], target[p]))}
        order == WalkOrder(target, changed)
        entry(k) ==
            LET p == order[k]
                first == {j \in 1..(k - 1) : /\ target[order[j]].kind = "file"
                                             /\ target[order[j]].id = target[p].id}
            IN  IF target[p].kind = "file" /\ first # {}
                THEN [kind |-> "link", path |-> p, to |-> order[Min(first)]]
                ELSE [kind |-> target[p].kind, path |-> p, to |-> <<>>]
        gone == WalkOrder(base, Whiteouts(base, target))
    IN  [k \in 1..Len(order) |-> entry(k)]
        \o [k \in 1..Len(gone) |-> [kind |-> "whiteout", path |-> gone[k], to |-> <<>>]]

-----------------------------------------------------------------------------
(* The reference: layers applied one after the other.                      *)

ApplyLayer(tree, layer, i) ==
    LET es == EntriesOf(layer)
        real == {e \in es : ~IsMarker(e)}
        removed(p) ==
            \/ \E e \in es : e.kind = "whiteout" /\ (p = e.path \/ IsUnder(p, e.path))
            \/ \E e \in es : e.kind = "opaque" /\ IsUnder(p, e.path)
            \/ \E e \in real : e.kind # "dir" /\ (p = e.path \/ IsUnder(p, e.path))
            \/ \E e \in real : IsUnder(e.path, p) /\ tree[p].kind # "dir"
        lower == [p \in {q \in DOMAIN tree : ~removed(q)} |-> tree[p]]
        parents == UNION {Above(e.path) : e \in real \cup {m \in es : m.kind = "opaque"}}
                    \cup {e.path : e \in {m \in es : m.kind = "opaque"}}
        made == [p \in parents \ DOMAIN lower |-> Node("dir", NoId)]
        source(e) == IF e.kind = "link" THEN e.to ELSE e.path
        own == [p \in {e.path : e \in real} |->
                    LET e == CHOOSE x \in real : x.path = p
                    IN  Node(IF e.kind = "link" THEN "file" ELSE e.kind,
                             <<i, source(e)>>)]
    IN  own @@ lower @@ made

Flattened(layers) ==
    LET step(t, i) == ApplyLayer(t, layers[i], i)
    IN  FoldLeft(step, <<>>, [i \in 1..Len(layers) |-> i])

-----------------------------------------------------------------------------
(* One conversion.                                                          *)

NoImage == [done |-> FALSE, ok |-> FALSE, tree |-> <<>>]

Outcome(s) == [done |-> TRUE, ok |-> s.ok, tree |-> s.tree]

LMInit ==
    /\ \/ \E k \in {"merge", "stack"}, fs \in FileSystems, layers \in Stacks :
             job = [kind |-> k, fs |-> fs, layers |-> layers]
       \/ \E pair \in TreePairs : job = [kind |-> "diff", fs |-> "ext4", layers |-> pair]
    /\ merged = NoImage

\* convert_oci_layers_to_ext4 and convert_oci_layers_to_erofs
ConvertLayers ==
    /\ job.kind = "merge" /\ ~merged.done
    /\ merged' = Outcome(MergeLayers(job.layers, job.fs))
    /\ UNCHANGED job

\* convert_layer_to_ext4 or convert_layer_to_erofs for every layer, and the
\* mount of the results
ConvertEachLayer ==
    /\ job.kind = "stack" /\ ~merged.done
    /\ LET each == [i \in 1..Len(job.layers) |->
                       WriteSingleLayer(job.layers[i], i, job.fs)]
       IN  merged' = [done |-> TRUE,
                     ok |-> \A i \in 1..Len(each) : each[i].ok,
                     tree |-> StackLayers([i \in 1..Len(each) |-> each[i].tree])]
    /\ UNCHANGED job

\* diff_to_tar: the delta, read as a layer on top of the base
DiffSnapshots ==
    /\ job.kind = "diff" /\ ~merged.done
    /\ LET base == job.layers[1]
           target == job.layers[2]
           delta == DiffToTar(base, target)
           above == ApplyLayer(base, delta, 9)
           contents(n) == IF n.id[1] = 9 THEN target[n.id[2]].id ELSE n.id
       IN  merged' = [done |-> TRUE,
                     ok |-> WriteSingleLayer(delta, 1, job.fs).ok,
                     tree |-> [p \in DOMAIN above |->
                                 [above[p] EXCEPT !.id = contents(above[p])]]]
    /\ UNCHANGED job

LMNext == ConvertLayers \/ ConvertEachLayer \/ DiffSnapshots

LMSpec == LMInit /\ [][LMNext]_lmVars

-----------------------------------------------------------------------------
(* Properties.                                                              *)

Holds(layers, i, p) == \E e \in EntriesOf(layers[i]) : ~IsMarker(e) /\ e.path = p

Whites(layers, i, p) == [kind |-> "whiteout", path |-> p, to |-> <<>>] \in EntriesOf(layers[i])

\* A path is deleted in one layer and put back in a higher one.
Recreated(layers) ==
    \E i, j \in 1..Len(layers) : \E e \in EntriesOf(layers[j]) :
        i <= j /\ Whites(layers, i, e.path) /\ ~IsMarker(e)

\* A directory is deleted by one whiteout while lower layers hold its files.
DirectoryDeleted(layers) ==
    \E i, j \in 1..Len(layers) : \E e \in EntriesOf(layers[i]), f \in EntriesOf(layers[j]) :
        j < i /\ e.kind = "whiteout" /\ ~IsMarker(f) /\ IsUnder(f.path, e.path)

\* A hard link stays while a higher layer deletes or replaces the file it names.
LinkOrphaned(layers) ==
    \E i, j \in 1..Len(layers) : \E e \in EntriesOf(layers[i]) :
        /\ i < j /\ e.kind = "link"
        /\ \/ \E k \in 1..Len(e.to) : Whites(layers, j, SubSeq(e.to, 1, k))
           \/ \E f \in EntriesOf(layers[j]) : f.path = e.to
           \/ \E f \in EntriesOf(layers[j]) : f.kind = "opaque" /\ IsUnder(e.to, f.path)

\* Something stands in the way of a path that is written: a file below which
\* a higher layer puts it, a file that replaced its directory and was
\* replaced in turn, or, in ext4, which never replaces a directory, a file
\* put in its directory's place.
KindChanged(layers, fs) ==
    \E i, j \in 1..Len(layers) : \E e \in EntriesOf(layers[i]), f \in EntriesOf(layers[j]) :
        /\ ~IsMarker(e) /\ ~IsMarker(f) /\ e.kind # "dir" /\ IsUnder(f.path, e.path)
        /\ {e.path, f.path} \cap DeletedFrom(layers) = {}
        /\ OwnerOf(layers, f.path) = j
        /\ IF OwnerOf(layers, e.path) = i THEN i < j \/ fs = "ext4" ELSE i > j

\* One layer deletes a path and holds it, or something below it; only a file
\* that comes after its own whiteout is written over it.
MarkedAndHeld(layer) ==
    \E k, m \in 1..Len(layer) :
        /\ layer[k].kind = "whiteout" /\ ~IsMarker(layer[m])
        /\ \/ IsUnder(layer[m].path, layer[k].path)
           \/ layer[m].path = layer[k].path /\ (m < k \/ layer[m].kind = "dir")

\* "The merge respects OCI whiteout semantics": the flattened image is the
\* layers applied one after the other (merge_layers), and it is never refused.
MergeIsOverlay ==
    (job.kind = "merge" /\ merged.done) => merged.ok /\ merged.tree = Flattened(job.layers)

\* The same for the stacks whose higher layers add, replace and delete files
\* and make directories opaque, in any combination that does not put back a
\* deleted path, delete a directory as a whole, break a hard link or put a
\* file and a directory in each other's way.
PlainMergeIsOverlay ==
    \/ job.kind # "merge"
    \/ Recreated(job.layers) \/ DirectoryDeleted(job.layers)
    \/ LinkOrphaned(job.layers) \/ KindChanged(job.layers, job.fs)
    \/ MergeIsOverlay

\* "layers survive instead of being flattened": the images that
\* convert_layer_to_ext4 and convert_layer_to_erofs make of the layers one by
\* one, mounted on top of each other, are the layers applied one after the
\* other, whatever they delete, put back, replace or make opaque, as long as
\* no layer deletes what it holds.  A directory that the layers above imply
\* without an entry of its own has default metadata.
StackIsOverlay ==
    \/ ~(job.kind = "stack" /\ merged.done)
    \/ \E i \in 1..Len(job.layers) : MarkedAndHeld(job.layers[i])
    \/ LET flat == Flattened(job.layers) IN
       /\ merged.ok
       /\ DOMAIN merged.tree = DOMAIN flat
       /\ \A p \in DOMAIN flat :
             \/ merged.tree[p] = flat[p]
             \/ flat[p].kind = "dir" /\ merged.tree[p] = Node("dir", NoId)

\* Of two file systems, the delta layer that diff_to_tar writes turns the
\* base into the target, except for the files whose data changed and whose
\* metadata did not: they stay as they are in the base.  It can be converted
\* unless a directory became a file (its children's whiteouts then name
\* paths under that file).
DeltaRestores ==
    (job.kind = "diff" /\ merged.done) =>
        LET base == job.layers[1]
            target == job.layers[2]
            both == DOMAIN base \cap DOMAIN target
        IN  /\ merged.tree = [p \in DOMAIN target |->
                                IF /\ p \in both /\ target[p].kind = "file"
                                   /\ MetadataEqual(base[p], target[p])
                                THEN base[p] ELSE target[p]]
            /\ merged.ok \/ \E p \in both : base[p].kind = "dir" /\ target[p].kind # "dir"

\* Flattened into one image, mounted as a stack of images, or written as a
\* delta, the layers of an OCI image give the file system an overlay gives.
LayersAreOverlay == PlainMergeIsOverlay /\ StackIsOverlay /\ DeltaRestores
=============================================================================
