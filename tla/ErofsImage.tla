----------------------------- MODULE ErofsImage -----------------------------
(***************************************************************************)
(* The EROFS writer (src/ext4/src/erofs.rs): the tree is kept in memory,   *)
(* file contents go to a spool file, and close() lays the image out in one *)
(* pass: inodes with their xattrs and the tails of their data first, then  *)
(* the full data blocks, those of the priority files before the others.    *)
(*                                                                         *)
(* Offsets and sizes are in units: a block has ErBlock units, an inode     *)
(* slot ErSlot.  A name is a number, in the order of the names' bytes.     *)
(***************************************************************************)
EXTENDS Integers, Sequences, FiniteSets
LOCAL INSTANCE TLC
LOCAL INSTANCE SequencesExt
LOCAL INSTANCE FiniteSetsExt

CONSTANTS
    ErBlock,       \* BLK
    ErSlot,        \* ISLOT
    ErFirst,       \* FIRST_INODE_OFF
    ErDirFit,      \* directory entries that fit in a block
    ErXattr,       \* what an inode's xattrs take, where it has any
    ErPaths,       \* the paths the image may hold
    ErFiles,       \* the files create() may be given
    ErOptions,     \* alignment (blocks), its minimum size, the priority paths
    ErOps          \* bound: operations on one image

ASSUME ErScale ==
    /\ ErBlock % ErSlot = 0 /\ ErFirst % ErSlot = 0 /\ ErFirst < ErBlock
    /\ ErSlot + ErXattr <= ErBlock /\ ErDirFit >= 2 /\ ErDirFit <= ErBlock

\* "." and ".." among the names
Dot == 46
DotDot == 47

VARIABLES
    er,        \* the Writer
    erWant,    \* path -> the file last put there
    erOdd,     \* a create replaced one of several names, or changed a kind
    erOps      \* operations so far

erVars == <<er, erWant, erOdd, erOps>>

NoNode == [kind |-> "dir", gen |-> 0, size |-> 0, xattrs |-> FALSE,
           kids |-> <<>>, spool |-> -1, len |-> 0, nid |-> 0, blk |-> 0,
           nlink |-> 0]

RoundUp(n, k) == ((n + k - 1) \div k) * k

-----------------------------------------------------------------------------
(* The tree.                                                                *)

ErFailing(w) == [w EXCEPT !.err = TRUE]

\* resolve: 0 when a component is missing; the root is node 1
ErFind(w, p) ==
    LET step(i, name) ==
            IF i # 0 /\ name \in DOMAIN w.nodes[i].kids THEN w.nodes[i].kids[name] ELSE 0
    IN  FoldLeft(step, 1, p)

\* ensure_dir: the missing directories of p, top down
EnsureDir(w, p) ==
    LET step(v, k) ==
            LET at == ErFind(v, SubSeq(p, 1, k - 1))
                i == ErFind(v, SubSeq(p, 1, k))
            IN  CASE v.err -> v
                  [] ~v.err /\ i # 0 ->
                        IF v.nodes[i].kind = "dir" THEN v ELSE ErFailing(v)
                  [] OTHER ->
                        [v EXCEPT !.nodes = Append([@ EXCEPT ![at].kids =
                                        (p[k] :> (Len(v.nodes) + 1)) @@ @], NoNode)]
    IN  FoldLeft(step, w, [k \in 1..Len(p) |-> k])

\* the node of an existing name takes the new file's kind and metadata
Replaced(n, f, gen) ==
    [n EXCEPT !.kind = f.kind, !.gen = gen, !.xattrs = f.xattrs,
              !.spool = IF f.kind = "dir" THEN @ ELSE -1,
              !.len = CASE f.kind = "dir" -> @ [] f.kind = "lnk" -> f.size [] OTHER -> 0]

ErCreate(w0, p, f, gen) ==
    LET w == EnsureDir([w0 EXCEPT !.cur = 0], SubSeq(p, 1, Len(p) - 1))
        dir == ErFind(w, SubSeq(p, 1, Len(p) - 1))
        old == ErFind(w, p)
        i == IF old # 0 THEN old ELSE Len(w.nodes) + 1
        node == Replaced(IF old # 0 THEN w.nodes[old] ELSE NoNode, f, gen)
    IN  IF w.err THEN w
        ELSE [w EXCEPT
                !.nodes = IF old # 0 THEN [@ EXCEPT ![old] = node]
                          ELSE Append([@ EXCEPT ![dir].kids = (p[Len(p)] :> i) @@ @], node),
                !.cur = IF f.kind = "reg" THEN i ELSE 0]

ErLink(w0, from, to) ==
    LET src == ErFind(w0, from)
        w == EnsureDir([w0 EXCEPT !.cur = 0], SubSeq(to, 1, Len(to) - 1))
        dir == ErFind(w, SubSeq(to, 1, Len(to) - 1))
    IN  IF src = 0 \/ w.err THEN ErFailing(w0)
        ELSE [w EXCEPT !.nodes[dir].kids = (to[Len(to)] :> src) @@ @]

\* write(): bytes of the current file go to the end of the spool
ErWrite(w, n) ==
    LET i == w.cur
        gen == w.nodes[i].gen
        from == w.nodes[i].len
    IN  [w EXCEPT !.spool = @ \o [k \in 1..n |-> <<gen, from + k>>],
                  !.nodes[i].spool = IF @ = -1 THEN Len(w.spool) ELSE @,
                  !.nodes[i].len = @ + n]

-----------------------------------------------------------------------------
(* close(): the layout.                                                     *)

Kids(n) == {n.kids[x] : x \in DOMAIN n.kids}

\* names in the order of a BTreeMap
Sorted(S) ==
    [k \in 1..Cardinality(S) |->
        CHOOSE x \in S : Cardinality({y \in S : y < x}) = k - 1]

\* traversal(): depth first, each node once
RECURSIVE Traversal(_, _, _)
Traversal(w, todo, seen) ==
    IF todo = <<>> THEN seen
    ELSE LET i == Head(todo)
             names == Sorted(DOMAIN w.nodes[i].kids)
         IN  IF i \in ToSet(seen) THEN Traversal(w, Tail(todo), seen)
             ELSE Traversal(w, [k \in 1..Len(names) |-> w.nodes[i].kids[names[k]]] \o Tail(todo),
                            Append(seen, i))

\* layout_order: the root, the priority files in their order, the others
LayoutOrder(w) ==
    LET dfs == Traversal(w, <<1>>, <<>>)
        step(order, p) == LET i == ErFind(w, p) IN
            IF i = 0 \/ i \in ToSet(order) THEN order ELSE Append(order, i)
        first == FoldLeft(step, <<1>>, w.opts.priority)
    IN  IF w.opts.priority = <<>> THEN [order |-> dfs, prio |-> {}]
        ELSE [order |-> first \o SelectSeq(dfs, LAMBDA i : i \notin ToSet(first)),
              prio |-> ToSet(first) \ {1}]

\* encode_dir: "." and "..", then the children; entries never cross a block
DirEntriesOf(n) == <<Dot, DotDot>> \o Sorted(DOMAIN n.kids)

EncodedDirLen(n) ==
    LET k == Len(DirEntriesOf(n))
    IN  ((k - 1) \div ErDirFit) * ErBlock + ((k - 1) % ErDirFit) + 1

\* layout_facts: full blocks, and the tail kept after the inode where it fits
Layout(n) ==
    LET len == IF n.kind = "dir" THEN EncodedDirLen(n) ELSE n.len
        x == IF n.xattrs THEN ErXattr ELSE 0
        crowded == ErSlot + x + (len % ErBlock) > ErBlock
    IN  [len |-> len, x |-> x,
         full |-> IF crowded THEN RoundUp(len, ErBlock) \div ErBlock ELSE len \div ErBlock,
         tail |-> IF crowded THEN 0 ELSE len % ErBlock]

Need(n) == ErSlot + Layout(n).x + Layout(n).tail

PlaceInodes(w, order) ==
    LET step(a, i) ==
            LET block == (a.off \div ErBlock) * ErBlock
                at == IF a.off + Need(w.nodes[i]) > block + ErBlock
                      THEN block + ErBlock ELSE a.off
            IN  [off |-> RoundUp(at + Need(w.nodes[i]), ErSlot),
                 nodes |-> [a.nodes EXCEPT ![i].nid = at \div ErSlot]]
    IN  FoldLeft(step, [off |-> ErFirst, nodes |-> w.nodes], order)

\* Mutant of DataRegion: the data starts in the last block of metadata.
DataRegionFloor(off) == off \div ErBlock

\* the first block after the metadata
DataRegion(off) == RoundUp(off, ErBlock) \div ErBlock

\* data blocks in layout order; only files without priority are aligned
PlaceData(w, nodes, start, lo) ==
    LET step(a, i) ==
            LET f == Layout(w.nodes[i])
                aligned == /\ w.opts.align > 1 /\ i \notin lo.prio
                           /\ w.nodes[i].kind = "reg" /\ f.len >= w.opts.alignMin
                at == IF aligned THEN RoundUp(a.next, w.opts.align) ELSE a.next
            IN  IF f.full = 0 THEN a
                ELSE [next |-> at + f.full,
                      end |-> IF i \in lo.prio THEN at + f.full ELSE a.end,
                      nodes |-> [a.nodes EXCEPT ![i].blk = at]]
    IN  FoldLeft(step, [next |-> start, end |-> start, nodes |-> nodes], lo.order)

\* nlink: two and the subdirectories, or the names in the tree
CountLinks(w) ==
    [i \in 1..Len(w.nodes) |->
        LET n == w.nodes[i]
            refs == UNION {{<<j, x>> : x \in {y \in DOMAIN w.nodes[j].kids : w.nodes[j].kids[y] = i}}
                            : j \in 1..Len(w.nodes)}
        IN  [n EXCEPT !.nlink =
                IF n.kind = "dir"
                THEN 2 + Cardinality({x \in DOMAIN n.kids : w.nodes[n.kids[x]].kind = "dir"})
                ELSE Max({1, Cardinality(refs)})]]

\* the contents of a node: a directory's entries, a symlink's target, the spool
ContentOf(w, i) ==
    LET n == w.nodes[i] IN
    CASE n.kind = "dir" -> [k \in 1..EncodedDirLen(n) |-> <<-i, k>>]
      [] n.kind # "dir" /\ n.spool # -1 -> SubSeq(w.spool, n.spool + 1, n.spool + n.len)
      [] OTHER -> [k \in 1..n.len |-> <<n.gen, k>>]

\* write_out_at for the data of node i: full blocks, then the tail by the inode
Laid(w, i) ==
    LET n == w.nodes[i]
        f == Layout(n)
        c == ContentOf(w, i)
        cut == Min({f.len, f.full * ErBlock})
        tailAt == n.nid * ErSlot + ErSlot + f.x
    IN  [q \in (n.blk * ErBlock) .. (n.blk * ErBlock + cut - 1) |-> c[q - n.blk * ErBlock + 1]]
        @@ [q \in tailAt .. (tailAt + f.tail - 1) |-> c[f.full * ErBlock + q - tailAt + 1]]

LaidOut(w, order) ==
    LET step(d, i) == Laid(w, i) @@ d IN FoldLeft(step, <<>>, order)

-----------------------------------------------------------------------------
(* The operations of a caller.                                              *)

ErInit ==
    /\ er \in {[nodes |-> <<NoNode>>, cur |-> 0, spool |-> <<>>, err |-> FALSE,
                closed |-> FALSE, opts |-> o, disk |-> <<>>, total |-> 0,
                dataStart |-> 0, prefetch |-> 0, order |-> <<>>, prio |-> {}] : o \in ErOptions}
    /\ erWant = <<>> /\ erOdd = FALSE /\ erOps = 0

ErBusy == er.err \/ er.closed

ErNextOp == erOps < ErOps /\ erOps' = erOps + 1

ErParents(p) ==
    [q \in {SubSeq(p, 1, k) : k \in 1..(Len(p) - 1)} \ DOMAIN erWant |->
        [kind |-> "dir", size |-> 0, xattrs |-> FALSE, gen |-> 0]]

ErNames(i) == {q \in DOMAIN erWant : ErFind(er, q) = i}

\* create, and the bytes of a regular file after it
DoCreate(p, f) ==
    /\ ~ErBusy /\ ErNextOp
    /\ \E s \in {ErCreate(er, p, f, erOps + 1)} :
       \E t \in {IF s.err \/ s.cur = 0 \/ f.size = 0 THEN s ELSE ErWrite(s, f.size)} :
          /\ er' = t
          /\ erWant' = IF t.err THEN erWant
                       ELSE (p :> [kind |-> f.kind, size |-> f.size, xattrs |-> f.xattrs,
                                   gen |-> erOps + 1]) @@ ErParents(p) @@ erWant
    /\ LET old == ErFind(er, p)
       IN  erOdd' = \/ erOdd
                    \/ old # 0 /\ \/ Cardinality(ErNames(old)) > 1
                                  \/ (er.nodes[old].kind = "dir") # (f.kind = "dir")

DoLink(from, to) ==
    /\ ~ErBusy /\ ErNextOp
    /\ \E t \in {ErLink(er, from, to)} :
          /\ er' = t
          /\ erWant' = IF t.err \/ from \notin DOMAIN erWant THEN erWant
                       ELSE (to :> erWant[from]) @@ ErParents(to) @@ erWant
    /\ LET src == ErFind(er, from)
           old == ErFind(er, to)
       IN  erOdd' = (erOdd \/ (src # 0 /\ er.nodes[src].kind = "dir")
                           \/ (old # 0 /\ er.nodes[old].kind = "dir"))

\* serialize
DoClose ==
    /\ ~ErBusy
    /\ \E lo \in {LayoutOrder(er)} :
       \E m \in {PlaceInodes(er, lo.order)} :
       \E start \in {DataRegion(m.off)} :
       \E d \in {PlaceData(er, m.nodes, start, lo)} :
       \E w \in {[er EXCEPT !.nodes = d.nodes]} :
          er' = [w EXCEPT !.nodes = CountLinks(w), !.closed = TRUE,
                          !.disk = LaidOut(w, lo.order),
                          !.total = Max({d.next, start, 1}),
                          !.dataStart = start,
                          !.prefetch = IF lo.prio = {} THEN 0 ELSE d.end * ErBlock,
                          !.order = lo.order, !.prio = lo.prio]
    /\ UNCHANGED <<erWant, erOdd, erOps>>

ErNext ==
    \/ \E p \in ErPaths, f \in ErFiles : DoCreate(p, f)
    \/ \E p, q \in ErPaths : DoLink(p, q)
    \/ DoClose

ErSpec == ErInit /\ [][ErNext]_erVars

-----------------------------------------------------------------------------
(* Properties.                                                              *)

Laidout == ToSet(er.order)

MetaRange(i) == (er.nodes[i].nid * ErSlot) .. (er.nodes[i].nid * ErSlot + Need(er.nodes[i]) - 1)

DataRange(i) ==
    LET n == er.nodes[i]
    IN  (n.blk * ErBlock) .. ((n.blk + Layout(n).full) * ErBlock - 1)

\* An inode, its xattrs and its inline tail lie in one block, as the kernel
\* requires of inline data (layout_facts, the metadata pass of serialize).
TailsWithInodes ==
    er.closed => \A i \in Laidout : \A q \in MetaRange(i) :
        q \div ErBlock = (er.nodes[i].nid * ErSlot) \div ErBlock

\* No two nodes share a byte of the image, and none lies on the superblock
\* or beyond the blocks the superblock announces.
NothingOverlaps ==
    er.closed =>
        /\ \A i, j \in Laidout : i # j =>
              /\ MetaRange(i) \cap MetaRange(j) = {}
              /\ DataRange(i) \cap DataRange(j) = {}
              /\ MetaRange(i) \cap DataRange(j) = {}
        /\ \A i \in Laidout : \A q \in MetaRange(i) \cup DataRange(i) :
              q >= ErFirst /\ q < er.total * ErBlock

\* The prefetch length covers all the metadata and all the data of the
\* priority files, however much of the rest is aligned around them.
PrefetchCovers ==
    (er.closed /\ er.prio # {}) =>
        /\ \A i \in Laidout : \A q \in MetaRange(i) : q < er.prefetch
        /\ \A i \in er.prio : \A q \in DataRange(i) : q < er.prefetch

\* A directory's entries are in the order of their names, which the kernel's
\* binary search relies on.
EntriesSorted ==
    er.closed => \A i \in Laidout : er.nodes[i].kind = "dir" =>
        LET e == DirEntriesOf(er.nodes[i])
        IN  \A k \in 1..(Len(e) - 1) : e[k] < e[k + 1]

\* The image holds what the caller put there: every path, with its kind, its
\* contents byte by byte, and a link count equal to its names.
ErofsReadsBack ==
    (er.closed /\ ~erOdd) =>
        \A p \in DOMAIN erWant :
            LET i == ErFind(er, p)
                n == er.nodes[i]
                f == Layout(n)
                c == ContentOf(er, i)
                at(k) == IF k <= f.full * ErBlock THEN n.blk * ErBlock + k - 1
                         ELSE n.nid * ErSlot + ErSlot + f.x + (k - f.full * ErBlock) - 1
            IN  /\ i # 0 /\ n.kind = erWant[p].kind
                /\ n.kind # "dir" => f.len = erWant[p].size
                /\ \A k \in 1..f.len : er.disk[at(k)] =
                      IF n.kind = "dir" THEN <<-i, k>> ELSE <<erWant[p].gen, k>>
                /\ n.kind # "dir" => n.nlink = Cardinality(ErNames(i))

\* A closed EROFS image keeps the kernel's layout rules, no node is written
\* over another, and a reader finds the tree that was written.
ErofsSound == TailsWithInodes /\ NothingOverlaps /\ PrefetchCovers /\ EntriesSorted /\ ErofsReadsBack
=============================================================================
