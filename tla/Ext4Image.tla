----------------------------- MODULE Ext4Image -----------------------------
(***************************************************************************)
(* The ext4 writer that turns an OCI image into a block device, and the    *)
(* reader that turns the device back into files (src/ext4/src/writer.rs,   *)
(* reader.rs, format.rs).                                                  *)
(*                                                                         *)
(* The writer streams: file data, extent-tree blocks and xattr blocks go   *)
(* to the current position and the position only moves forward, around the *)
(* blocks that sparse_super reserves for backup superblocks.  Directories, *)
(* the journal, the inode table and the bitmaps are placed by close().     *)
(* The writer's whole state is one record, fs, and an operation of the     *)
(* code is an operator from a writer to a writer; an operation that        *)
(* returns Err leaves fs.err set and the caller gives the image up.        *)
(*                                                                         *)
(* Sizes are scaled: a block has BlockUnits bytes, and the limits of the   *)
(* format are constants.  A byte on the disk is a pair <<owner, k>>: the   *)
(* k-th byte of what the owner wrote, 0 for padding and tables.            *)
(***************************************************************************)
EXTENDS Integers, Sequences, FiniteSets
LOCAL INSTANCE TLC
LOCAL INSTANCE SequencesExt
LOCAL INSTANCE FiniteSetsExt

CONSTANTS
    BlockUnits,       \* BLOCK_SIZE, in the bytes of this model
    GroupBlocks,      \* BLOCKS_PER_GROUP
    InodesPerBlock,   \* INODES_PER_GROUP_INCREMENT: inodes in one block
    MaxGroupInodes,   \* MAX_INODES_PER_GROUP
    GroupsPerGd,      \* GROUPS_PER_DESCRIPTOR_BLOCK
    DiskBlocks,       \* max_disk_size, in blocks
    ExtentBlocks,     \* MAX_BLOCKS_PER_EXTENT
    InlineExtents,    \* extents that fit in the inode (4)
    LeafExtents,      \* EXTENTS_PER_BLOCK
    DirEntries,       \* directory entries that fit in one block
    InlineBytes,      \* INLINE_DATA_SIZE
    SmallLink,        \* SMALL_SYMLINK_SIZE
    LinkLimit,        \* MAX_LINKS
    XPaths,           \* the paths the image may hold, sequences of names
    XFiles,           \* the files create() may be given
    XOptions,         \* the option sets Writer::new may be given
    WriteChunk,       \* bytes of one write call
    XOps              \* bound: operations on one image

ASSUME Ext4Scale ==
    /\ {BlockUnits, GroupBlocks, InodesPerBlock, GroupsPerGd, DiskBlocks,
        ExtentBlocks, InlineExtents, LeafExtents, WriteChunk} \subseteq Nat \ {0}
    /\ MaxGroupInodes \div InodesPerBlock + 2 < GroupBlocks
    /\ DirEntries > 2

VARIABLES
    fs,        \* the Writer
    want,      \* path -> the file last put there (what the caller asked for)
    xops       \* operations so far

x4Vars == <<fs, want, xops>>

Root == 2           \* INODE_ROOT
JournalIno == 3     \* INODE_JOURNAL (8 in the format)
FirstIno == 4       \* INODE_FIRST (11 in the format), lost+found
XNone == 0

Least(a, b) == IF a < b THEN a ELSE b
Most(a, b) == IF a > b THEN a ELSE b
CeilDiv(a, b) == (a + b - 1) \div b

\* a set of numbers in ascending order
Ascending(S) ==
    [k \in 1..Cardinality(S) |->
        CHOOSE q \in S : Cardinality({r \in S : r < q}) = k - 1]

-----------------------------------------------------------------------------
(* Blocks that sparse_super reserves.                                       *)

HasSuperBackup(g) ==
    \/ g <= 1
    \/ \E base \in {3, 5, 7}, e \in 1..3 : base ^ e = g

\* gd_blocks: descriptor blocks for the largest disk allowed
GdBlocks == (CeilDiv(DiskBlocks, GroupBlocks) - 1) \div GroupsPerGd + 1

GroupReserve == 1 + GdBlocks

IsReservedBlock(b) ==
    LET g == b \div GroupBlocks IN
    g # 0 /\ (b % GroupBlocks) < GroupReserve /\ HasSuperBackup(g)

\* the smallest reserved block >= from, XNone if there is none
NextReservedGe(from) ==
    LET maxGroup == DiskBlocks \div GroupBlocks + 1
        R == {b \in from..(maxGroup * GroupBlocks + GroupReserve - 1) :
                IsReservedBlock(b)}
    IN  IF R = {} THEN XNone ELSE Min(R)

RegionEnd(b) == (b \div GroupBlocks) * GroupBlocks + GroupReserve

-----------------------------------------------------------------------------
(* The position, and the bytes written there.                               *)

\* Owners: a file is its operation's number, the rest have ranges of their own.
XattrOwner(gen) == 100 + gen
DirOwner(i) == 200 + i
LeafOwner(i) == 300 + i

Stretch(owner, from, to) == [k \in 1..(to - from + 1) |-> <<owner, from + k - 1>>]

Block(w) == w.pos \div BlockUnits

Failing(w) == [w EXCEPT !.err = TRUE]

SeekBlock(w, b) == [w EXCEPT !.pos = b * BlockUnits]

SkipReservedAtPos(w) ==
    IF w.pos % BlockUnits = 0 /\ IsReservedBlock(Block(w))
    THEN SeekBlock(w, RegionEnd(Block(w)))
    ELSE w

\* write_bytes, at the given places; the position ends after the last
WriteAt(w, places, bytes) ==
    IF places[Len(places)] >= DiskBlocks * BlockUnits
    THEN Failing(w)
    ELSE [w EXCEPT !.disk = [q \in ToSet(places) |->
                                bytes[CHOOSE k \in 1..Len(places) : places[k] = q]] @@ @,
                   !.pos = places[Len(places)] + 1]

WriteBytes(w, bytes) ==
    IF bytes = <<>> THEN w
    ELSE WriteAt(w, [k \in 1..Len(bytes) |-> w.pos + k - 1], bytes)

Zeros(n) == [i \in 1..n |-> <<0, 0>>]

WriteZeros(w, n) == WriteBytes(w, Zeros(n))

NextBlock(w) ==
    IF w.pos % BlockUnits = 0 THEN w
    ELSE WriteZeros(w, BlockUnits - (w.pos % BlockUnits))

\* the bytes take the next places that are not in a reserved block
WriteUnreserved(w, bytes) ==
    LET free == {q \in w.pos .. (w.pos + Len(bytes) + GroupBlocks * BlockUnits) :
                    ~IsReservedBlock(q \div BlockUnits)}
    IN  WriteAt(w, SubSeq(Ascending(free), 1, Len(bytes)), bytes)

StartData(w) == [w EXCEPT !.start = Block(w)]

WriteFileData(w, bytes) ==
    WriteUnreserved(IF w.written = 0 THEN StartData(SkipReservedAtPos(w)) ELSE w, bytes)

\* Mutant of RecordFreeHole: the gap stays in use.
RecordFreeHoleNone(w, from, to) == w

RecordFreeHole(w, from, to) ==
    [w EXCEPT !.holes = @ \cup {b \in from .. to - 1 : ~IsReservedBlock(b)}]

\* the loop moves from one reserved region's end to the next until n blocks
\* fit; the blocks it leaves behind are free
ReserveContiguous(w, n) ==
    LET groups == {g \in 1..(DiskBlocks \div GroupBlocks + 1) : HasSuperBackup(g)}
        starts == {Block(SkipReservedAtPos(w))}
                    \cup {RegionEnd(g * GroupBlocks) : g \in groups}
        fits(b) == NextReservedGe(b) = XNone \/ NextReservedGe(b) >= b + n
        at == Min({b \in starts : b >= Block(w) /\ fits(b)})
    IN  SeekBlock(RecordFreeHole(w, Block(w), at), at)

-----------------------------------------------------------------------------
(* Inodes and names.                                                        *)

GetInode(w, i) == w.inodes[i]

Allocated(w) == {i \in 1..Len(w.inodes) : w.inodes[i].kind # "none"}

NoInode == [kind |-> "none", gen |-> 0, size |-> 0, links |-> 0, xblk |-> 0,
            ext |-> <<>>, tree |-> <<>>, inline |-> FALSE, data |-> <<>>,
            extents |-> FALSE, blocks |-> 0, kids |-> <<>>]

\* the inode of a path, XNone if a component is missing
FindPath(w, p) ==
    LET step(i, name) ==
            IF i # XNone /\ name \in DOMAIN w.inodes[i].kids
            THEN w.inodes[i].kids[name] ELSE XNone
    IN  FoldLeft(step, Root, p)

Parent(p) == SubSeq(p, 1, Len(p) - 1)

\* the physical runs of [from, to), cut into extents
Extents(from, to) ==
    LET blocks == Ascending({b \in from .. to - 1 : ~IsReservedBlock(b)})
        step(xs, b) ==
            IF /\ xs # <<>>
               /\ xs[Len(xs)].at + xs[Len(xs)].len = b
               /\ xs[Len(xs)].len < ExtentBlocks
            THEN [xs EXCEPT ![Len(xs)].len = @ + 1]
            ELSE Append(xs, [at |-> b, len |-> 1])
    IN  FoldLeft(step, <<>>, blocks)

\* one extent leaf block: its place skips reserved blocks
LeafHere(w, i) ==
    [WriteBytes(w, Stretch(LeafOwner(w.cur), 1 + (i - 1) * BlockUnits, i * BlockUnits)) EXCEPT
        !.inodes[w.cur].tree = Append(@, Block(w)),
        !.inodes[w.cur].blocks = @ + 1]

WriteLeafBlock(w, i) == LeafHere(SkipReservedAtPos(w), i)

Covered(xs) == UNION {xs[i].at .. (xs[i].at + xs[i].len - 1) : i \in DOMAIN xs}

SetExtents(w, xs, covered) ==
    [w EXCEPT !.inodes[w.cur].ext = xs,
              !.inodes[w.cur].extents = TRUE,
              !.inodes[w.cur].blocks = @ + Cardinality(covered),
              !.boot = IF w.name \in w.opts.boot THEN @ \cup covered ELSE @]

\* up to InlineExtents lie in the inode, more in leaf blocks of their own
PutExtents(w, xs) ==
    IF Len(xs) > InlineExtents * LeafExtents THEN Failing(w)
    ELSE FoldLeft(WriteLeafBlock, SetExtents(w, xs, Covered(xs)),
                  IF Len(xs) <= InlineExtents THEN <<>>
                  ELSE [i \in 1..CeilDiv(Len(xs), LeafExtents) |-> i])

ExtentsHere(w) == PutExtents(w, Extents(w.start, Block(w)))

WriteExtents(w) == ExtentsHere(NextBlock(w))

StartInode(w, name, i, size) ==
    IF w.cur # XNone THEN Failing(w)
    ELSE [w EXCEPT !.cur = i, !.written = 0, !.max = size, !.start = 0,
                   !.name = name]

InodeDone(w) == [w EXCEPT !.written = 0, !.max = 0, !.cur = XNone]

FinishInode(w) ==
    CASE w.cur = XNone -> w
      [] w.cur # XNone /\ w.written # w.max -> Failing(w)
      [] OTHER -> InodeDone(IF w.max # 0 /\ ~w.inodes[w.cur].inline
                            THEN WriteExtents(w) ELSE w)

WriteData(w, bytes) ==
    CASE bytes = <<>> -> w
      [] bytes # <<>> /\ (w.cur = XNone \/ w.written + Len(bytes) > w.max) ->
            Failing(w)
      [] OTHER ->
            IF w.inodes[w.cur].inline
            THEN [w EXCEPT !.inodes[w.cur].data = @ \o bytes,
                           !.written = @ + Len(bytes)]
            ELSE [WriteFileData(w, bytes) EXCEPT !.written = @ + Len(bytes)]

\* an xattr block is written again in place
RewriteBlock(w, b, bytes) == SeekBlock(WriteBytes(SeekBlock(w, b), bytes), Block(w))

\* init_inode: the fields of f in an inode that keeps old's names and links
InitInode(old, f, gen, inline, xblk) ==
    [NoInode EXCEPT
        !.kind = f.kind, !.gen = gen,
        !.size = IF f.kind \in {"reg", "lnk"} THEN f.size ELSE 0,
        !.links = IF old.kind # "none" THEN old.links ELSE IF f.kind = "dir" THEN 1 ELSE 0,
        !.kids = old.kids,
        !.inline = inline,
        !.data = IF inline /\ f.kind = "lnk" THEN Stretch(gen, 1, f.size) ELSE <<>>,
        !.xblk = xblk,
        !.blocks = old.blocks + (IF xblk # old.xblk THEN 1 ELSE 0)]

\* the xattr block: a new one here, or the old one written again
WriteXattrs(w, old, xattrs, gen) ==
    IF xattrs /\ old.xblk = XNone
    THEN WriteBytes(w, Stretch(XattrOwner(gen), 1, BlockUnits))
    ELSE IF old.xblk = XNone THEN w
    ELSE RewriteBlock(w, old.xblk, IF xattrs THEN Stretch(XattrOwner(gen), 1, BlockUnits)
                                   ELSE Zeros(BlockUnits))

\* make_inode: a new inode i, or inode i with its names and links
InodeAt(w, f, gen, i, old) ==
    LET inline == \/ f.kind = "reg" /\ w.opts.inline /\ f.size <= InlineBytes
                  \/ f.kind = "lnk" /\ f.size <= SmallLink
        xblk == IF f.xattrs /\ old.xblk = XNone THEN Block(w) ELSE old.xblk
        t == [WriteXattrs(w, old, f.xattrs, gen) EXCEPT
                !.inodes = [k \in 1..Most(i, Len(@)) |->
                              IF k = i THEN InitInode(old, f, gen, inline, xblk) ELSE @[k]]]
    IN  CASE old.extents -> Failing(w)
          [] ~old.extents /\ f.kind = "lnk" /\ ~inline ->
                FinishInode(WriteData(StartInode(t, <<>>, i, f.size), Stretch(gen, 1, f.size)))
          [] OTHER -> t

MakeInode(w, f, gen, reuse) ==
    IF reuse = XNone THEN InodeAt(w, f, gen, Len(w.inodes) + 1, NoInode)
    ELSE InodeAt(w, f, gen, reuse, GetInode(w, reuse))

\* the padding create() puts before a large file
AlignData(w, f) ==
    LET a == w.opts.align * BlockUnits
        rem == IF a > 0 THEN w.pos % a ELSE 0
    IN  IF a > 0 /\ f.size >= w.opts.alignMin * BlockUnits /\ rem # 0
        THEN RecordFreeHole(WriteZeros(w, a - rem), Block(w), (w.pos + a - rem) \div BlockUnits)
        ELSE w

\* a name of the inode goes to another one
DropName(w, i) == [w EXCEPT !.inodes[i].links = @ - 1]

\* the name p of directory dir, now held by `old`, goes to inode i
Rename(s, dir, name, i, old, isDir) ==
    IF i = old THEN s
    ELSE [(IF old = XNone THEN s ELSE DropName(s, old)) EXCEPT
            !.inodes[dir].kids = (name :> i) @@ @,
            !.inodes[dir].links = IF isDir THEN @ + 1 ELSE @,
            !.inodes[i].links = @ + 1]

\* create() from the inode on: it is named, and a regular file is opened
CreateInode(s, p, f, dir, i, old) ==
    IF s.err THEN s
    ELSE IF f.kind = "reg"
    THEN AlignData(StartInode(Rename(s, dir, p[Len(p)], i, old, FALSE), p, i, f.size), f)
    ELSE Rename(s, dir, p[Len(p)], i, old, f.kind = "dir")

\* create() once the directory and the name's present inode are known
CreateAt(w, p, f, gen, dir, old) ==
    LET isDir == f.kind = "dir"
        refused == \/ w.err
                   \/ dir = XNone
                   \/ w.inodes[dir].kind # "dir"
                   \/ old # XNone /\ (w.inodes[old].kind = "dir") # isDir
                   \/ old = XNone /\ isDir /\ w.inodes[dir].links >= LinkLimit
        reuse == old # XNone /\ (isDir \/ w.inodes[old].links < 2)
    IN  IF refused THEN Failing(w)
        ELSE IF reuse THEN CreateInode(MakeInode(w, f, gen, old), p, f, dir, old, old)
        ELSE CreateInode(MakeInode(w, f, gen, XNone), p, f, dir, Len(w.inodes) + 1, old)

CreateIn(w, p, f, gen) ==
    CreateAt(w, p, f, gen, FindPath(w, Parent(p)), FindPath(w, p))

Create(w, p, f, gen) == CreateIn(FinishInode(w), p, f, gen)

\* the missing directories above p, created top down
MakeParents(w, p, gen) ==
    LET step(v, k) ==
            IF FindPath(v, SubSeq(p, 1, k)) # XNone THEN v
            ELSE Create(v, SubSeq(p, 1, k),
                        [kind |-> "dir", size |-> 0, xattrs |-> FALSE], gen)
    IN  FoldLeft(step, FinishInode(w), [k \in 1..(Len(p) - 1) |-> k])

LinkAt(w, new, dir, existing, src) ==
    LET refused == \/ w.err
                   \/ dir = XNone \/ w.inodes[dir].kind # "dir"
                   \/ existing # XNone /\ \/ w.inodes[existing].kind = "dir"
                                          \/ w.inodes[existing].links < 2
                   \/ src = XNone \/ w.inodes[src].kind = "dir"
                   \/ existing # src /\ w.inodes[src].links >= LinkLimit
        s == IF existing = XNone THEN w ELSE DropName(w, existing)
    IN  IF refused THEN Failing(w)
        ELSE [s EXCEPT !.inodes[src].links = @ + 1,
                       !.inodes[dir].kids = (new[Len(new)] :> src) @@ @]

LinkIn(w, old, new) ==
    LinkAt(w, new, FindPath(w, Parent(new)), FindPath(w, new), FindPath(w, old))

Link(w, old, new) == LinkIn(FinishInode(w), old, new)

-----------------------------------------------------------------------------
(* close(): directories, journal, inode table, bitmaps, superblock.         *)

IsDir(w, i) == w.inodes[i].kind = "dir"

\* the directories below i, parents first, in inode order
RECURSIVE DirsFrom(_, _)
DirsFrom(w, i) ==
    LET kids == {w.inodes[i].kids[n] : n \in DOMAIN w.inodes[i].kids}
        dirs == Ascending({k \in kids : IsDir(w, k)})
    IN  <<i>> \o FlattenSeq([k \in 1..Len(dirs) |-> DirsFrom(w, dirs[k])])

\* write_directory: entries fill whole blocks; the size is what was written
WriteDirectory(w0, i) ==
    LET w == FinishInode(w0)
        n == CeilDiv(2 + Cardinality(DOMAIN w.inodes[i].kids), DirEntries)
        s == StartInode(w, <<>>, i, n * BlockUnits)
    IN  IF w.err THEN w
        ELSE [WriteData(s, Stretch(DirOwner(i), 1, n * BlockUnits))
                EXCEPT !.inodes[i].size = n * BlockUnits]

WriteJournal(w) ==
    LET n == w.opts.journal
        s == ReserveContiguous(w, n)
        at == Block(s)
    IN  [WriteZeros(s, n * BlockUnits) EXCEPT
            !.inodes[JournalIno] =
                [NoInode EXCEPT !.kind = "reg", !.size = n * BlockUnits,
                                !.links = 1, !.extents = TRUE, !.blocks = n,
                                !.ext = <<[at |-> at, len |-> n]>>]]

GroupCount(blocks, inodes, ipg) ==
    LET data == GroupBlocks - ipg \div InodesPerBlock - 2
        floor == IF inodes > 0 THEN ((inodes - 1) \div ipg) * data + 1 ELSE 1
    IN  CeilDiv(Most(blocks, floor), data)

\* the fewest groups, and the smallest table that gives them
BestGroupCount(blocks, inodes) ==
    LET ipgs == {k * InodesPerBlock : k \in 1..(MaxGroupInodes \div InodesPerBlock)}
        groups == Min({GroupCount(blocks, inodes, k) : k \in ipgs})
    IN  [groups |-> groups,
         ipg |-> Min({k \in ipgs : GroupCount(blocks, inodes, k) = groups})]

CloseTables(w) ==
    LET n == Len(w.inodes)
        b0 == BestGroupCount(Block(w), n)
        s == ReserveContiguous(w, (b0.groups + 1) * (b0.ipg \div InodesPerBlock) + 2)
        b == BestGroupCount(Block(s), n)
        t == WriteZeros(s, b.groups * (b.ipg \div InodesPerBlock) * BlockUnits)
        u == ReserveContiguous(t, 2 * b.groups)
        v == WriteZeros(u, 2 * b.groups * BlockUnits)
    IN  [v EXCEPT !.table = Block(s), !.groups = b.groups, !.ipg = b.ipg,
                  !.bitmaps = Block(u)]

ValidSize(w) == w.bitmaps + 2 * w.groups

DiskSize(w) == Most(ValidSize(w), (w.groups - 1) * GroupBlocks + 1)

UsedGdBlocks(w) == (w.groups - 1) \div GroupsPerGd + 1

\* the blocks the block bitmaps mark as used, by the steps of close()
Bitmap(w) ==
    LET dense == 0 .. ValidSize(w) - 1
        unusedGd == (1 + UsedGdBlocks(w)) .. GdBlocks
        last == (w.groups - 1) * GroupBlocks
        beyond == IF DiskSize(w) % GroupBlocks = 0 THEN {}
                  ELSE (last + (DiskSize(w) % GroupBlocks)) .. (last + GroupBlocks - 1)
        inGroups == {b \in dense : b < w.groups * GroupBlocks} \ unusedGd
    IN  (inGroups \cup beyond) \ w.holes

\* the directories, then the journal
CloseData(w) ==
    LET d == FinishInode(FoldLeft(WriteDirectory, w, DirsFrom(w, Root)))
    IN  IF d.err \/ d.opts.journal = 0 THEN d ELSE WriteJournal(d)

\* close_with_boot_blocks fails when the descriptors or the disk do not fit
Closed(t) ==
    IF t.err \/ UsedGdBlocks(t) > GdBlocks \/ DiskSize(t) > DiskBlocks
    THEN Failing(t)
    ELSE [t EXCEPT !.closed = TRUE]

-----------------------------------------------------------------------------
(* The reader.                                                              *)

\* inode_offset: the table slot of an inode, by group and index
InodeSlot(w, i) ==
    LET group == (i - 1) \div w.ipg
        index == (i - 1) % w.ipg
        tableLow == w.table + group * (w.ipg \div InodesPerBlock)
    IN  [block |-> tableLow + index \div InodesPerBlock,
         slot |-> index % InodesPerBlock]

\* the slot write_inode_table put inode i into
WrittenSlot(w, i) ==
    [block |-> w.table + (i - 1) \div InodesPerBlock,
     slot |-> (i - 1) % InodesPerBlock]

\* resolve_extents: the extents in the inode, or those of its leaf blocks
ResolveExtents(w, i) ==
    LET n == w.inodes[i]
        leaf(j) == IF w.disk[n.tree[j] * BlockUnits]
                        = <<LeafOwner(i), 1 + (j - 1) * BlockUnits>>
                   THEN SubSeq(n.ext, 1 + (j - 1) * LeafExtents,
                               Least(j * LeafExtents, Len(n.ext)))
                   ELSE <<>>
    IN  IF n.tree = <<>> THEN n.ext
        ELSE FlattenSeq([j \in 1..Len(n.tree) |-> leaf(j)])

\* read_data: the inline bytes, or the extents in order, cut to the size
ReadData(w, i) ==
    LET n == w.inodes[i]
        xs == ResolveExtents(w, i)
        blockBytes(b) == [k \in 1..BlockUnits |-> w.disk[b * BlockUnits + k - 1]]
        extentBytes(x) == FlattenSeq([k \in 1..x.len |-> blockBytes(x.at + k - 1)])
        all == FlattenSeq([k \in 1..Len(xs) |-> extentBytes(xs[k])])
    IN  IF n.size = 0 THEN <<>>
        ELSE IF n.inline THEN n.data
        ELSE SubSeq(all, 1, Least(n.size, Len(all)))

\* read_xattrs: what the xattr block holds
ReadXattrs(w, i) ==
    IF w.inodes[i].xblk = XNone THEN <<0, 0>>
    ELSE w.disk[w.inodes[i].xblk * BlockUnits]

\* walk(): the paths under a directory
RECURSIVE WalkFrom(_, _, _)
WalkFrom(w, i, prefix) ==
    LET names == DOMAIN w.inodes[i].kids IN
    UNION {LET k == w.inodes[i].kids[n]
           IN  {[path |-> Append(prefix, n), ino |-> k]} \cup
               (IF IsDir(w, k) THEN WalkFrom(w, k, Append(prefix, n)) ELSE {})
           : n \in names}

Walk(w) == WalkFrom(w, Root, <<>>)

-----------------------------------------------------------------------------
(* The operations of a caller, in any order.                                *)

XBusy == fs.err \/ fs.closed

\* the writer after init(): root, lost+found, and the position after the
\* primary superblock and descriptors
NewWriter(o) ==
    LET dir(links, kids) == [NoInode EXCEPT !.kind = "dir", !.links = links,
                                            !.kids = kids, !.gen = 0]
    IN  [inodes |-> <<NoInode, dir(3, "lost+found" :> FirstIno), NoInode,
                      dir(2, <<>>)>>,
         pos |-> GroupReserve * BlockUnits, disk |-> <<>>, cur |-> XNone,
         name |-> <<>>, written |-> 0, max |-> 0, start |-> 0, holes |-> {},
         boot |-> {}, opts |-> o, err |-> FALSE, closed |-> FALSE,
         table |-> 0, bitmaps |-> 0, groups |-> 0, ipg |-> 0]

X4Init ==
    /\ fs \in {NewWriter(o) : o \in XOptions}
    /\ want = <<>>
    /\ xops = 0

NextOp == xops < XOps /\ xops' = xops + 1

DirFile == [kind |-> "dir", size |-> 0, xattrs |-> FALSE]

\* the directories above p that make_parents adds
AddedParents(p, gen) ==
    [q \in {SubSeq(p, 1, k) : k \in 1..(Len(p) - 1)} \ DOMAIN want |->
        [file |-> DirFile, gen |-> gen, at |-> q]]

\* write_tar_entry_inner for anything but a hard link: the parents, then the
\* file; the data of a regular file follows in WriteSome
XCreate(p, f) ==
    /\ ~XBusy /\ NextOp
    /\ \E s \in {MakeParents(fs, p, xops + 1)} :
       \E t \in {IF s.err THEN s ELSE Create(s, p, f, xops + 1)} :
           /\ fs' = t
           /\ want' = IF t.err THEN want
                      ELSE (p :> [file |-> f, gen |-> xops + 1, at |-> p])
                           @@ AddedParents(p, xops + 1) @@ want

\* the caller streams the file's bytes in chunks
WriteSome ==
    /\ ~XBusy /\ fs.cur # XNone /\ fs.written < fs.max
    /\ LET n == Least(WriteChunk, fs.max - fs.written)
           gen == fs.inodes[fs.cur].gen
       IN  fs' = WriteData(fs, Stretch(gen, fs.written + 1, fs.written + n))
    /\ UNCHANGED <<want, xops>>

\* write_tar_entry_inner for a hard link
XLink(old, new) ==
    /\ ~XBusy /\ NextOp
    /\ \E s \in {MakeParents(fs, new, xops + 1)} :
       \E t \in {IF s.err THEN s ELSE Link(s, old, new)} :
           /\ fs' = t
           /\ want' = IF t.err THEN want
                      ELSE (new :> want[old]) @@ AddedParents(new, xops + 1) @@ want

\* close_with_boot_blocks
XClose ==
    /\ ~XBusy
    /\ \E w \in {FinishInode(fs)} :
          IF w.err THEN fs' = w
          ELSE \E d \in {CloseData(w)} :
                  IF d.err THEN fs' = d
                  ELSE \E t \in {CloseTables(d)} : fs' = Closed(t)
    /\ UNCHANGED <<want, xops>>

X4Next ==
    \/ \E p \in XPaths, f \in XFiles : XCreate(p, f)
    \/ \E p, q \in XPaths : XLink(p, q)
    \/ WriteSome
    \/ XClose

X4Spec == X4Init /\ [][X4Next]_x4Vars

-----------------------------------------------------------------------------
(* Properties.                                                              *)

\* The blocks an inode claims: its data, its extent-tree blocks, its xattrs.
DataOf(i) ==
    UNION {x.at .. (x.at + x.len - 1) :
               x \in {fs.inodes[i].ext[k] : k \in 1..Len(fs.inodes[i].ext)}}
    \cup {fs.inodes[i].tree[k] : k \in 1..Len(fs.inodes[i].tree)}

XattrOf(i) == {fs.inodes[i].xblk} \ {XNone}

TableBlocks == fs.table .. (fs.table + fs.groups * (fs.ipg \div InodesPerBlock) - 1)
BitmapBlocks == fs.bitmaps .. (fs.bitmaps + 2 * fs.groups - 1)
PrimaryBlocks == 0 .. GdBlocks

Reserved(b) == IsReservedBlock(b) \/ b \in PrimaryBlocks

\* "Data must never claim these blocks": no file data, extent-tree block,
\* journal, inode table or bitmap lies on a block that a backup superblock
\* or the primary metadata occupies (write_file_data, reserve_contiguous).
DataOffReserved ==
    fs.closed =>
        /\ \A i \in Allocated(fs) : \A b \in DataOf(i) : ~Reserved(b)
        /\ \A b \in TableBlocks \cup BitmapBlocks : ~Reserved(b)

\* The same for the blocks that hold extended attributes, which make_inode
\* writes at the current position.
XattrsOffReserved ==
    fs.closed => \A i \in Allocated(fs) : \A b \in XattrOf(i) : ~Reserved(b)

\* No block is claimed twice: not by two inodes, not by an inode and a table,
\* whatever the alignment, the groups crossed and the tables' move past a
\* reserved region (the kernel refuses "multiply-claimed" blocks).
ClaimedOnce ==
    fs.closed =>
        /\ \A i, j \in Allocated(fs) :
              i # j => (DataOf(i) \cup XattrOf(i)) \cap (DataOf(j) \cup XattrOf(j)) = {}
        /\ \A i \in Allocated(fs) :
              /\ DataOf(i) \cap XattrOf(i) = {}
              /\ (DataOf(i) \cup XattrOf(i)) \cap (TableBlocks \cup BitmapBlocks) = {}
        /\ TableBlocks \cap BitmapBlocks = {}

Claimed ==
    UNION {DataOf(i) \cup XattrOf(i) : i \in Allocated(fs)}
    \cup TableBlocks \cup BitmapBlocks

\* The bitmap that close() writes marks exactly the blocks in use: what an
\* inode or a table claims and what is reserved, up to the end of the data;
\* alignment gaps and skipped lead-ins are free.
BitmapExact ==
    fs.closed =>
        \A b \in 0 .. ValidSize(fs) - 1 :
            (b \in Bitmap(fs)) <=>
                \/ b \in Claimed
                \/ IsReservedBlock(b)
                \/ b \in 0 .. UsedGdBlocks(fs)

\* The groups close() describes reach the end of the disk it announces, so
\* every block has a bitmap bit and every inode a table slot.
GroupsCoverDisk ==
    fs.closed =>
        /\ DiskSize(fs) <= fs.groups * GroupBlocks
        /\ Len(fs.inodes) <= fs.groups * fs.ipg

\* Link counts: a file has one per name, a directory one for itself, one for
\* its name and one per subdirectory (e2fsck checks the same numbers).
LinksExact ==
    fs.closed =>
        \A i \in Allocated(fs) \ {JournalIno} :
            LET names == {e \in Walk(fs) : e.ino = i}
                sub == {n \in DOMAIN fs.inodes[i].kids : IsDir(fs, fs.inodes[i].kids[n])}
            IN  fs.inodes[i].links =
                    IF IsDir(fs, i) THEN 2 + Cardinality(sub) ELSE Cardinality(names)

\* What the reader finds is what the caller asked for: the same paths, each
\* with the file last put there, every byte of it read through the inode
\* table, the extents and the blocks (walk, read_inode, read_data).
ReadsBack ==
    fs.closed =>
        LET tree == {e \in Walk(fs) : e.path # <<"lost+found">>} IN
        /\ {e.path : e \in tree} = DOMAIN want
        /\ \A e \in tree :
              LET n == fs.inodes[e.ino]
                  f == want[e.path].file
              IN  /\ InodeSlot(fs, e.ino) = WrittenSlot(fs, e.ino)
                  /\ n.kind = f.kind /\ n.gen = want[e.path].gen
                  /\ f.kind \in {"reg", "lnk"} =>
                        ReadData(fs, e.ino) = Stretch(n.gen, 1, f.size)
                  /\ f.kind = "dir" =>
                        ReadData(fs, e.ino) = Stretch(DirOwner(e.ino), 1, n.size)
                  /\ ReadXattrs(fs, e.ino) =
                        IF f.xattrs THEN <<XattrOwner(n.gen), 1>> ELSE <<0, 0>>

\* The boot blocks close_with_boot_blocks reports hold all the data of every
\* file that was created at a boot path, and no block of a file that was not.
BootBlocksCover ==
    fs.closed =>
        \A e \in {r \in Walk(fs) : r.path \in DOMAIN want} :
            LET n == fs.inodes[e.ino]
                x == n.ext
                blocks == UNION {x[k].at .. (x[k].at + x[k].len - 1) : k \in 1..Len(x)}
            IN  IF want[e.path].at \in fs.opts.boot /\ n.kind = "reg"
                THEN blocks \subseteq fs.boot
                ELSE blocks \cap fs.boot = {}

\* What e2fsck checks, and more: blocks, bitmaps, groups and link counts of a
\* closed image agree, and a reader finds the tree that was written.
Ext4Sound == DataOffReserved /\ ClaimedOnce /\ GroupsCoverDisk /\ BitmapExact /\ LinksExact /\ ReadsBack /\ BootBlocksCover
=============================================================================
