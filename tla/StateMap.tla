------------------------------ MODULE StateMap ------------------------------
(***************************************************************************)
(* SparseStateMap (src/glidefs/src/block/block_map.rs): a directory of     *)
(* pages allocated on first use, each an array of bytes that pack the      *)
(* states of several blocks.  Threads change a state by loading the byte   *)
(* and swapping it, and try again when a neighbour's state has changed     *)
(* the byte in between.  An atomic load, exchange or compare-exchange of   *)
(* the code is one step here.                                              *)
(*                                                                         *)
(* A page is named by the thread that allocated it: a thread allocates a   *)
(* page for a directory slot at most once, since slots are never cleared.  *)
(***************************************************************************)
EXTENDS Integers

CONSTANTS
    Callers,       \* the threads that use the map
    NoThread,      \* a null directory slot
    NumEntries,    \* num_entries
    PerByte,       \* ENTRIES_PER_BYTE
    PageBytes,     \* STATE_PAGE_BYTES
    SMUses         \* bound: which operations and scans one behaviour mixes

ASSUME StateMapScale ==
    /\ NoThread \notin Callers
    /\ NumEntries \in Nat \ {0} /\ PerByte \in Nat \ {0} /\ PageBytes \in Nat \ {0}
    /\ SMUses \subseteq [ops : SUBSET {"get", "claim", "dirty", "sync", "evict"}, scans : SUBSET {1, 2, 3},
                     on : SUBSET (0 .. (NumEntries - 1)),
                     by : SUBSET Callers]

VARIABLES
    smDir,     \* page index -> the thread whose page is installed, or NoThread
    smMem,     \* <<thread, page index, byte index>> -> the byte: slot -> state
    smPc,      \* thread -> where it is
    smOp,      \* thread -> the operation it is in
    smAt,      \* thread -> the block it operates on
    smExp,     \* thread -> `expected`
    smOld,     \* thread -> `old`, the byte it loaded
    smPage,    \* thread -> `page`, the page it found or installed
    smRes,     \* thread -> the state its operation found
    smScan,    \* the progress of iter_with_state, and what it must report
    smUse      \* the operations and scans of this behaviour

smCall == <<smPc, smOp, smAt, smExp, smOld, smPage, smRes>>
smVars == <<smDir, smMem, smPc, smOp, smAt, smExp, smOld, smPage, smRes, smScan, smUse>>

Entries == 0 .. (NumEntries - 1)
PageEntries == PageBytes * PerByte
Pages == 0 .. ((NumEntries - 1) \div PageEntries)
Bytes == 0 .. (PageBytes - 1)
Slots == 0 .. (PerByte - 1)

\* split_index
PageOf(e) == e \div PageEntries
ByteOf(e) == (e % PageEntries) \div PerByte
SlotOf(e) == e % PerByte

ZeroByte == [s \in Slots |-> 0]

\* the byte that holds block e in the page of thread o
CellOf(o, e) == <<o, PageOf(e), ByteOf(e)>>

\* the state of block e as the directory and the pages give it
StateOf(e) ==
    IF smDir[PageOf(e)] = NoThread THEN 0
    ELSE smMem[CellOf(smDir[PageOf(e)], e)][SlotOf(e)]

Map == INSTANCE EntryMap WITH
    state <- [e \in Entries |-> StateOf(e)],
    call <- [t \in Callers |-> IF smPc[t] = "idle" THEN <<"none", 0>> ELSE <<smOp[t], smAt[t]>>],
    answer <- [t \in Callers |-> IF smPc[t] = "done" THEN smRes[t] ELSE 4]

-----------------------------------------------------------------------------
(* Init.                                                                    *)

NoScan == [on |-> FALSE, target |-> 0, page |-> 0, byte |-> 0, map |-> NoThread,
           loaded |-> FALSE, found |-> {}, stable |-> {}, ever |-> {}]

SMInit ==
    /\ smDir = [p \in Pages |-> NoThread]
    /\ smMem = [c \in Callers \X Pages \X Bytes |-> ZeroByte]
    /\ smPc = [t \in Callers |-> "idle"]
    /\ smOp = [t \in Callers |-> "get"]
    /\ smAt = [t \in Callers |-> 0]
    /\ smExp = [t \in Callers |-> 0]
    /\ smOld = [t \in Callers |-> ZeroByte]
    /\ smPage = [t \in Callers |-> NoThread]
    /\ smRes = [t \in Callers |-> 0]
    /\ smScan = NoScan
    /\ smUse \in SMUses

-----------------------------------------------------------------------------
(* The operations.                                                          *)

\* get and transition_to_dirty look first; the others go to the page at once
Invoke(t, op, e) ==
    /\ smPc[t] = "idle" /\ op \in smUse.ops /\ e \in smUse.on /\ t \in smUse.by
    /\ smPc' = [smPc EXCEPT ![t] = IF op \in {"get", "dirty"} THEN "peek"
                                   ELSE IF op = "claim" THEN "ensure" ELSE "page"]
    /\ smOp' = [smOp EXCEPT ![t] = op]
    /\ smAt' = [smAt EXCEPT ![t] = e]
    /\ smExp' = [smExp EXCEPT ![t] = CASE op = "sync" -> 2 [] op = "evict" -> 3 [] OTHER -> 0]
    /\ UNCHANGED <<smDir, smMem, smOld, smPage, smRes, smScan, smUse>>

\* get: load_page
PeekPage(t) ==
    LET p == smDir[PageOf(smAt[t])] IN
    /\ smPc[t] = "peek"
    /\ smPc' = [smPc EXCEPT ![t] = IF p # NoThread THEN "look"
                                   ELSE IF smOp[t] = "get" THEN "done" ELSE "page"]
    /\ smPage' = [smPage EXCEPT ![t] = p]
    /\ smExp' = [smExp EXCEPT ![t] = 0]
    /\ smRes' = [smRes EXCEPT ![t] = 0]
    /\ UNCHANGED <<smDir, smMem, smOp, smAt, smOld, smScan, smUse>>

\* get: load the byte; transition_to_dirty goes on with the state it saw
PeekByte(t) ==
    LET current == smMem[CellOf(smPage[t], smAt[t])][SlotOf(smAt[t])] IN
    /\ smPc[t] = "look"
    /\ smPc' = [smPc EXCEPT ![t] = IF smOp[t] = "get" \/ current = 2 THEN "done" ELSE "page"]
    /\ smExp' = [smExp EXCEPT ![t] = current]
    /\ smRes' = [smRes EXCEPT ![t] = current]
    /\ UNCHANGED <<smDir, smMem, smOp, smAt, smOld, smPage, smScan, smUse>>

\* cas: load_page, and what a missing page means
CasPage(t) ==
    LET p == smDir[PageOf(smAt[t])] IN
    /\ smPc[t] = "page"
    /\ smPc' = [smPc EXCEPT ![t] = IF p # NoThread THEN "load"
                                   ELSE IF smExp[t] = 0 THEN "ensure"
                                   ELSE IF smOp[t] = "dirty" THEN "peek" ELSE "done"]
    /\ smPage' = [smPage EXCEPT ![t] = p]
    /\ smRes' = [smRes EXCEPT ![t] = 0]
    /\ UNCHANGED <<smDir, smMem, smOp, smAt, smExp, smOld, smScan, smUse>>

\* ensure_page: load the slot, or allocate a zeroed page
EnsurePage(t) ==
    LET p == PageOf(smAt[t]) IN
    /\ smPc[t] = "ensure"
    /\ smPage' = [smPage EXCEPT ![t] = smDir[p]]
    /\ IF smDir[p] # NoThread
       THEN /\ smPc' = [smPc EXCEPT ![t] = "load"]
            /\ UNCHANGED smMem
       ELSE /\ smPc' = [smPc EXCEPT ![t] = "install"]
            /\ smMem' = [c \in Callers \X Pages \X Bytes |->
                            IF c[1] = t /\ c[2] = p THEN ZeroByte ELSE smMem[c]]
    /\ UNCHANGED <<smDir, smOp, smAt, smExp, smOld, smRes, smScan, smUse>>

\* Mutant of Install: the thread that lost the race keeps its own page.
InstallKeepsOwn(t) ==
    LET p == PageOf(smAt[t]) IN
    /\ smPc[t] = "install"
    /\ smDir' = [smDir EXCEPT ![p] = IF @ = NoThread THEN t ELSE @]
    /\ smPage' = [smPage EXCEPT ![t] = t]
    /\ smPc' = [smPc EXCEPT ![t] = "load"]
    /\ UNCHANGED <<smMem, smOp, smAt, smExp, smOld, smRes, smScan, smUse>>

\* allocate_page: compare-exchange of the slot; the loser drops its page
Install(t) ==
    LET p == PageOf(smAt[t]) IN
    /\ smPc[t] = "install"
    /\ smDir' = [smDir EXCEPT ![p] = IF @ = NoThread THEN t ELSE @]
    /\ smPage' = [smPage EXCEPT ![t] = smDir'[p]]
    /\ smPc' = [smPc EXCEPT ![t] = "load"]
    /\ UNCHANGED <<smMem, smOp, smAt, smExp, smOld, smRes, smScan, smUse>>

\* cas, try_set_present: load the byte and compare the state with `expected`
LoadByte(t) ==
    LET old == smMem[CellOf(smPage[t], smAt[t])]
        current == old[SlotOf(smAt[t])]
    IN
    /\ smPc[t] = "load"
    /\ smOld' = [smOld EXCEPT ![t] = IF current = smExp[t] THEN old ELSE ZeroByte]
    /\ smRes' = [smRes EXCEPT ![t] = current]
    /\ smPc' = [smPc EXCEPT ![t] = IF current = smExp[t] THEN "swap"
                                   ELSE IF smOp[t] = "dirty" THEN "peek" ELSE "done"]
    /\ UNCHANGED <<smDir, smMem, smOp, smAt, smExp, smPage, smScan, smUse>>

NewState(op) == CASE op = "claim" -> 1 [] op = "dirty" -> 2 [] op = "sync" -> 3 [] OTHER -> 0

\* what a scan must know of a state change: the blocks that had the state it
\* looks for all along, and those that had it at some moment
Noted(e, new) ==
    IF ~smScan.on THEN smScan
    ELSE IF new = smScan.target THEN [smScan EXCEPT !.ever = @ \cup {e}]
    ELSE [smScan EXCEPT !.stable = @ \ {e}]

\* the compare-exchange of the byte; another round when it has changed
SwapByte(t) ==
    LET c == CellOf(smPage[t], smAt[t])
        new == NewState(smOp[t])
    IN
    /\ smPc[t] = "swap"
    /\ IF smMem[c] = smOld[t]
       THEN /\ smMem' = [smMem EXCEPT ![c] = [smOld[t] EXCEPT ![SlotOf(smAt[t])] = new]]
            /\ smScan' = Noted(smAt[t], new)
            /\ smPc' = [smPc EXCEPT ![t] = "done"]
       ELSE /\ smPc' = [smPc EXCEPT ![t] = "load"]
            /\ UNCHANGED <<smMem, smScan>>
    /\ UNCHANGED <<smDir, smOp, smAt, smExp, smOld, smPage, smRes, smUse>>

Return(t) ==
    /\ smPc[t] = "done"
    /\ smPc' = [smPc EXCEPT ![t] = "idle"]
    /\ smOp' = [smOp EXCEPT ![t] = "get"]
    /\ smAt' = [smAt EXCEPT ![t] = 0]
    /\ smExp' = [smExp EXCEPT ![t] = 0]
    /\ smOld' = [smOld EXCEPT ![t] = ZeroByte]
    /\ smPage' = [smPage EXCEPT ![t] = NoThread]
    /\ smRes' = [smRes EXCEPT ![t] = 0]
    /\ UNCHANGED <<smDir, smMem, smScan, smUse>>

-----------------------------------------------------------------------------
(* iter_with_state and count_present: pages in order, each loaded once, its *)
(* bytes one by one.                                                        *)

ScanBegin(target) ==
    /\ ~smScan.on /\ target \in smUse.scans
    /\ LET now == {e \in Entries : StateOf(e) = target}
       IN  smScan' = [NoScan EXCEPT !.on = TRUE, !.target = target, !.stable = now, !.ever = now]
    /\ UNCHANGED <<smDir, smMem, smCall, smUse>>

ScanLoadPage ==
    /\ smScan.on /\ smScan.page \in Pages /\ ~smScan.loaded
    /\ smScan' = [smScan EXCEPT !.loaded = TRUE, !.byte = 0, !.map = smDir[smScan.page]]
    /\ UNCHANGED <<smDir, smMem, smCall, smUse>>

\* Mutant of ScanByte: the last block of each byte is left out.
ScanByteEnd ==
    LET s == smScan
        first == s.page * PageEntries + s.byte * PerByte
    IN
    /\ s.on /\ s.loaded
    /\ smScan' = [s EXCEPT
          !.found = @ \cup {e \in first .. (first + PerByte - 2) :
                              /\ e \in Entries /\ s.map # NoThread
                              /\ smMem[CellOf(s.map, e)][SlotOf(e)] = s.target},
          !.byte = IF s.byte + 1 = PageBytes THEN 0 ELSE s.byte + 1,
          !.page = IF s.byte + 1 = PageBytes THEN s.page + 1 ELSE s.page,
          !.loaded = s.byte + 1 # PageBytes]
    /\ UNCHANGED <<smDir, smMem, smCall, smUse>>

ScanByte ==
    LET s == smScan
        first == s.page * PageEntries + s.byte * PerByte
    IN
    /\ s.on /\ s.loaded
    /\ smScan' = [s EXCEPT
          !.found = @ \cup {e \in first .. (first + PerByte - 1) :
                              /\ e \in Entries /\ s.map # NoThread
                              /\ smMem[CellOf(s.map, e)][SlotOf(e)] = s.target},
          !.byte = IF s.byte + 1 = PageBytes THEN 0 ELSE s.byte + 1,
          !.page = IF s.byte + 1 = PageBytes THEN s.page + 1 ELSE s.page,
          !.loaded = s.byte + 1 # PageBytes]
    /\ UNCHANGED <<smDir, smMem, smCall, smUse>>

ScanOver == smScan.on /\ smScan.page \notin Pages

ScanEnd ==
    /\ ScanOver
    /\ smScan' = NoScan
    /\ UNCHANGED <<smDir, smMem, smCall, smUse>>

Advance(t) ==
    \/ PeekPage(t) \/ PeekByte(t) \/ CasPage(t) \/ EnsurePage(t)
    \/ Install(t) \/ LoadByte(t) \/ SwapByte(t) \/ Return(t)

SMNext ==
    \/ \E t \in Callers, op \in {"get", "claim", "dirty", "sync", "evict"}, e \in Entries :
          Invoke(t, op, e)
    \/ \E t \in Callers : Advance(t)
    \/ \E s \in {1, 2, 3} : ScanBegin(s)
    \/ ScanLoadPage
    \/ ScanByte
    \/ ScanEnd

SMSpec == SMInit /\ [][SMNext]_smVars

-----------------------------------------------------------------------------
(* Properties.                                                              *)

\* Every operation on the packed bytes of the lazily allocated pages takes
\* effect at one instant on its own block alone, whatever the threads beside
\* it do to the neighbours in the byte or to the directory slot.
MapIsAtomic == Map!EMSpec

\* A scan (iter_with_state, count_present) reports every block that had the
\* state from its first step to its last, and none that never had it.
ScanExact ==
    ScanOver => /\ smScan.stable \subseteq smScan.found
                /\ smScan.found \subseteq smScan.ever
=============================================================================
