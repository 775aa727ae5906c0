--------------------------- MODULE StateMapProofs ---------------------------
(***************************************************************************)
(* The paged, byte-packed state map implements one atomic state per block, *)
(* for every number of threads, blocks, bytes per page and blocks per      *)
(* byte.                                                                   *)
(***************************************************************************)
EXTENDS StateMap, TLAPS

\* A leaf goes to Zenon; the leaves with arithmetic or sequences go to the SMT solver.
USE ZenonT(60)

-----------------------------------------------------------------------------
(* split_index.                                                             *)

\* Quotient and remainder, as the provers need them of a symbolic divisor.
LEMMA DivMod ==
    ASSUME NEW n \in Nat, NEW k \in Nat, k > 0
    PROVE  /\ n \div k \in Nat /\ n % k \in 0 .. (k - 1)
           /\ n = k * (n \div k) + (n % k)
<1>1. n \div k \in Nat BY SMTT(60)
<1>2. n % k \in 0 .. (k - 1) BY SMTT(60)
<1>3. n = k * (n \div k) + (n % k) BY SMTT(60)
<1>. QED BY <1>1, <1>2, <1>3

\* Two numbers less than k apart with the same remainder by k are equal.
LEMMA SameRemainder ==
    ASSUME NEW m \in Nat, NEW n \in Nat, NEW k \in Nat, k > 0,
           m % k = n % k, m <= n, n < m + k
    PROVE  m = n
<1> DEFINE a == m \div k
           b == n \div k
<1>1. a \in Nat /\ b \in Nat /\ m = k * a + (m % k) /\ n = k * b + (n % k)
  BY DivMod
<1> HIDE DEF a, b
<1>2. CASE b <= a
  <2>1. k * b <= k * a BY SMTT(60), <1>1, <1>2
  <2>. QED BY SMTT(60), <1>1, <2>1
<1>3. CASE b >= a + 1
  <2>1. k * b >= k * (a + 1) BY SMTT(60), <1>1, <1>3
  <2>2. k * (a + 1) = k * a + k BY SMTT(60), <1>1
  <2>. QED BY SMTT(60), <1>1, <2>1, <2>2
<1>. QED BY SMTT(60), <1>1, <1>2, <1>3

\* split_index gives two blocks different places.
LEMMA SplitInjective ==
    ASSUME NEW e \in Entries, NEW f \in Entries,
           PageOf(e) = PageOf(f), ByteOf(e) = ByteOf(f), SlotOf(e) = SlotOf(f)
    PROVE  e = f
<1> DEFINE r == e % PageEntries
           s == f % PageEntries
           P == PageEntries
<1>1. P \in Nat /\ P > 0 BY SMTT(60), StateMapScale DEF PageEntries
<1>2. e \in Nat /\ f \in Nat BY SMTT(60), StateMapScale DEF Entries
<1>3. /\ r \in Nat /\ s \in Nat
      /\ e = P * (e \div P) + r
      /\ f = P * (f \div P) + s
  BY SMTT(60), <1>1, <1>2, DivMod
<1>4. e \div P = f \div P BY DEF PageOf
<1>5. PerByte \in Nat /\ PerByte > 0 BY SMTT(60), StateMapScale
<1>6. ByteOf(e) = r \div PerByte /\ ByteOf(f) = s \div PerByte BY DEF ByteOf
<1> HIDE DEF r, s, P
<1>7. /\ r = PerByte * (r \div PerByte) + (r % PerByte) /\ r % PerByte \in 0 .. (PerByte - 1)
      /\ r \div PerByte \in Nat
  BY <1>3, <1>5, DivMod
<1>8. /\ s = PerByte * (s \div PerByte) + (s % PerByte) /\ s % PerByte \in 0 .. (PerByte - 1)
      /\ s \div PerByte \in Nat
  BY <1>3, <1>5, DivMod
<1>9. PerByte * (r \div PerByte) \in Nat /\ P * (e \div P) \in Nat
  BY SMTT(60), <1>1, <1>2, <1>5, <1>7, DivMod
<1>10. r < s + PerByte /\ s < r + PerByte
  <2>1. r \div PerByte = s \div PerByte BY <1>6
  <2>2. PICK m \in Nat : m = PerByte * (r \div PerByte) BY <1>9
  <2>3. m = PerByte * (s \div PerByte) BY <2>1, <2>2
  <2>4. r = m + (r % PerByte) BY <1>7, <2>2
  <2>5. s = m + (s % PerByte) BY <1>8, <2>3
  <2>6. PICK x \in 0 .. (PerByte - 1) : x = r % PerByte BY <1>7
  <2>7. PICK y \in 0 .. (PerByte - 1) : y = s % PerByte BY <1>8
  <2>8. r = m + x /\ s = m + y BY <2>4, <2>5, <2>6, <2>7
  <2>. QED BY SMTT(60), <1>5, <2>8
<1>11. e < f + PerByte /\ f < e + PerByte
  BY SMTT(60), <1>2, <1>3, <1>4, <1>5, <1>9, <1>10
<1>12. e % PerByte = f % PerByte BY DEF SlotOf
<1>13. CASE e <= f BY <1>2, <1>5, <1>11, <1>12, <1>13, SameRemainder
<1>14. CASE f <= e BY <1>2, <1>5, <1>11, <1>12, <1>14, SameRemainder
<1>. QED BY SMTT(60), <1>2, <1>13, <1>14

\* split_index stays within the directory, the page and the byte.
LEMMA SplitTypes ==
    ASSUME NEW e \in Entries
    PROVE  PageOf(e) \in Pages /\ ByteOf(e) \in Bytes /\ SlotOf(e) \in Slots
<1> DEFINE P == PageEntries
<1>1. P \in Nat /\ P > 0 /\ P = PageBytes * PerByte BY SMTT(60), StateMapScale DEF PageEntries
<1>2. e \in Nat /\ e <= NumEntries - 1 /\ NumEntries - 1 \in Nat BY SMTT(60), StateMapScale DEF Entries
<1> HIDE DEF P
<1>3. e \div P <= (NumEntries - 1) \div P
  <2> DEFINE a == e \div P
             b == (NumEntries - 1) \div P
  <2>1. /\ a \in Nat /\ b \in Nat
        /\ e = P * a + (e % P) /\ e % P \in 0 .. (P - 1)
        /\ NumEntries - 1 = P * b + ((NumEntries - 1) % P)
        /\ (NumEntries - 1) % P \in 0 .. (P - 1)
    BY <1>1, <1>2, DivMod
  <2> HIDE DEF a, b
  <2>2. SUFFICES ASSUME a >= b + 1 PROVE FALSE BY SMTT(60), <2>1 DEF a, b
  <2>3. P * a >= P * (b + 1)
    <3>1. PICK d \in Nat : a = b + 1 + d BY SMTT(60), <2>1, <2>2
    <3>2. P * a = P * (b + 1) + P * d BY SMTT(60), <1>1, <2>1, <3>1
    <3>3. P * d \in Nat BY SMTT(60), <1>1, <3>1
    <3>. QED BY SMTT(60), <1>1, <2>1, <3>2, <3>3
  <2>4. P * (b + 1) = P * b + P BY SMTT(60), <1>1, <2>1
  <2>. QED BY SMTT(60), <1>1, <1>2, <2>1, <2>3, <2>4
<1>4. PageOf(e) \in Pages
  BY SMTT(60), <1>1, <1>2, <1>3, DivMod DEF PageOf, Pages, P
<1>5. ByteOf(e) \in Bytes
  <2> DEFINE r == e % P
             b == r \div PerByte
  <2>1. r \in Nat /\ r < P BY SMTT(60), <1>1, <1>2, DivMod
  <2>0. PerByte \in Nat /\ PerByte > 0 BY SMTT(60), StateMapScale
  <2> HIDE DEF r
  <2>2. b \in Nat /\ r = PerByte * b + (r % PerByte) /\ r % PerByte \in 0 .. (PerByte - 1)
    BY <2>0, <2>1, DivMod
  <2> HIDE DEF b
  <2>3. b < PageBytes
    <3>1. SUFFICES ASSUME b >= PageBytes PROVE FALSE BY SMTT(60), <2>2, StateMapScale
    <3>2. PerByte * b >= PerByte * PageBytes BY SMTT(60), <2>2, <3>1, StateMapScale
    <3>. QED BY SMTT(60), <1>1, <2>1, <2>2, <3>2, StateMapScale
  <2>. QED BY SMTT(60), <2>2, <2>3, StateMapScale DEF ByteOf, Bytes, r, b, P
<1>6. SlotOf(e) \in Slots
  BY SMTT(60), <1>2, DivMod, StateMapScale DEF SlotOf, Slots
<1>. QED BY <1>4, <1>5, <1>6
-----------------------------------------------------------------------------
(* The inductive invariant.                                                 *)

Steps == {"idle", "peek", "look", "page", "ensure", "install", "load", "swap", "done"}
Ops == {"get", "claim", "dirty", "sync", "evict"}
Cells == Callers \X Pages \X Bytes

\* The shape of the directory, the pages and the threads' locals.
SMTypeOK ==
    /\ smDir \in [Pages -> Callers \cup {NoThread}]
    /\ smMem \in [Cells -> [Slots -> 0 .. 3]]
    /\ smPc \in [Callers -> Steps]
    /\ smOp \in [Callers -> Ops]
    /\ smAt \in [Callers -> Entries]
    /\ smExp \in [Callers -> 0 .. 3]
    /\ smOld \in [Callers -> [Slots -> 0 .. 3]]
    /\ smPage \in [Callers -> Callers \cup {NoThread}]
    /\ smRes \in [Callers -> 0 .. 3]

\* A thread works in the page the directory names: a slot is set once.
InPage(t) ==
    smPc[t] \in {"look", "load", "swap"} =>
        smPage[t] = smDir[PageOf(smAt[t])] /\ smPage[t] # NoThread

\* The page a thread is about to install is all zero, and nobody else's.
FreshPage(t) ==
    smPc[t] = "install" =>
        /\ smDir[PageOf(smAt[t])] # t
        /\ \A b \in Bytes : smMem[<<t, PageOf(smAt[t]), b>>] = ZeroByte

\* A thread swaps only the byte in which it found the state it expects.
Found(t) ==
    smPc[t] = "swap" => smOld[t][SlotOf(smAt[t])] = smExp[t] /\ smRes[t] = smExp[t]

\* The state each operation expects.
Expects(t) ==
    /\ smPc[t] \in {"peek", "look"} => smOp[t] \in {"get", "dirty"}
    /\ smPc[t] \in {"page", "ensure", "install", "load", "swap"} =>
          \/ smOp[t] = "claim" /\ smExp[t] = 0
          \/ smOp[t] = "sync" /\ smExp[t] = 2
          \/ smOp[t] = "evict" /\ smExp[t] = 3
          \/ smOp[t] = "dirty"

SMInv ==
    /\ SMTypeOK
    /\ \A t \in Callers : InPage(t) /\ FreshPage(t) /\ Found(t) /\ Expects(t)

\* The cell of a block in an installed page is one of the map's cells.
LEMMA CellTypes ==
    ASSUME NEW o \in Callers, NEW e \in Entries
    PROVE  CellOf(o, e) \in Cells
BY SplitTypes DEF CellOf, Cells

\* The first block exists, so a thread at rest points to a block.
LEMMA FirstEntry == 0 \in Entries /\ ZeroByte \in [Slots -> 0 .. 3]
BY SMTT(60), StateMapScale DEF Entries, ZeroByte, Slots

\* StateMap::new: no page is installed and every thread is at rest.
LEMMA SMInit_Inv == SMInit => SMInv
<1> SUFFICES ASSUME SMInit PROVE SMInv OBVIOUS
<1>1. SMTypeOK
  BY SMTT(60), FirstEntry DEF SMInit, SMTypeOK, Steps, Ops, Cells
<1>2. \A t \in Callers : InPage(t) /\ FreshPage(t) /\ Found(t) /\ Expects(t)
  BY DEF SMInit, InPage, FreshPage, Found, Expects
<1>. QED BY <1>1, <1>2 DEF SMInv

\* The states an operation writes are states.
LEMMA NewStates == \A op \in Ops : NewState(op) \in 0 .. 3
BY SMTT(60) DEF NewState, Ops

\* A step of a thread keeps every value in its type.
LEMMA AdvanceTypes ==
    ASSUME SMInv, NEW t \in Callers, Advance(t)
    PROVE  SMTypeOK'
<1> USE DEF SMInv, SMTypeOK
<1>0. smAt[t] \in Entries /\ PageOf(smAt[t]) \in Pages /\ SlotOf(smAt[t]) \in Slots
  BY SplitTypes
<1>1. CASE PeekPage(t) BY SMTT(60), <1>0, <1>1 DEF PeekPage, Steps
<1>2. CASE PeekByte(t)
  <2>1. smPage[t] \in Callers BY <1>2 DEF PeekByte, InPage
  <2>2. smMem[CellOf(smPage[t], smAt[t])] \in [Slots -> 0 .. 3] BY <1>0, <2>1, CellTypes
  <2>3. smMem[CellOf(smPage[t], smAt[t])][SlotOf(smAt[t])] \in 0 .. 3 BY <1>0, <2>2
  <2>. QED BY <1>2, <2>3 DEF PeekByte, Steps
<1>3. CASE CasPage(t) BY SMTT(60), <1>0, <1>3 DEF CasPage, Steps
<1>4. CASE EnsurePage(t)
  <2>1. smMem' \in [Cells -> [Slots -> 0 .. 3]]
    BY <1>4, FirstEntry DEF EnsurePage, Cells
  <2>2. smPc' \in [Callers -> Steps] /\ smPage' \in [Callers -> Callers \cup {NoThread}]
    BY <1>0, <1>4 DEF EnsurePage, Steps
  <2>. QED BY <1>4, <2>1, <2>2 DEF EnsurePage
<1>5. CASE Install(t) BY <1>0, <1>5 DEF Install, Steps
<1>6. CASE LoadByte(t)
  <2>1. smPage[t] \in Callers BY <1>6 DEF LoadByte, InPage
  <2>2. smMem[CellOf(smPage[t], smAt[t])] \in [Slots -> 0 .. 3] BY <1>0, <2>1, CellTypes
  <2>3. smMem[CellOf(smPage[t], smAt[t])][SlotOf(smAt[t])] \in 0 .. 3 BY <1>0, <2>2
  <2>. QED BY <1>6, <2>2, <2>3, FirstEntry DEF LoadByte, Steps
<1>7. CASE SwapByte(t)
  <2>1. smPage[t] \in Callers BY <1>7 DEF SwapByte, InPage
  <2>2. CellOf(smPage[t], smAt[t]) \in Cells BY <1>0, <2>1, CellTypes
  <2>3. NewState(smOp[t]) \in 0 .. 3 BY NewStates
  <2>4. [smOld[t] EXCEPT ![SlotOf(smAt[t])] = NewState(smOp[t])] \in [Slots -> 0 .. 3]
    BY <1>0, <2>3
  <2>5. smMem' \in [Cells -> [Slots -> 0 .. 3]] BY <1>7, <2>2, <2>4 DEF SwapByte
  <2>. QED BY <1>7, <2>5 DEF SwapByte, Steps
<1>8. CASE Return(t) BY SMTT(60), <1>8, FirstEntry DEF Return, Steps, Ops
<1>. QED BY <1>1, <1>2, <1>3, <1>4, <1>5, <1>6, <1>7, <1>8 DEF Advance

\* No step of a thread disturbs what holds of the others: a slot of the
\* directory is set once, and a page is written in only once it is installed.
LEMMA OthersKept ==
    ASSUME SMInv, NEW t \in Callers, Advance(t), NEW u \in Callers, u # t
    PROVE  InPage(u)' /\ FreshPage(u)' /\ Found(u)' /\ Expects(u)'
<1> USE DEF SMInv, SMTypeOK
<1>0. smAt[t] \in Entries /\ PageOf(smAt[t]) \in Pages /\ SlotOf(smAt[t]) \in Slots
  BY SplitTypes
<1>1. /\ smPc'[u] = smPc[u] /\ smOp'[u] = smOp[u] /\ smAt'[u] = smAt[u]
      /\ smExp'[u] = smExp[u] /\ smOld'[u] = smOld[u] /\ smPage'[u] = smPage[u]
      /\ smRes'[u] = smRes[u]
  BY DEF Advance, PeekPage, PeekByte, CasPage, EnsurePage, Install, LoadByte, SwapByte, Return
<1>2. PageOf(smAt[u]) \in Pages /\ smAt[u] \in Entries BY SplitTypes
<1>3. /\ smDir[PageOf(smAt[u])] # NoThread => smDir'[PageOf(smAt[u])] = smDir[PageOf(smAt[u])]
      /\ smDir[PageOf(smAt[u])] # u => smDir'[PageOf(smAt[u])] # u
  BY SMTT(60), <1>0, <1>2 DEF Advance, PeekPage, PeekByte, CasPage, EnsurePage, Install, LoadByte,
                    SwapByte, Return
<1>4. ASSUME smDir[PageOf(smAt[u])] # u, NEW b \in Bytes
      PROVE  smMem'[<<u, PageOf(smAt[u]), b>>] = smMem[<<u, PageOf(smAt[u]), b>>]
  <2>0. <<u, PageOf(smAt[u]), b>> \in Cells BY <1>2 DEF Cells
  <2>1. CASE EnsurePage(t)
    BY <1>0, <2>0, <2>1 DEF EnsurePage, Cells
  <2>2. CASE SwapByte(t)
    <3>1. smPage[t] = smDir[PageOf(smAt[t])] /\ smPage[t] \in Callers
      BY <2>2 DEF SwapByte, InPage
    <3>2. CellOf(smPage[t], smAt[t]) # <<u, PageOf(smAt[u]), b>>
      BY <1>4, <3>1 DEF CellOf
    <3>3. CellOf(smPage[t], smAt[t]) \in Cells BY <1>0, <3>1, CellTypes
    <3>. QED BY <2>0, <2>2, <3>2, <3>3 DEF SwapByte
  <2>3. CASE UNCHANGED smMem BY <2>3
  <2>. QED
    BY <2>1, <2>2, <2>3 DEF Advance, PeekPage, PeekByte, CasPage, Install, LoadByte, Return
<1>5. InPage(u)' BY <1>1, <1>3 DEF InPage
<1>6. FreshPage(u)'
  <2> SUFFICES ASSUME smPc[u] = "install"
               PROVE  /\ smDir'[PageOf(smAt[u])] # u
                      /\ \A b \in Bytes : smMem'[<<u, PageOf(smAt[u]), b>>] = ZeroByte
    BY <1>1 DEF FreshPage
  <2>. QED BY <1>3, <1>4 DEF FreshPage
<1>7. Found(u)' BY <1>1 DEF Found
<1>8. Expects(u)' BY <1>1 DEF Expects
<1>. QED BY <1>5, <1>6, <1>7, <1>8

\* A step of a thread keeps what holds of the thread itself.
LEMMA OwnKept ==
    ASSUME SMInv, NEW t \in Callers, Advance(t)
    PROVE  InPage(t)' /\ FreshPage(t)' /\ Found(t)' /\ Expects(t)'
<1> USE DEF SMInv, SMTypeOK
<1>0. smAt[t] \in Entries /\ PageOf(smAt[t]) \in Pages /\ SlotOf(smAt[t]) \in Slots
  BY SplitTypes
<1>1. CASE PeekPage(t)
  BY <1>0, <1>1 DEF PeekPage, InPage, FreshPage, Found, Expects
<1>2. CASE PeekByte(t)
  BY <1>0, <1>2 DEF PeekByte, InPage, FreshPage, Found, Expects
<1>3. CASE CasPage(t)
  BY <1>0, <1>3 DEF CasPage, InPage, FreshPage, Found, Expects
<1>4. CASE EnsurePage(t)
  <2>1. InPage(t)' /\ Found(t)' BY <1>0, <1>4 DEF EnsurePage, InPage, Found
  <2>2. Expects(t)' BY <1>0, <1>4 DEF EnsurePage, Expects
  <2>3. FreshPage(t)'
    <3> SUFFICES ASSUME smPc'[t] = "install"
                 PROVE  /\ smDir'[PageOf(smAt'[t])] # t
                        /\ \A b \in Bytes : smMem'[<<t, PageOf(smAt'[t]), b>>] = ZeroByte
      BY DEF FreshPage
    <3>1. smDir[PageOf(smAt[t])] = NoThread /\ smAt' = smAt /\ smDir' = smDir
      BY <1>0, <1>4 DEF EnsurePage
    <3>2. smMem' = [c \in Cells |-> IF c[1] = t /\ c[2] = PageOf(smAt[t]) THEN ZeroByte ELSE smMem[c]]
      BY <1>4, <3>1 DEF EnsurePage, Cells
    <3>3. \A b \in Bytes : <<t, PageOf(smAt[t]), b>> \in Cells BY <1>0 DEF Cells
    <3>. QED BY <3>1, <3>2, <3>3, StateMapScale
  <2>. QED BY <2>1, <2>2, <2>3
<1>5. CASE Install(t)
  BY <1>0, <1>5, StateMapScale DEF Install, InPage, FreshPage, Found, Expects
<1>6. CASE LoadByte(t)
  BY <1>0, <1>6 DEF LoadByte, InPage, FreshPage, Found, Expects
<1>7. CASE SwapByte(t)
  BY <1>0, <1>7 DEF SwapByte, InPage, FreshPage, Found, Expects
<1>8. CASE Return(t)
  BY <1>8 DEF Return, InPage, FreshPage, Found, Expects
<1>. QED BY <1>1, <1>2, <1>3, <1>4, <1>5, <1>6, <1>7, <1>8 DEF Advance

\* The invariant is inductive.
LEMMA SMNext_Inv == SMInv /\ [SMNext]_smVars => SMInv'
<1> SUFFICES ASSUME SMInv, [SMNext]_smVars PROVE SMInv' OBVIOUS
<1>1. ASSUME NEW t \in Callers, NEW op \in Ops, NEW e \in Entries, Invoke(t, op, e)
      PROVE  SMInv'
  <2>1. SMTypeOK' BY SMTT(60), <1>1 DEF SMInv, SMTypeOK, Invoke, Steps, Ops
  <2>2. \A u \in Callers : InPage(u)' /\ FreshPage(u)' /\ Found(u)' /\ Expects(u)'
    BY SMTT(60), <1>1 DEF SMInv, SMTypeOK, Invoke, InPage, FreshPage, Found, Expects, Ops
  <2>. QED BY <2>1, <2>2 DEF SMInv
<1>2. ASSUME NEW t \in Callers, Advance(t) PROVE SMInv'
  <2>1. \A u \in Callers : InPage(u)' /\ FreshPage(u)' /\ Found(u)' /\ Expects(u)'
    BY <1>2, OthersKept, OwnKept
  <2>. QED BY <1>2, <2>1, AdvanceTypes DEF SMInv
<1>3. CASE UNCHANGED <<smDir, smMem, smCall>>
  <2>1. /\ smDir' = smDir /\ smMem' = smMem /\ smPc' = smPc /\ smOp' = smOp /\ smAt' = smAt
        /\ smExp' = smExp /\ smOld' = smOld /\ smPage' = smPage /\ smRes' = smRes
    BY <1>3 DEF smCall
  <2>2. SMTypeOK' BY <2>1 DEF SMInv, SMTypeOK
  <2>3. \A u \in Callers : InPage(u)' /\ FreshPage(u)' /\ Found(u)' /\ Expects(u)'
    BY <2>1 DEF SMInv, InPage, FreshPage, Found, Expects
  <2>. QED BY <2>2, <2>3 DEF SMInv
<1>4. CASE UNCHANGED smVars BY <1>3, <1>4 DEF smVars, smCall
<1>. QED
  BY <1>1, <1>2, <1>3, <1>4 DEF SMNext, ScanBegin, ScanLoadPage, ScanByte, ScanEnd, Ops

\* A thread only ever works in an installed page and swaps only what it found
\* (cas, ensure_page and allocate_page of block_map.rs).
THEOREM MapInvariant == SMSpec => []SMInv
BY SMInit_Inv, SMNext_Inv, PTL DEF SMSpec

-----------------------------------------------------------------------------
(* The refinement.                                                          *)

\* What EntryMap sees of the map.
AState == [e \in Entries |-> StateOf(e)]
ACall == [t \in Callers |-> IF smPc[t] = "idle" THEN <<"none", 0>> ELSE <<smOp[t], smAt[t]>>]
AAnswer == [t \in Callers |-> IF smPc[t] = "done" THEN smRes[t] ELSE 4]

\* The state of a block in an installed page, and in one that is not.
LEMMA InstalledState ==
    ASSUME NEW e \in Entries
    PROVE  AState[e] = IF smDir[PageOf(e)] = NoThread THEN 0
                       ELSE smMem[CellOf(smDir[PageOf(e)], e)][SlotOf(e)]
BY DEF AState, StateOf

\* Allocating or installing a page changes no state: it is all zero.
LEMMA PagesAreSilent ==
    ASSUME SMInv, NEW t \in Callers, EnsurePage(t) \/ Install(t)
    PROVE  AState' = AState
<1> USE DEF SMInv, SMTypeOK
<1>0. smAt[t] \in Entries /\ PageOf(smAt[t]) \in Pages BY SplitTypes
<1> SUFFICES ASSUME NEW e \in Entries PROVE StateOf(e)' = StateOf(e)
  BY DEF AState
<1>1. PageOf(e) \in Pages /\ ByteOf(e) \in Bytes /\ SlotOf(e) \in Slots BY SplitTypes
<1>2. CASE EnsurePage(t)
  <2>1. smDir' = smDir BY <1>2 DEF EnsurePage
  <2>2. CASE smDir[PageOf(e)] = NoThread BY <2>1, <2>2 DEF StateOf
  <2>3. CASE smDir[PageOf(e)] # NoThread
    <3>1. CellOf(smDir[PageOf(e)], e) \in Cells BY <1>1, <2>3, CellTypes
    <3>2. smMem'[CellOf(smDir[PageOf(e)], e)] = smMem[CellOf(smDir[PageOf(e)], e)]
      <4>1. CASE smDir[PageOf(smAt[t])] # NoThread BY <1>2, <4>1 DEF EnsurePage
      <4>2. CASE smDir[PageOf(smAt[t])] = NoThread
        <5>1. PageOf(e) # PageOf(smAt[t]) BY <2>3, <4>2
        <5>2. smMem' = [c \in Cells |-> IF c[1] = t /\ c[2] = PageOf(smAt[t]) THEN ZeroByte ELSE smMem[c]]
          BY <1>2, <4>2 DEF EnsurePage, Cells
        <5>. QED BY <3>1, <5>1, <5>2 DEF CellOf
      <4>. QED BY <4>1, <4>2
    <3>. QED BY <2>1, <2>3, <3>2 DEF StateOf
  <2>. QED BY <2>2, <2>3
<1>3. CASE Install(t)
  <2>1. smMem' = smMem BY <1>3 DEF Install
  <2>2. smDir' = [smDir EXCEPT ![PageOf(smAt[t])] = IF @ = NoThread THEN t ELSE @]
    BY <1>3 DEF Install
  <2>3. CASE smDir'[PageOf(e)] = smDir[PageOf(e)] BY <2>1, <2>3 DEF StateOf
  <2>4. CASE smDir'[PageOf(e)] # smDir[PageOf(e)]
    <3>1. PageOf(e) = PageOf(smAt[t]) /\ smDir[PageOf(e)] = NoThread /\ smDir'[PageOf(e)] = t
      BY <1>0, <1>1, <2>2, <2>4
    <3>2. smMem[<<t, PageOf(e), ByteOf(e)>>] = ZeroByte
      BY <1>1, <1>3, <3>1 DEF Install, FreshPage
    <3>3. StateOf(e)' = smMem[CellOf(t, e)][SlotOf(e)]
      BY <2>1, <3>1, StateMapScale DEF StateOf
    <3>4. StateOf(e)' = 0 BY <1>1, <3>2, <3>3 DEF CellOf, ZeroByte
    <3>. QED BY <3>1, <3>4 DEF StateOf
  <2>. QED BY <2>3, <2>4
<1>. QED BY <1>2, <1>3

\* A swap that finds the byte it loaded changes the state of its own block,
\* which is the one it expects, and leaves the other blocks of the byte alone.
LEMMA SwapStates ==
    ASSUME SMInv, NEW t \in Callers, SwapByte(t),
           smMem[CellOf(smPage[t], smAt[t])] = smOld[t]
    PROVE  /\ AState[smAt[t]] = smExp[t]
           /\ AState' = [AState EXCEPT ![smAt[t]] = NewState(smOp[t])]
<1> USE DEF SMInv, SMTypeOK
<1> DEFINE a == smAt[t]
           c == CellOf(smPage[t], smAt[t])
<1>0. a \in Entries /\ PageOf(a) \in Pages /\ ByteOf(a) \in Bytes /\ SlotOf(a) \in Slots
  BY SplitTypes
<1>1. smPage[t] = smDir[PageOf(a)] /\ smPage[t] # NoThread /\ smPage[t] \in Callers
  BY DEF SwapByte, InPage
<1>2. c \in Cells BY <1>0, <1>1, CellTypes
<1>3. smOld[t][SlotOf(a)] = smExp[t] BY DEF SwapByte, Found
<1>4. smDir' = smDir /\ smMem' = [smMem EXCEPT ![c] = [smOld[t] EXCEPT ![SlotOf(a)] = NewState(smOp[t])]]
  BY DEF SwapByte
<1>5. AState[a] = smExp[t]
  <2>1. AState[a] = smMem[c][SlotOf(a)] BY <1>0, <1>1, InstalledState
  <2>. QED BY <1>3, <2>1
<1>6. ASSUME NEW e \in Entries
      PROVE  StateOf(e)' = IF e = a THEN NewState(smOp[t]) ELSE StateOf(e)
  <2>0. PageOf(e) \in Pages /\ ByteOf(e) \in Bytes /\ SlotOf(e) \in Slots BY SplitTypes
  <2>1. CASE e = a
    <3>1. StateOf(e)' = smMem'[c][SlotOf(a)] BY <1>1, <1>4, <2>1 DEF StateOf, CellOf
    <3>2. smMem'[c] = [smOld[t] EXCEPT ![SlotOf(a)] = NewState(smOp[t])] BY <1>2, <1>4
    <3>3. smMem'[c][SlotOf(a)] = NewState(smOp[t]) BY <1>0, <3>2
    <3>. QED BY <2>1, <3>1, <3>3
  <2>2. CASE e # a /\ smDir[PageOf(e)] = NoThread BY <1>4, <2>2 DEF StateOf
  <2>3. CASE e # a /\ smDir[PageOf(e)] # NoThread
    <3> DEFINE d == CellOf(smDir[PageOf(e)], e)
    <3>1. d \in Cells BY <2>0, <2>3, CellTypes
    <3>2. StateOf(e)' = smMem'[d][SlotOf(e)] /\ StateOf(e) = smMem[d][SlotOf(e)]
      BY <1>4, <2>3 DEF StateOf, CellOf
    <3>3. CASE d # c
      <4>1. smMem'[d] = smMem[d] BY <1>2, <1>4, <3>1, <3>3
      <4>. QED BY <2>3, <3>2, <4>1
    <3>4. CASE d = c
      <4>1. PageOf(e) = PageOf(a) /\ ByteOf(e) = ByteOf(a) BY <3>4 DEF CellOf
      <4>2. SlotOf(e) # SlotOf(a) BY <1>0, <2>3, <4>1, SplitInjective
      <4>3. smMem'[c] = [smMem[c] EXCEPT ![SlotOf(a)] = NewState(smOp[t])] BY <1>2, <1>4
      <4>4. smMem[c] \in [Slots -> 0 .. 3] BY <1>2
      <4>5. smMem'[c][SlotOf(e)] = smMem[c][SlotOf(e)] BY <2>0, <4>2, <4>3, <4>4
      <4>. QED BY <2>3, <3>2, <3>4, <4>5
    <3>. QED BY <3>3, <3>4
  <2>. QED BY <2>1, <2>2, <2>3
<1>7. AState' = [AState EXCEPT ![a] = NewState(smOp[t])]
  BY <1>0, <1>6 DEF AState
<1>. QED BY <1>5, <1>7

\* Every other step of a thread leaves all states alone.
LEMMA StatesKept ==
    ASSUME SMInv, NEW t \in Callers, Advance(t),
           ~(SwapByte(t) /\ smMem[CellOf(smPage[t], smAt[t])] = smOld[t])
    PROVE  AState' = AState
<1>1. CASE EnsurePage(t) \/ Install(t) BY <1>1, PagesAreSilent
<1>2. CASE smDir' = smDir /\ smMem' = smMem BY <1>2 DEF AState, StateOf
<1>. QED
  BY <1>1, <1>2 DEF Advance, PeekPage, PeekByte, CasPage, LoadByte, SwapByte, Return

\* The step in which an operation gets its answer finds that state in the map
\* and leaves the one EntryMap says: the instant at which it takes effect.
LEMMA TakesEffect ==
    ASSUME SMInv, NEW t \in Callers, Advance(t), smPc'[t] = "done"
    PROVE  /\ smRes'[t] = AState[smAt[t]]
           /\ AState' = [AState EXCEPT ![smAt[t]] = Map!Outcome(smOp[t], AState[smAt[t]])]
<1> USE DEF SMInv, SMTypeOK
<1> DEFINE a == smAt[t]
<1>0. a \in Entries /\ PageOf(a) \in Pages /\ SlotOf(a) \in Slots BY SplitTypes
<1>1. AState = [AState EXCEPT ![a] = AState[a]] BY DEF AState
<1>2. ASSUME AState' = AState, Map!Outcome(smOp[t], AState[a]) = AState[a]
      PROVE  AState' = [AState EXCEPT ![a] = Map!Outcome(smOp[t], AState[a])]
  BY <1>1, <1>2
<1>3. smOp[t] \in Ops OBVIOUS
<1>4. CASE PeekPage(t)
  <2>1. smDir[PageOf(a)] = NoThread /\ smOp[t] = "get" /\ smRes'[t] = 0
    BY <1>4 DEF PeekPage
  <2>2. AState[a] = 0 BY <1>0, <2>1, InstalledState
  <2>3. Map!Outcome(smOp[t], AState[a]) = AState[a]
    BY <2>1 DEF Map!Outcome, Map!NOT_PRESENT, Map!CLEAN, Map!DIRTY, Map!SYNCING
  <2>4. AState' = AState BY <1>4, StatesKept DEF PeekPage, SwapByte
  <2>. QED BY <1>2, <2>1, <2>2, <2>3, <2>4
<1>5. CASE PeekByte(t)
  <2>1. smPage[t] = smDir[PageOf(a)] /\ smPage[t] # NoThread BY <1>5 DEF PeekByte, InPage
  <2>2. AState[a] = smMem[CellOf(smPage[t], a)][SlotOf(a)] BY <1>0, <2>1, InstalledState
  <2>3. smRes'[t] = AState[a] BY <1>5, <2>2 DEF PeekByte
  <2>4. smOp[t] = "get" \/ (smOp[t] = "dirty" /\ AState[a] = 2)
    BY <1>5, <2>2 DEF PeekByte, Expects
  <2>5. Map!Outcome(smOp[t], AState[a]) = AState[a]
    BY <2>4 DEF Map!Outcome, Map!NOT_PRESENT, Map!CLEAN, Map!DIRTY, Map!SYNCING
  <2>6. AState' = AState BY <1>5, StatesKept DEF PeekByte, SwapByte
  <2>. QED BY <1>2, <2>3, <2>5, <2>6
<1>6. CASE CasPage(t)
  <2>1. smDir[PageOf(a)] = NoThread /\ smExp[t] # 0 /\ smOp[t] # "dirty" /\ smRes'[t] = 0
    BY <1>6 DEF CasPage
  <2>2. AState[a] = 0 BY <1>0, <2>1, InstalledState
  <2>3. smOp[t] \in {"sync", "evict"} BY <1>6, <2>1 DEF CasPage, Expects
  <2>4. Map!Outcome(smOp[t], AState[a]) = AState[a]
    BY SMTT(60), <2>2, <2>3 DEF Map!Outcome, Map!NOT_PRESENT, Map!CLEAN, Map!DIRTY, Map!SYNCING
  <2>5. AState' = AState BY <1>6, StatesKept DEF CasPage, SwapByte
  <2>. QED BY <1>2, <2>1, <2>2, <2>4, <2>5
<1>7. CASE LoadByte(t)
  <2>1. smPage[t] = smDir[PageOf(a)] /\ smPage[t] # NoThread BY <1>7 DEF LoadByte, InPage
  <2>2. AState[a] = smMem[CellOf(smPage[t], a)][SlotOf(a)] BY <1>0, <2>1, InstalledState
  <2>3. smRes'[t] = AState[a] /\ AState[a] # smExp[t] /\ smOp[t] # "dirty"
    BY <1>7, <2>2 DEF LoadByte
  <2>4. \/ smOp[t] = "claim" /\ AState[a] # 0
        \/ smOp[t] = "sync" /\ AState[a] # 2
        \/ smOp[t] = "evict" /\ AState[a] # 3
    BY <1>7, <2>3 DEF LoadByte, Expects
  <2>5. Map!Outcome(smOp[t], AState[a]) = AState[a]
    BY <2>4 DEF Map!Outcome, Map!NOT_PRESENT, Map!CLEAN, Map!DIRTY, Map!SYNCING
  <2>6. AState' = AState BY <1>7, StatesKept DEF LoadByte, SwapByte
  <2>. QED BY <1>2, <2>3, <2>5, <2>6
<1>8. CASE SwapByte(t)
  <2>1. smMem[CellOf(smPage[t], a)] = smOld[t] BY <1>8 DEF SwapByte
  <2>2. AState[a] = smExp[t] /\ AState' = [AState EXCEPT ![a] = NewState(smOp[t])]
    BY <1>8, <2>1, SwapStates
  <2>3. smRes'[t] = smExp[t] BY <1>8 DEF SwapByte, Found
  <2>4. \/ smOp[t] = "claim" /\ smExp[t] = 0
        \/ smOp[t] = "sync" /\ smExp[t] = 2
        \/ smOp[t] = "evict" /\ smExp[t] = 3
        \/ smOp[t] = "dirty"
    BY <1>8 DEF SwapByte, Expects
  <2>5. Map!Outcome(smOp[t], AState[a]) = NewState(smOp[t])
    BY <2>2, <2>4 DEF Map!Outcome, Map!NOT_PRESENT, Map!CLEAN, Map!DIRTY, Map!SYNCING, NewState
  <2>. QED BY <2>2, <2>3, <2>5
<1>. QED
  BY <1>4, <1>5, <1>6, <1>7, <1>8 DEF Advance, EnsurePage, Install, Return

\* What EntryMap sees of a step of a thread: its call, its answer, its state.
LEMMA AdvanceRefines ==
    ASSUME SMInv, NEW t \in Callers, Advance(t)
    PROVE  \/ /\ ACall[t] = <<smOp[t], smAt[t]>> /\ AAnswer[t] = 4
              /\ AState' = [AState EXCEPT ![smAt[t]] = Map!Outcome(smOp[t], AState[smAt[t]])]
              /\ AAnswer' = [AAnswer EXCEPT ![t] = AState[smAt[t]]]
              /\ ACall' = ACall
           \/ /\ AAnswer[t] # 4
              /\ ACall' = [ACall EXCEPT ![t] = <<"none", 0>>]
              /\ AAnswer' = [AAnswer EXCEPT ![t] = 4]
              /\ AState' = AState
           \/ ACall' = ACall /\ AAnswer' = AAnswer /\ AState' = AState
<1> USE DEF SMInv, SMTypeOK
<1>1. CASE Return(t)
  <2>1. AState' = AState BY <1>1, StatesKept DEF Return, SwapByte
  <2>2. AAnswer[t] # 4 BY SMTT(60), <1>1 DEF Return, AAnswer
  <2>3. ACall' = [ACall EXCEPT ![t] = <<"none", 0>>] BY <1>1 DEF Return, ACall
  <2>4. AAnswer' = [AAnswer EXCEPT ![t] = 4] BY <1>1 DEF Return, AAnswer
  <2>. QED BY <2>1, <2>2, <2>3, <2>4
<1>2. CASE ~Return(t)
  <2>1. /\ smPc[t] \notin {"idle", "done"} /\ smPc'[t] # "idle"
        /\ smOp' = smOp /\ smAt' = smAt
        /\ \A u \in Callers : u # t => smPc'[u] = smPc[u] /\ smRes'[u] = smRes[u]
    BY <1>2 DEF Advance, PeekPage, PeekByte, CasPage, EnsurePage, Install, LoadByte, SwapByte
  <2>2. ACall' = ACall BY <2>1 DEF ACall
  <2>3. ACall[t] = <<smOp[t], smAt[t]>> /\ AAnswer[t] = 4 BY <2>1 DEF ACall, AAnswer
  <2>4. CASE smPc'[t] = "done"
    <3>1. /\ smRes'[t] = AState[smAt[t]]
          /\ AState' = [AState EXCEPT ![smAt[t]] = Map!Outcome(smOp[t], AState[smAt[t]])]
      BY <2>4, TakesEffect
    <3>2. AAnswer' = [AAnswer EXCEPT ![t] = AState[smAt[t]]] BY <2>1, <2>4, <3>1 DEF AAnswer
    <3>. QED BY <2>2, <2>3, <3>1, <3>2
  <2>5. CASE smPc'[t] # "done"
    <3>1. AAnswer' = AAnswer BY <2>1, <2>5 DEF AAnswer
    <3>2. AState' = AState
      <4>1. ~(SwapByte(t) /\ smMem[CellOf(smPage[t], smAt[t])] = smOld[t])
        BY <2>5 DEF SwapByte
      <4>. QED BY <4>1, StatesKept
    <3>. QED BY <2>2, <3>1, <3>2
  <2>. QED BY <2>4, <2>5
<1>. QED BY <1>1, <1>2

\* Every step of the map is a step of EntryMap or changes nothing it sees.
LEMMA SMNext_Refines == SMInv /\ [SMNext]_smVars => [Map!EMNext]_Map!emVars
<1> SUFFICES ASSUME SMInv, [SMNext]_smVars PROVE [Map!EMNext]_Map!emVars OBVIOUS
<1>1. ASSUME NEW t \in Callers, NEW op \in Ops, NEW e \in Entries, Invoke(t, op, e)
      PROVE  [Map!EMNext]_Map!emVars
  <2>1. ACall[t] = <<"none", 0>> BY <1>1 DEF ACall, Invoke
  <2>2. ACall' = [ACall EXCEPT ![t] = <<op, e>>]
    BY <1>1 DEF ACall, Invoke, SMInv, SMTypeOK
  <2>3. AAnswer' = AAnswer BY <1>1 DEF AAnswer, Invoke, SMInv, SMTypeOK
  <2>4. AState' = AState BY <1>1 DEF AState, StateOf, Invoke
  <2>5. Map!Called(t, op, e)
    BY <2>1, <2>2, <2>3, <2>4 DEF Map!Called, Map!NoCall, ACall, AAnswer, AState
  <2>. QED BY <2>5 DEF Map!EMNext, Map!Operations, Ops
<1>2. ASSUME NEW t \in Callers, Advance(t) PROVE [Map!EMNext]_Map!emVars
  <2>0. smOp[t] \in Map!Operations /\ smAt[t] \in Entries
    BY DEF SMInv, SMTypeOK, Ops, Map!Operations
  <2>1. CASE /\ ACall[t] = <<smOp[t], smAt[t]>> /\ AAnswer[t] = 4
             /\ AState' = [AState EXCEPT ![smAt[t]] = Map!Outcome(smOp[t], AState[smAt[t]])]
             /\ AAnswer' = [AAnswer EXCEPT ![t] = AState[smAt[t]]]
             /\ ACall' = ACall
    <3>1. PICK op \in Map!Operations, a \in Entries : op = smOp[t] /\ a = smAt[t] BY <2>0
    <3>2. Map!Applied(t, op, a)
      BY <2>1, <3>1 DEF Map!Applied, Map!Pending, ACall, AAnswer, AState
    <3>. QED BY <3>2 DEF Map!EMNext
  <2>2. CASE /\ AAnswer[t] # 4
             /\ ACall' = [ACall EXCEPT ![t] = <<"none", 0>>]
             /\ AAnswer' = [AAnswer EXCEPT ![t] = 4]
             /\ AState' = AState
    <3>1. Map!Returned(t)
      BY <2>2 DEF Map!Returned, Map!Pending, Map!NoCall, ACall, AAnswer, AState
    <3>. QED BY <3>1 DEF Map!EMNext
  <2>3. CASE ACall' = ACall /\ AAnswer' = AAnswer /\ AState' = AState
    BY <2>3 DEF Map!emVars, ACall, AAnswer, AState
  <2>. QED BY <1>2, <2>1, <2>2, <2>3, AdvanceRefines
<1>3. CASE UNCHANGED <<smDir, smMem, smCall>>
  <2>1. ACall' = ACall /\ AAnswer' = AAnswer /\ AState' = AState
    BY <1>3 DEF smCall, ACall, AAnswer, AState, StateOf
  <2>. QED BY <2>1 DEF Map!emVars, ACall, AAnswer, AState
<1>4. CASE UNCHANGED smVars BY <1>3, <1>4 DEF smVars, smCall
<1>. QED
  BY <1>1, <1>2, <1>3, <1>4 DEF SMNext, ScanBegin, ScanLoadPage, ScanByte, ScanEnd, Ops

\* An empty directory is a map in which every block is NOT_PRESENT.
LEMMA SMInit_Refines == SMInit => Map!EMInit
<1> SUFFICES ASSUME SMInit PROVE Map!EMInit OBVIOUS
<1>1. \A e \in Entries : StateOf(e) = 0 BY SplitTypes DEF SMInit, StateOf
<1>. QED BY <1>1 DEF SMInit, Map!EMInit, Map!NOT_PRESENT, Map!NoCall, Map!Pending

\* The paged, byte-packed, lock-free map of block_map.rs implements one atomic
\* state per block: each of get, try_set_present, transition_to_dirty and cas
\* takes effect at one instant, on its own block alone, for any number of
\* threads and blocks and any packing of states into bytes and pages.
THEOREM MapImplementsEntryMap == SMSpec => MapIsAtomic
<1>1. SMInit => Map!EMInit BY SMInit_Refines
<1>2. SMInv /\ [SMNext]_smVars => [Map!EMNext]_Map!emVars BY SMNext_Refines
<1>. QED BY <1>1, <1>2, MapInvariant, PTL DEF SMSpec, MapIsAtomic, Map!EMSpec

-----------------------------------------------------------------------------
(* Scans: iter_with_state and count_present.                                *)

\* The quotient is the one number whose multiples enclose the dividend.
LEMMA QuotientUnique ==
    ASSUME NEW n \in Nat, NEW k \in Nat, k > 0, NEW q \in Nat,
           k * q <= n, n < k * q + k
    PROVE  n \div k = q
<1> DEFINE a == n \div k
<1>1. a \in Nat /\ n = k * a + (n % k) /\ n % k \in 0 .. (k - 1) BY DivMod
<1>2. k * q \in Nat /\ k * a \in Nat BY SMTT(60), <1>1
<1> HIDE DEF a
<1>3. CASE a >= q + 1
  <2>1. PICK d \in Nat : a = q + 1 + d BY SMTT(60), <1>1, <1>3
  <2>2. k * a = k * q + k + k * d /\ k * d \in Nat BY SMTT(60), <1>1, <2>1
  <2>. QED BY SMTT(60), <1>1, <1>2, <2>2
<1>4. CASE q >= a + 1
  <2>1. PICK d \in Nat : q = a + 1 + d BY SMTT(60), <1>1, <1>4
  <2>2. k * q = k * a + k + k * d /\ k * d \in Nat BY SMTT(60), <1>1, <2>1
  <2>. QED BY SMTT(60), <1>1, <1>2, <2>2
<1>. QED BY SMTT(60), <1>1, <1>3, <1>4 DEF a

FirstIn(p, b) == p * PageEntries + b * PerByte

\* The blocks the scan computes for a byte of a page are in that page.
LEMMA ByteInPage ==
    ASSUME NEW p \in Pages, NEW b \in Bytes, NEW e \in Entries,
           e \in FirstIn(p, b) .. (FirstIn(p, b) + PerByte - 1)
    PROVE  PageOf(e) = p
<1> DEFINE P == PageEntries
           x == P * p
           y == PerByte * b
<1>1. /\ P \in Nat /\ P > 0 /\ P = PageBytes * PerByte
      /\ PerByte \in Nat /\ PerByte > 0 /\ PageBytes \in Nat
  BY SMTT(60), StateMapScale DEF PageEntries
<1>2. e \in Nat /\ p \in Nat /\ b \in Nat /\ b + 1 <= PageBytes
  BY SMTT(60), <1>1, StateMapScale DEF Entries, Pages, Bytes
<1> HIDE DEF P
<1>3. x \in Nat /\ y \in Nat /\ x = p * P /\ y = b * PerByte BY SMTT(60), <1>1, <1>2
<1>4. y + PerByte <= P
  <2>1. PICK d \in Nat : PageBytes = b + 1 + d BY SMTT(60), <1>1, <1>2
  <2>2. PageBytes * PerByte = y + PerByte + PerByte * d /\ PerByte * d \in Nat
    BY SMTT(60), <1>1, <1>2, <2>1
  <2>. QED BY SMTT(60), <1>1, <1>3, <2>2
<1>5. FirstIn(p, b) = x + y BY <1>3 DEF FirstIn, P
<1> HIDE DEF x, y
<1>6. x <= e /\ e < x + P BY SMTT(60), <1>1, <1>2, <1>3, <1>4, <1>5
<1>7. e \div P = p BY <1>1, <1>2, <1>6, QuotientUnique DEF x
<1>. QED BY <1>7 DEF PageOf, P

\* A block is among those the scan computes for the block's own byte.
LEMMA InOwnByte ==
    ASSUME NEW e \in Entries
    PROVE  e \in FirstIn(PageOf(e), ByteOf(e)) .. (FirstIn(PageOf(e), ByteOf(e)) + PerByte - 1)
<1> DEFINE P == PageEntries
           r == e % PageEntries
           p == e \div PageEntries
           b == r \div PerByte
<1>1. /\ P \in Nat /\ P > 0 /\ PerByte \in Nat /\ PerByte > 0
  BY SMTT(60), StateMapScale DEF PageEntries
<1>2. e \in Nat BY SMTT(60), StateMapScale DEF Entries
<1>3. p \in Nat /\ r \in 0 .. (P - 1) /\ e = P * p + r BY <1>1, <1>2, DivMod
<1>4. r \in Nat BY SMTT(60), <1>1, <1>3
<1> HIDE DEF P, r, p
<1>5. b \in Nat /\ r % PerByte \in 0 .. (PerByte - 1) /\ r = PerByte * b + (r % PerByte)
  BY <1>1, <1>4, DivMod
<1>6. PICK s \in 0 .. (PerByte - 1) : s = r % PerByte BY <1>5
<1> HIDE DEF b
<1>7. P * p \in Nat /\ P * p = p * P /\ PerByte * b \in Nat /\ PerByte * b = b * PerByte
  BY SMTT(60), <1>1, <1>3, <1>5
<1>8. FirstIn(PageOf(e), ByteOf(e)) = P * p + PerByte * b
  BY <1>7 DEF FirstIn, PageOf, ByteOf, P, p, r, b
<1>9. e = P * p + PerByte * b + s BY SMTT(60), <1>3, <1>5, <1>6, <1>7
<1>. QED BY SMTT(60), <1>1, <1>7, <1>8, <1>9

\* The shape of a scan's progress.
ScanTypeOK ==
    smScan \in [on : BOOLEAN, target : 0 .. 3, page : Nat, byte : Nat,
                map : Callers \cup {NoThread}, loaded : BOOLEAN,
                found : SUBSET Entries, stable : SUBSET Entries, ever : SUBSET Entries]

\* The page a scan loaded is the one installed, or was not there yet.
ScanInPage ==
    smScan.on /\ smScan.loaded =>
        /\ smScan.page \in Pages /\ smScan.byte \in Bytes
        /\ smScan.map = NoThread \/ smScan.map = smDir[smScan.page]

\* What is stable has the state the scan looks for; what has it is noted.
ScanNotes ==
    smScan.on =>
        /\ smScan.target # 0
        /\ \A e \in smScan.stable : AState[e] = smScan.target
        /\ \A e \in Entries : AState[e] = smScan.target => e \in smScan.ever

\* A scan that found no page where it looked misses no block that was stable.
ScanSees ==
    smScan.on /\ smScan.loaded =>
        \A e \in smScan.stable : PageOf(e) = smScan.page => smScan.map # NoThread

\* The scan is past block e.
Passed(e) ==
    \/ PageOf(e) < smScan.page
    \/ smScan.loaded /\ PageOf(e) = smScan.page /\ ByteOf(e) < smScan.byte

\* What the scan has reported so far is right.
ScanSoFar ==
    smScan.on =>
        /\ smScan.found \subseteq smScan.ever
        /\ \A e \in smScan.stable : Passed(e) => e \in smScan.found

ScanInv == ScanTypeOK /\ ScanInPage /\ ScanNotes /\ ScanSees /\ ScanSoFar

\* No scan has begun when the map is created.
LEMMA SMInit_Scan == SMInit => ScanInv
<1> SUFFICES ASSUME SMInit PROVE ScanInv OBVIOUS
<1>1. smScan = NoScan BY DEF SMInit
<1>2. ScanTypeOK BY SMTT(60), <1>1 DEF ScanTypeOK, NoScan
<1>3. ~smScan.on BY <1>1 DEF NoScan
<1>. QED BY <1>2, <1>3 DEF ScanInv, ScanInPage, ScanNotes, ScanSees, ScanSoFar

\* A step that changes neither a state nor the scan, and clears no slot of the
\* directory, leaves what holds of the scan.
LEMMA ScanUndisturbed ==
    ASSUME SMInv, ScanInv, smScan' = smScan, AState' = AState,
           \A q \in Pages : smDir[q] # NoThread => smDir'[q] = smDir[q]
    PROVE  ScanInv'
<1>1. ScanTypeOK' BY DEF ScanInv, ScanTypeOK
<1>2. ScanInPage' BY DEF ScanInv, ScanInPage
<1>3. ScanNotes' BY DEF ScanInv, ScanNotes
<1>4. ScanSees' BY DEF ScanInv, ScanSees
<1>5. ScanSoFar' BY DEF ScanInv, ScanSoFar, Passed
<1>. QED BY <1>1, <1>2, <1>3, <1>4, <1>5 DEF ScanInv

\* No step of a thread clears or changes an installed slot of the directory.
LEMMA SlotsSetOnce ==
    ASSUME SMInv, NEW t \in Callers, Advance(t), NEW q \in Pages, smDir[q] # NoThread
    PROVE  smDir'[q] = smDir[q]
<1>1. CASE Install(t)
  <2>1. smDir' = [smDir EXCEPT ![PageOf(smAt[t])] = IF @ = NoThread THEN t ELSE @]
    BY <1>1 DEF Install
  <2>. QED BY <2>1 DEF SMInv, SMTypeOK
<1>2. CASE smDir' = smDir BY <1>2
<1>. QED
  BY <1>1, <1>2 DEF Advance, PeekPage, PeekByte, CasPage, EnsurePage, LoadByte, SwapByte, Return

\* A thread's change of a state is noted in the scan under way: a block that
\* loses the state is stable no more, one that gains it had it at some moment.
LEMMA SwapScan ==
    ASSUME SMInv, ScanInv, NEW t \in Callers, SwapByte(t),
           smMem[CellOf(smPage[t], smAt[t])] = smOld[t]
    PROVE  ScanInv'
<1> DEFINE a == smAt[t]
           new == NewState(smOp[t])
<1>0. a \in Entries /\ smOp[t] \in Ops BY DEF SMInv, SMTypeOK
<1>1. AState' = [AState EXCEPT ![a] = new] BY SwapStates
<1>2. smScan' = Noted(a, new) /\ smDir' = smDir BY DEF SwapByte
<1>3. AState'[a] = new /\ \A e \in Entries : e # a => AState'[e] = AState[e]
  BY <1>0, <1>1 DEF AState
<1> HIDE DEF a, new
<1>4. CASE ~smScan.on
  <2>1. smScan' = smScan BY <1>2, <1>4 DEF Noted
  <2>. QED
    BY <1>4, <2>1 DEF ScanInv, ScanTypeOK, ScanInPage, ScanNotes, ScanSees, ScanSoFar
<1>5. CASE smScan.on /\ new = smScan.target
  <2>0. smScan' = [smScan EXCEPT !.ever = smScan.ever \cup {a}] BY <1>2, <1>5 DEF Noted
  <2>1. /\ smScan'.on = smScan.on /\ smScan'.target = smScan.target
        /\ smScan'.page = smScan.page /\ smScan'.byte = smScan.byte
        /\ smScan'.map = smScan.map /\ smScan'.loaded = smScan.loaded
        /\ smScan'.found = smScan.found /\ smScan'.stable = smScan.stable
        /\ smScan'.ever = smScan.ever \cup {a}
    BY SMTT(60), <2>0 DEF ScanInv, ScanTypeOK
  <2>2. ScanTypeOK' BY SMTT(60), <1>0, <2>0 DEF ScanInv, ScanTypeOK
  <2>3. smScan.stable \subseteq Entries BY SMTT(60) DEF ScanInv, ScanTypeOK
  <2>4. ScanInPage' BY <1>2, <2>1 DEF ScanInv, ScanInPage
  <2>5. ScanNotes' BY <1>3, <1>5, <2>1, <2>3 DEF ScanInv, ScanNotes
  <2>6. ScanSees' BY <2>1 DEF ScanInv, ScanSees
  <2>7. ScanSoFar' BY <2>1 DEF ScanInv, ScanSoFar, Passed
  <2>. QED BY <2>2, <2>4, <2>5, <2>6, <2>7 DEF ScanInv
<1>6. CASE smScan.on /\ new # smScan.target
  <2>0. smScan' = [smScan EXCEPT !.stable = smScan.stable \ {a}] BY <1>2, <1>6 DEF Noted
  <2>1. /\ smScan'.on = smScan.on /\ smScan'.target = smScan.target
        /\ smScan'.page = smScan.page /\ smScan'.byte = smScan.byte
        /\ smScan'.map = smScan.map /\ smScan'.loaded = smScan.loaded
        /\ smScan'.found = smScan.found /\ smScan'.stable = smScan.stable \ {a}
        /\ smScan'.ever = smScan.ever
    BY SMTT(60), <2>0 DEF ScanInv, ScanTypeOK
  <2>2. ScanTypeOK' BY SMTT(60), <2>0 DEF ScanInv, ScanTypeOK
  <2>3. smScan.stable \subseteq Entries BY SMTT(60) DEF ScanInv, ScanTypeOK
  <2>4. ScanInPage' BY <1>2, <2>1 DEF ScanInv, ScanInPage
  <2>5. ScanNotes' BY <1>3, <1>6, <2>1, <2>3 DEF ScanInv, ScanNotes
  <2>6. ScanSees' BY <2>1 DEF ScanInv, ScanSees
  <2>7. ScanSoFar' BY <2>1 DEF ScanInv, ScanSoFar, Passed
  <2>. QED BY <2>2, <2>4, <2>5, <2>6, <2>7 DEF ScanInv
<1>. QED BY <1>4, <1>5, <1>6

\* A scan begins with what has the state, and has passed nothing.
LEMMA BeginScan ==
    ASSUME SMInv, ScanInv, NEW s \in {1, 2, 3}, ScanBegin(s)
    PROVE  ScanInv'
<1> DEFINE now == {e \in Entries : StateOf(e) = s}
<1>0. smScan' = [NoScan EXCEPT !.on = TRUE, !.target = s, !.stable = now, !.ever = now]
  BY DEF ScanBegin
<1>1. AState' = AState /\ smDir' = smDir BY DEF ScanBegin, AState, StateOf
<1>2. \A e \in Entries : e \in now <=> AState[e] = s BY DEF AState
<1>3. now \subseteq Entries OBVIOUS
<1> HIDE DEF now
<1>4. /\ smScan'.target = s /\ smScan'.page = 0 /\ smScan'.loaded = FALSE
      /\ smScan'.found = {} /\ smScan'.stable = now /\ smScan'.ever = now
  BY SMTT(60), <1>0 DEF NoScan
<1>5. ScanTypeOK'
  <2>1. s \in 0 .. 3 BY SMTT(60)
  <2>2. smScan' = [on |-> TRUE, target |-> s, page |-> 0, byte |-> 0, map |-> NoThread,
                   loaded |-> FALSE, found |-> {}, stable |-> now, ever |-> now]
    BY <1>0 DEF NoScan
  <2>. QED BY SMTT(60), <1>3, <2>1, <2>2 DEF ScanTypeOK
<1>6. ScanInPage' /\ ScanSees' BY <1>4 DEF ScanInPage, ScanSees
<1>7. s # 0 BY SMTT(60)
<1>8. ScanNotes' BY <1>1, <1>2, <1>3, <1>4, <1>7 DEF ScanNotes
<1>9. \A e \in Entries : ~(PageOf(e) < 0) BY SMTT(60), SplitTypes DEF Pages
<1>10. ScanSoFar' BY <1>3, <1>4, <1>9 DEF ScanSoFar, Passed
<1>. QED BY <1>5, <1>6, <1>8, <1>10 DEF ScanInv

\* A scan loads the next page: a stable block's page is there.
LEMMA LoadPageScan ==
    ASSUME SMInv, ScanInv, ScanLoadPage
    PROVE  ScanInv'
<1> DEFINE m == smDir[smScan.page]
<1>0. smScan.on /\ smScan.page \in Pages /\ ~smScan.loaded BY DEF ScanLoadPage
<1>a. smScan' = [smScan EXCEPT !.loaded = TRUE, !.byte = 0, !.map = m] BY DEF ScanLoadPage
<1>1. AState' = AState /\ smDir' = smDir BY DEF ScanLoadPage, AState, StateOf
<1>2. m \in Callers \cup {NoThread} BY <1>0 DEF SMInv, SMTypeOK
<1> HIDE DEF m
<1>3. /\ smScan'.on = smScan.on /\ smScan'.target = smScan.target
      /\ smScan'.page = smScan.page /\ smScan'.byte = 0
      /\ smScan'.map = m /\ smScan'.loaded = TRUE
      /\ smScan'.found = smScan.found /\ smScan'.stable = smScan.stable
      /\ smScan'.ever = smScan.ever
  BY SMTT(60), <1>a DEF ScanInv, ScanTypeOK
<1>4. ScanTypeOK'
  <2>1. 0 \in Nat BY SMTT(60)
  <2>. QED BY <1>a, <1>2, <2>1 DEF ScanInv, ScanTypeOK
<1>5. 0 \in Bytes BY SMTT(60), StateMapScale DEF Bytes
<1>6. ScanInPage' BY <1>0, <1>1, <1>3, <1>5 DEF ScanInPage, m
<1>7. ScanNotes' BY <1>1, <1>3 DEF ScanInv, ScanNotes
<1>8. smScan.stable \subseteq Entries BY SMTT(60) DEF ScanInv, ScanTypeOK
<1>9. ScanSees'
  <2> SUFFICES ASSUME NEW e \in smScan.stable, PageOf(e) = smScan.page PROVE m # NoThread
    BY <1>3 DEF ScanSees
  <2>1. AState[e] # 0 BY <1>0 DEF ScanInv, ScanNotes
  <2>. QED BY <1>8, <2>1, InstalledState DEF m
<1>10. \A e \in Entries : ~(ByteOf(e) < 0) BY SMTT(60), SplitTypes DEF Bytes
<1>11. ScanSoFar' BY <1>3, <1>8, <1>10 DEF ScanInv, ScanSoFar, Passed
<1>. QED BY <1>4, <1>6, <1>7, <1>9, <1>11 DEF ScanInv

\* A scan reads one byte: it reports the blocks of that byte that have the
\* state, the stable ones among them, and goes on to the next byte or page.
LEMMA ByteScan ==
    ASSUME SMInv, ScanInv, ScanByte
    PROVE  ScanInv'
<1> DEFINE p == smScan.page
           b == smScan.byte
           seen == {e \in FirstIn(p, b) .. (FirstIn(p, b) + PerByte - 1) :
                        /\ e \in Entries /\ smScan.map # NoThread
                        /\ smMem[CellOf(smScan.map, e)][SlotOf(e)] = smScan.target}
           last == b + 1 = PageBytes
           nextByte == IF last THEN 0 ELSE b + 1
           nextPage == IF last THEN p + 1 ELSE p
           inPage == b + 1 # PageBytes
<1>0. smScan.on /\ smScan.loaded BY DEF ScanByte
<1>a. smScan' = [smScan EXCEPT !.found = smScan.found \cup seen, !.byte = nextByte,
                               !.page = nextPage, !.loaded = inPage]
  BY DEF ScanByte, FirstIn
<1>1. AState' = AState /\ smDir' = smDir BY DEF ScanByte, AState, StateOf
<1>2. /\ p \in Pages /\ b \in Bytes
      /\ smScan.map = NoThread \/ smScan.map = smDir[p]
  BY <1>0 DEF ScanInv, ScanInPage
<1>3. p \in Nat /\ b \in Nat /\ b < PageBytes /\ PageBytes \in Nat
  BY SMTT(60), <1>2, StateMapScale DEF Pages, Bytes, ScanInv, ScanTypeOK
<1>4. seen \subseteq Entries OBVIOUS
<1>5. ASSUME NEW e \in seen PROVE AState[e] = smScan.target
  <2>1. /\ e \in Entries /\ smScan.map # NoThread
        /\ smMem[CellOf(smScan.map, e)][SlotOf(e)] = smScan.target
        /\ e \in FirstIn(p, b) .. (FirstIn(p, b) + PerByte - 1)
    OBVIOUS
  <2>2. PageOf(e) = p BY <1>2, <2>1, ByteInPage
  <2>3. smScan.map = smDir[PageOf(e)] BY <1>2, <2>1, <2>2
  <2>. QED BY <2>1, <2>3, InstalledState
<1>6. ASSUME NEW e \in smScan.stable, e \in Entries, PageOf(e) = p, ByteOf(e) = b
      PROVE  e \in seen
  <2>1. smScan.map # NoThread BY <1>0, <1>6 DEF ScanInv, ScanSees
  <2>2. smScan.map = smDir[PageOf(e)] BY <1>2, <1>6, <2>1
  <2>3. AState[e] = smScan.target BY <1>0 DEF ScanInv, ScanNotes
  <2>4. smMem[CellOf(smScan.map, e)][SlotOf(e)] = smScan.target
    BY <1>6, <2>1, <2>2, <2>3, InstalledState
  <2>5. e \in FirstIn(p, b) .. (FirstIn(p, b) + PerByte - 1) BY <1>6, InOwnByte
  <2>. QED BY <1>6, <2>1, <2>4, <2>5
<1>b. nextByte \in Nat /\ nextPage \in Nat /\ inPage \in BOOLEAN BY SMTT(60), <1>3
<1> HIDE DEF seen, last, p, b, nextByte, nextPage, inPage
<1>7. /\ smScan'.on = smScan.on /\ smScan'.target = smScan.target
      /\ smScan'.page = nextPage /\ smScan'.byte = nextByte
      /\ smScan'.map = smScan.map /\ smScan'.loaded = inPage
      /\ smScan'.found = smScan.found \cup seen /\ smScan'.stable = smScan.stable
      /\ smScan'.ever = smScan.ever
  BY <1>a DEF ScanInv, ScanTypeOK
<1>8. smScan.stable \subseteq Entries BY SMTT(60) DEF ScanInv, ScanTypeOK
<1>9. ScanTypeOK' BY <1>a, <1>b, <1>4 DEF ScanInv, ScanTypeOK
<1>10. ScanInPage'
  <2> SUFFICES ASSUME ~last PROVE p \in Pages /\ b + 1 \in Bytes /\ (smScan.map = NoThread \/ smScan.map = smDir[p])
    BY <1>1, <1>7 DEF ScanInPage, inPage, nextPage, nextByte, last
  <2>1. b + 1 \in Bytes BY SMTT(60), <1>3 DEF Bytes, last
  <2>. QED BY <1>2, <2>1
<1>11. ScanNotes' BY <1>1, <1>7 DEF ScanInv, ScanNotes
<1>12. ScanSees' BY <1>0, <1>7 DEF ScanInv, ScanSees, p, inPage, nextPage, last
<1>13. ASSUME NEW e \in smScan.stable, Passed(e)' PROVE e \in smScan.found \cup seen
  <2>1. e \in Entries /\ PageOf(e) \in Nat /\ ByteOf(e) \in Nat /\ ByteOf(e) < PageBytes
    BY SMTT(60), <1>3, <1>8, SplitTypes DEF Pages, Bytes
  <2>2. \/ PageOf(e) < smScan'.page
        \/ smScan'.loaded /\ PageOf(e) = smScan'.page /\ ByteOf(e) < smScan'.byte
    BY <1>13 DEF Passed
  <2>3. PageOf(e) < p \/ (PageOf(e) = p /\ (ByteOf(e) < b \/ ByteOf(e) = b))
    <3>1. CASE last
      <4>1. PageOf(e) < p + 1 BY <1>7, <2>2, <3>1 DEF inPage, nextPage, last
      <4>2. b + 1 = PageBytes BY <3>1 DEF last
      <4>. QED BY SMTT(60), <1>3, <2>1, <4>1, <4>2
    <3>2. CASE ~last
      <4>1. PageOf(e) < p \/ (PageOf(e) = p /\ ByteOf(e) < b + 1) BY <1>7, <2>2, <3>2 DEF nextPage, nextByte
      <4>. QED BY SMTT(60), <1>3, <2>1, <4>1
    <3>. QED BY <3>1, <3>2
  <2>4. CASE PageOf(e) = p /\ ByteOf(e) = b BY <1>6, <2>1, <2>4
  <2>5. CASE PageOf(e) < p \/ (PageOf(e) = p /\ ByteOf(e) < b)
    <3>1. Passed(e) BY <1>0, <2>5 DEF Passed, p, b
    <3>. QED BY <1>0, <3>1 DEF ScanInv, ScanSoFar
  <2>. QED BY <2>3, <2>4, <2>5
<1>14. smScan.found \cup seen \subseteq smScan.ever
  BY <1>0, <1>4, <1>5 DEF ScanInv, ScanNotes, ScanSoFar
<1>15. ScanSoFar' BY <1>7, <1>13, <1>14 DEF ScanSoFar
<1>. QED BY <1>9, <1>10, <1>11, <1>12, <1>15 DEF ScanInv

\* What holds of a scan is inductive.
LEMMA SMNext_Scan == SMInv /\ ScanInv /\ [SMNext]_smVars => ScanInv'
<1> SUFFICES ASSUME SMInv, ScanInv, [SMNext]_smVars PROVE ScanInv' OBVIOUS
<1>1. ASSUME NEW t \in Callers, NEW op \in Ops, NEW e \in Entries, Invoke(t, op, e)
      PROVE  ScanInv'
  <2>1. smScan' = smScan /\ smDir' = smDir /\ AState' = AState
    BY <1>1 DEF Invoke, AState, StateOf
  <2>. QED BY <2>1, ScanUndisturbed
<1>2. ASSUME NEW t \in Callers, Advance(t) PROVE ScanInv'
  <2>1. CASE SwapByte(t) /\ smMem[CellOf(smPage[t], smAt[t])] = smOld[t] BY <2>1, SwapScan
  <2>2. CASE ~(SwapByte(t) /\ smMem[CellOf(smPage[t], smAt[t])] = smOld[t])
    <3>1. AState' = AState BY <1>2, <2>2, StatesKept
    <3>2. smScan' = smScan
      BY <1>2, <2>2 DEF Advance, PeekPage, PeekByte, CasPage, EnsurePage, Install, LoadByte,
                        SwapByte, Return
    <3>. QED BY <1>2, <3>1, <3>2, SlotsSetOnce, ScanUndisturbed
  <2>. QED BY <2>1, <2>2
<1>3. CASE ScanEnd
  <2>1. smScan' = NoScan BY <1>3 DEF ScanEnd
  <2>2. ScanTypeOK' BY SMTT(60), <2>1 DEF ScanTypeOK, NoScan
  <2>3. ~smScan'.on BY <2>1 DEF NoScan
  <2>. QED BY <2>2, <2>3 DEF ScanInv, ScanInPage, ScanNotes, ScanSees, ScanSoFar
<1>4. CASE UNCHANGED smVars
  <2>1. smScan' = smScan /\ smDir' = smDir /\ AState' = AState
    BY <1>4 DEF smVars, AState, StateOf
  <2>. QED BY <2>1, ScanUndisturbed
<1>. QED
  BY <1>1, <1>2, <1>3, <1>4, BeginScan, LoadPageScan, ByteScan DEF SMNext, Ops

\* A scan of the map (iter_with_state, count_present of block_map.rs) reports
\* every block that had the state from its first step to its last and none
\* that never had it, whatever the threads do to the bytes it has passed or
\* has still to read, for any number of threads, blocks and pages.
THEOREM ScansAreExact == SMSpec => []ScanExact
<1>1. SMInv /\ ScanInv => ScanExact
  <2> SUFFICES ASSUME ScanInv, ScanOver
               PROVE  /\ smScan.stable \subseteq smScan.found
                      /\ smScan.found \subseteq smScan.ever
    BY DEF ScanExact
  <2>1. smScan.stable \subseteq Entries /\ smScan.page \in Nat
    BY SMTT(60) DEF ScanInv, ScanTypeOK
  <2>2. ASSUME NEW e \in smScan.stable PROVE Passed(e)
    <3>1. PageOf(e) \in Pages BY <2>1, SplitTypes
    <3>2. smScan.page \notin Pages BY DEF ScanOver
    <3>3. PageOf(e) < smScan.page
      <4>1. PICK n \in Nat : Pages = 0 .. n
        <5>1. NumEntries - 1 \in Nat /\ PageEntries \in Nat /\ PageEntries > 0
          BY SMTT(60), StateMapScale DEF PageEntries
        <5>. QED BY <5>1, DivMod DEF Pages
      <4>. QED BY SMTT(60), <2>1, <3>1, <3>2, <4>1
    <3>. QED BY <3>3 DEF Passed
  <2>. QED BY <2>2 DEF ScanInv, ScanSoFar, ScanOver
<1>2. SMInit => ScanInv BY SMInit_Scan
<1>3. SMInv /\ ScanInv /\ [SMNext]_smVars => ScanInv' BY SMNext_Scan
<1>. QED BY <1>1, <1>2, <1>3, MapInvariant, PTL DEF SMSpec
=============================================================================
