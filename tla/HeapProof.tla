----------------------------- MODULE HeapProof ------------------------------
(***************************************************************************)
(* Blocks in clients' hands never overlap, for every arena size and every   *)
(* set of requests.  The inductive invariant describes the list by its      *)
(* links: each header's block ends where the next header begins or before,  *)
(* and no other header lies in between.                                     *)
(***************************************************************************)
EXTENDS Heap, FiniteSetTheorems, TLAPS

\* A block at a of size s whose successor in the list through C is l.
LinkedBy(a, l, s, C) ==
  /\ s >= 0
  /\ \/ /\ l = END
        /\ a + HDR + s <= HeapUnits
        /\ \A c \in C : c <= a
     \/ /\ l \in C
        /\ a + HDR + s <= l
        /\ \A c \in C : c <= a \/ c >= l

\* next of a list header; a split in progress is not yet written.
Link(a) == IF Pending /\ a = blk THEN start ELSE next[a]

ChainOK ==
  /\ 0 \in chain
  /\ \A a \in chain : LinkedBy(a, Link(a), Size(a), chain)
  /\ \A a \in Addr : tag[a] = TAG => a \in chain

HeldOK ==
  /\ held \subseteq chain
  /\ \A b \in held : used[b] = 1 /\ tag[b] = TAG /\ size[b] = RoundUp(asked[b])

LocalsOK ==
  /\ pc = "walk" => blk \in chain \cup {END}
  /\ pc = "gc" => cur = next[start] /\ start \notin held
  /\ Pending => /\ blk \in chain /\ blk \notin held /\ start \in chain
                /\ tag[blk] = TAG
                /\ start = blk + HDR + want

IInv == TypeOK /\ ChainOK /\ HeldOK /\ LocalsOK

-----------------------------------------------------------------------------
(* Facts about links                                                        *)

\* Rounding gives a whole number of units that covers the bytes.
LEMMA RoundUpCovers ==
  ASSUME NEW n \in Nat
  PROVE  RoundUp(n) \in Nat /\ 16 * RoundUp(n) >= n
  BY DEF RoundUp

\* A block may shrink in place (blk->size = size without a split).
LEMMA LinkShrink ==
  ASSUME NEW a \in Addr, NEW l \in Ptr, NEW s \in Int, NEW t \in Nat,
         NEW C \in SUBSET Addr, LinkedBy(a, l, s, C), t <= s
  PROVE  LinkedBy(a, l, t, C)
  BY HeapAssumption DEF LinkedBy, Addr, Ptr, HDR, END

\* A split puts a header inside a block, clear of every other header.
LEMMA LinkSplit ==
  ASSUME NEW b \in Addr, NEW l \in Ptr, NEW s \in Int, NEW w \in Nat,
         NEW C \in SUBSET Addr, b \in C,
         LinkedBy(b, l, s, C), s - w > 2 * HDR
  PROVE  LET n == b + HDR + w IN
         /\ n \in Addr
         /\ \A c \in C : c < n - 1 \/ c > n + 1
         /\ LinkedBy(n, l, s - w - HDR, C \cup {n})
         /\ LinkedBy(b, n, w, C \cup {n})
<1> DEFINE n == b + HDR + w
<1>1. n \in Addr
  BY HeapAssumption DEF LinkedBy, Addr, Ptr, HDR, END
<1>2. \A c \in C : c < n - 1 \/ c > n + 1
  BY HeapAssumption DEF LinkedBy, Addr, Ptr, HDR, END
<1>3. LinkedBy(n, l, s - w - HDR, C \cup {n})
  BY <1>2, HeapAssumption DEF LinkedBy, Addr, Ptr, HDR, END
<1>4. LinkedBy(b, n, w, C \cup {n})
  BY <1>2, HeapAssumption DEF LinkedBy, Addr, Ptr, HDR, END
<1> QED BY <1>1, <1>2, <1>3, <1>4

\* The other blocks of the list do not notice the new header.
LEMMA LinkSplitOthers ==
  ASSUME NEW b \in Addr, NEW l \in Ptr, NEW s \in Int, NEW w \in Nat,
         NEW C \in SUBSET Addr, b \in C,
         LinkedBy(b, l, s, C), s - w > 2 * HDR,
         NEW a \in C, a # b, NEW la \in Ptr, NEW sa \in Int,
         LinkedBy(a, la, sa, C)
  PROVE  LinkedBy(a, la, sa, C \cup {b + HDR + w})
<1>1. a < b => la \in C /\ la <= b
  BY DEF LinkedBy, Addr, Ptr, END
<1>2. a > b => a > b + HDR + w
  BY DEF LinkedBy, Addr, Ptr, END, HDR
<1> QED BY <1>1, <1>2, HeapAssumption DEF LinkedBy, Addr, Ptr, HDR, END

\* A merge takes over the successor's units and its link.
LEMMA LinkMerge ==
  ASSUME NEW C \in SUBSET Addr, NEW b \in C, NEW c \in C,
         NEW s \in Int, NEW t \in Int, NEW l \in Ptr,
         LinkedBy(b, c, s, C), LinkedBy(c, l, t, C)
  PROVE  LinkedBy(b, l, s + t + HDR, C \ {c})
<1>1. b < c
  BY DEF LinkedBy, Addr, HDR, END
<1>2. CASE l = END
  BY <1>1, <1>2, HeapAssumption DEF LinkedBy, Addr, HDR, END
<1>3. CASE l \in C
  BY <1>1, <1>3, HeapAssumption DEF LinkedBy, Addr, HDR, END
<1> QED BY <1>2, <1>3 DEF LinkedBy

\* The other blocks of the list do not notice the merge.
LEMMA LinkMergeOthers ==
  ASSUME NEW C \in SUBSET Addr, NEW b \in C, NEW c \in C,
         NEW s \in Int, LinkedBy(b, c, s, C),
         NEW a \in C, a # b, a # c, NEW la \in Ptr, NEW sa \in Int,
         LinkedBy(a, la, sa, C)
  PROVE  LinkedBy(a, la, sa, C \ {c})
<1>1. la # c
  BY DEF LinkedBy, Addr, HDR, END
<1> QED BY <1>1 DEF LinkedBy

\* A block lies in the arena, before every higher header.
LEMMA LinkApart ==
  ASSUME NEW C \in SUBSET Addr, NEW a \in C, NEW l \in Ptr, NEW s \in Int,
         LinkedBy(a, l, s, C)
  PROVE  /\ a + HDR + s <= HeapUnits
         /\ \A c \in C : a < c => a + HDR + s <= c
<1>1. CASE l = END
  BY <1>1, HeapAssumption DEF LinkedBy, Addr, HDR, END
<1>2. CASE l \in C
  <2>1. l \in Addr /\ l # END
    BY <1>2 DEF Addr, END
  <2>2. a + HDR + s <= l /\ \A c \in C : c <= a \/ c >= l
    BY <2>1 DEF LinkedBy
  <2> QED BY <2>1, <2>2, HeapAssumption DEF Addr, HDR
<1> QED BY <1>1, <1>2 DEF LinkedBy

-----------------------------------------------------------------------------
(* The invariant is inductive: one lemma per action.                        *)

LEMMA InitIInv == Init => IInv
  BY HeapAssumption DEF Init, IInv, TypeOK, ChainOK, HeldOK, LocalsOK,
     LinkedBy, Link, Size, Pending, Addr, Ptr, HDR, END, JUNK, TAG

LEMMA MallocStep ==
  ASSUME IInv, NEW n \in Requests, Malloc(n)
  PROVE  IInv'
  BY HeapAssumption DEF Malloc, IInv, TypeOK, ChainOK, HeldOK, LocalsOK,
     Link, Size, Pending, LinkedBy, Addr, Ptr, hdrs

LEMMA WalkFailStep ==
  ASSUME IInv, WalkFail
  PROVE  IInv'
  BY HeapAssumption DEF WalkFail, Return, IInv, TypeOK, ChainOK, HeldOK,
     LocalsOK, LinkedBy, Link, Size, Pending, Addr, Ptr, HDR, END, hdrs

LEMMA WalkNextStep ==
  ASSUME IInv, WalkNext
  PROVE  IInv'
  BY HeapAssumption DEF WalkNext, IInv, TypeOK, ChainOK, HeldOK, LocalsOK,
     LinkedBy, Link, Size, Pending, Addr, Ptr, hdrs

LEMMA WalkTakeStep ==
  ASSUME IInv, WalkTake
  PROVE  IInv'
<1>1. want \in Nat /\ want = RoundUp(req)
  BY RoundUpCovers DEF IInv, TypeOK, want
<1>2. blk \in chain /\ blk \in Addr /\ chain \in SUBSET Addr
  BY DEF WalkTake, IInv, TypeOK, LocalsOK
<1>3. TypeOK'
  <2>1. used' \in [Addr -> {0, 1}] /\ size' \in [Addr -> Int]
    BY <1>1, <1>2 DEF WalkTake, Hand, IInv, TypeOK
  <2>2. asked' \in [Addr -> Nat] /\ held' \subseteq Addr
    BY <1>2 DEF WalkTake, Hand, IInv, TypeOK
  <2>3. 0 \in Addr
    BY HeapAssumption DEF Addr, HDR
  <2> QED BY <2>1, <2>2, <2>3 DEF WalkTake, Hand, Return, IInv, TypeOK, Ptr
<1>4. ChainOK'
  <2>1. ~Pending /\ ~Pending' /\ chain' = chain /\ next' = next /\ tag' = tag
    BY DEF WalkTake, Hand, Return, Pending
  <2>2. ASSUME NEW a \in chain
        PROVE  LinkedBy(a, next[a], size'[a], chain)
    <3>1. LinkedBy(a, next[a], size[a], chain)
      BY <2>1 DEF IInv, ChainOK, Link, Size
    <3>2. a # blk => size'[a] = size[a]
      BY DEF WalkTake, Hand, IInv, TypeOK
    <3>3. a = blk => size'[a] = want /\ want <= size[a]
      BY <1>2 DEF WalkTake, Hand, Fits, IInv, TypeOK
    <3>4. a \in Addr /\ next[a] \in Ptr /\ size[a] \in Int
      BY <1>2 DEF IInv, TypeOK
    <3> QED BY <1>1, <1>2, <3>1, <3>2, <3>3, <3>4, LinkShrink
  <2> QED BY <2>1, <2>2 DEF IInv, ChainOK, Link, Size
<1>5. HeldOK'
  BY <1>1, <1>2 DEF WalkTake, Hand, IInv, TypeOK, HeldOK
<1>6. LocalsOK'
  BY DEF WalkTake, Hand, Return, LocalsOK, Pending
<1> QED BY <1>3, <1>4, <1>5, <1>6 DEF IInv

LEMMA WalkSplitStep ==
  ASSUME IInv, WalkSplit
  PROVE  IInv'
<1> DEFINE nb == blk + HDR + want
<1>1. want \in Nat /\ want' = want
  BY RoundUpCovers DEF WalkSplit, IInv, TypeOK, want
<1>2. blk \in chain /\ blk \in Addr /\ chain \in SUBSET Addr
  BY DEF WalkSplit, IInv, TypeOK, LocalsOK
<1>3. \A a \in chain : /\ LinkedBy(a, next[a], size[a], chain)
                       /\ next[a] \in Ptr /\ size[a] \in Int /\ a \in Addr
  BY <1>2 DEF WalkSplit, IInv, TypeOK, ChainOK, Link, Size, Pending
<1>4. size[blk] - want > 2 * HDR
  BY DEF WalkSplit
<1>5. /\ nb \in Addr
      /\ \A c \in chain : c < nb - 1 \/ c > nb + 1
      /\ LinkedBy(nb, next[blk], size[blk] - want - HDR, chain \cup {nb})
      /\ LinkedBy(blk, nb, want, chain \cup {nb})
  BY <1>1, <1>2, <1>3, <1>4, LinkSplit
<1>6. \A c \in chain : /\ next'[c] = next[c] /\ size'[c] = size[c]
                       /\ used'[c] = used[c] /\ tag'[c] = tag[c]
  <2>1. \A c \in chain : c \in Addr /\ c # nb /\ c # nb - 1 /\ c # nb + 1
    BY <1>2, <1>5 DEF Addr
  <2> QED BY <2>1 DEF WalkSplit, Put
<1>7. /\ next'[nb] = next[blk] /\ size'[nb] = size[blk] - want - HDR
      /\ used'[nb] = 0 /\ chain' = chain \cup {nb}
      /\ Pending' /\ blk' = blk /\ start' = nb /\ held' = held
      /\ asked' = asked /\ cur' = next[blk] /\ pc' = "gc"
      /\ ret' = "malloc" /\ req' = req
  BY <1>5 DEF WalkSplit, Put, NewNext, Pending
<1>8. TypeOK'
  <2>1. /\ tag' \in [Addr -> {0, TAG}] /\ used' \in [Addr -> {0, 1}]
        /\ next' \in [Addr -> Ptr]
    BY <1>2, <1>5 DEF WalkSplit, Put, NewNext, IInv, TypeOK, Ptr, TAG
  <2>2. prev' \in [Addr -> Ptr] /\ size' \in [Addr -> Int]
    BY <1>1, <1>2, <1>5 DEF WalkSplit, Put, IInv, TypeOK, Ptr, HDR, JUNK
  <2>3. cur' \in Ptr
    BY <1>3, <1>2, <1>7
  <2> QED BY <1>2, <1>5, <1>7, <2>1, <2>2, <2>3 DEF IInv, TypeOK
<1>9. ChainOK'
  <2>1. \A a \in Addr : tag'[a] = TAG => a \in chain'
    BY <1>5, <1>7 DEF WalkSplit, Put, IInv, ChainOK, TAG
  <2>2. ASSUME NEW a, a = nb
        PROVE  LinkedBy(a, Link(a)', Size(a)', chain')
    <3>1. nb # blk
      BY <1>1, <1>2 DEF Addr, HDR
    <3>2. Link(a)' = next[blk] /\ Size(a)' = size[blk] - want - HDR
      BY <1>7, <2>2, <3>1 DEF Link, Size
    <3> QED BY <1>5, <1>7, <2>2, <3>2
  <2>3. ASSUME NEW a, a = blk
        PROVE  LinkedBy(a, Link(a)', Size(a)', chain')
    <3>1. Link(a)' = nb /\ Size(a)' = want
      BY <1>1, <1>7, <2>3 DEF Link, Size
    <3> QED BY <1>5, <1>7, <2>3, <3>1
  <2>4. ASSUME NEW a \in chain, a # blk
        PROVE  LinkedBy(a, Link(a)', Size(a)', chain')
    <3>1. LinkedBy(a, next[a], size[a], chain \cup {nb})
      BY <1>1, <1>2, <1>3, <1>4, <2>4, LinkSplitOthers
    <3> QED BY <1>6, <1>7, <2>4, <3>1 DEF Link, Size
  <2>5. \A a \in chain' : LinkedBy(a, Link(a)', Size(a)', chain')
    BY <1>7, <2>2, <2>3, <2>4
  <2> QED BY <1>7, <2>1, <2>5 DEF ChainOK, IInv
<1>10. HeldOK'
  BY <1>6, <1>7 DEF IInv, HeldOK
<1>11. LocalsOK'
  <2>1. blk \notin held /\ tag[blk] = TAG
    BY DEF WalkSplit, Fits, IInv, HeldOK
  <2>2. nb \notin held
    BY <1>5 DEF IInv, HeldOK, TypeOK, Addr
  <2> QED BY <1>1, <1>2, <1>6, <1>7, <2>1, <2>2 DEF LocalsOK, Pending
<1> QED BY <1>8, <1>9, <1>10, <1>11 DEF IInv

\* A merge during a split stays clear of the block that is being split.
LEMMA MergeClear ==
  ASSUME IInv, GcMerge, start \in chain, Pending
  PROVE  start # blk /\ cur # blk
<1>1. want \in Nat
  BY RoundUpCovers DEF IInv, TypeOK, want
<1>2. start \in Addr /\ cur \in Addr /\ cur = next[start] /\ blk \in Addr
  BY DEF GcMerge, IInv, TypeOK, LocalsOK, Ptr
<1>3. start > blk
  BY <1>1, <1>2 DEF IInv, LocalsOK, Addr, HDR
<1>4. start # blk
  BY <1>2, <1>3 DEF Addr
<1>5. Link(start) = cur /\ Size(start) = size[start]
  BY <1>2, <1>4 DEF Link, Size
<1>6. LinkedBy(start, cur, size[start], chain)
  BY <1>5 DEF IInv, ChainOK
<1>7. cur > start
  BY <1>2, <1>6 DEF LinkedBy, IInv, TypeOK, Addr, HDR, END
<1> QED BY <1>2, <1>3, <1>7 DEF Addr

LEMMA GcMergeStep ==
  ASSUME IInv, GcMerge
  PROVE  IInv'
<1>1. want' = want /\ want \in Nat
  BY RoundUpCovers DEF GcMerge, IInv, TypeOK, want
<1>2. /\ start \in Addr /\ cur \in chain /\ cur \in Addr /\ cur = next[start]
      /\ used[cur] = 0 /\ tag[cur] = TAG /\ chain \in SUBSET Addr
      /\ start \notin held
  BY DEF GcMerge, Mergeable, IInv, TypeOK, LocalsOK, ChainOK, Ptr
<1>3. cur \notin held
  BY <1>2 DEF IInv, HeldOK
<1>4. /\ Pending' = Pending /\ blk' = blk /\ start' = start /\ held' = held
      /\ used' = used /\ asked' = asked /\ cur' = next[cur]
      /\ pc' = pc /\ ret' = ret /\ req' = req
  BY DEF GcMerge, Pending
<1>5. /\ \A a \in Addr : a # start => next'[a] = next[a] /\ size'[a] = size[a]
      /\ next'[start] = next[cur] /\ size'[start] = size[start] + size[cur] + HDR
      /\ \A a \in Addr : a # cur => tag'[a] = tag[a]
      /\ tag'[cur] = 0
  BY <1>2 DEF GcMerge, MergedSize, IInv, TypeOK
<1>6. TypeOK'
  <2>1. /\ tag' \in [Addr -> {0, TAG}] /\ next' \in [Addr -> Ptr]
        /\ size' \in [Addr -> Int]
    BY <1>2 DEF GcMerge, MergedSize, IInv, TypeOK, HDR
  <2>2. prev' \in [Addr -> Ptr] /\ cur' \in Ptr
    BY <1>2 DEF GcMerge, IInv, TypeOK, Ptr
  <2> QED BY <1>4, <2>1, <2>2 DEF GcMerge, IInv, TypeOK
\* A start_blk on the list takes cur off it.
<1>7. CASE start \in chain
  <2>1. chain' = chain \ {cur}
    BY <1>7 DEF GcMerge
  <2>2. Pending => start # blk /\ cur # blk
    BY <1>7, MergeClear
  <2>3. /\ LinkedBy(start, cur, size[start], chain)
        /\ LinkedBy(cur, next[cur], size[cur], chain)
        /\ next[cur] \in Ptr /\ size[cur] \in Int /\ size[start] \in Int
    BY <1>2, <1>7, <2>2 DEF IInv, ChainOK, Link, Size, TypeOK
  <2>4. cur # start
    BY <1>2, <2>3 DEF LinkedBy, Addr, HDR, END, IInv, TypeOK
  <2>5. LinkedBy(start, next[cur], size[start] + size[cur] + HDR, chain')
    BY <1>2, <1>7, <2>1, <2>3, LinkMerge
  <2>6. ASSUME NEW a \in chain'
        PROVE  LinkedBy(a, Link(a)', Size(a)', chain')
    <3>1. CASE a = start
      BY <1>2, <1>4, <1>5, <2>2, <2>5, <3>1 DEF Link, Size
    <3>2. CASE a # start
      <4>1. a \in chain /\ a # cur /\ a \in Addr
        BY <1>2, <2>1
      <4>2. Link(a)' = Link(a) /\ Size(a)' = Size(a)
        BY <1>1, <1>4, <1>5, <3>2, <4>1 DEF Link, Size
      <4>3. Link(a) \in Ptr /\ Size(a) \in Int
        BY <1>1, <1>2, <4>1 DEF Link, Size, IInv, TypeOK, Ptr
      <4>4. LinkedBy(a, Link(a), Size(a), chain)
        BY <4>1 DEF IInv, ChainOK
      <4>5. LinkedBy(a, Link(a), Size(a), chain \ {cur})
        BY <1>2, <1>7, <2>3, <3>2, <4>1, <4>3, <4>4, LinkMergeOthers
      <4> QED BY <2>1, <4>2, <4>5
    <3> QED BY <3>1, <3>2
  <2>7. 0 \in chain'
    BY <1>2, <1>7, <2>1, <2>3 DEF IInv, ChainOK, LinkedBy, Addr, HDR, END, TypeOK
  <2>8. \A a \in Addr : tag'[a] = TAG => a \in chain'
    BY <1>5, <2>1 DEF IInv, ChainOK, TAG
  <2>9. ChainOK'
    BY <2>6, <2>7, <2>8 DEF ChainOK
  <2>10. HeldOK'
    BY <1>2, <1>3, <1>4, <1>5, <2>1 DEF IInv, HeldOK, TypeOK
  <2>11. LocalsOK'
    <3>1. Pending => blk \in chain' /\ start \in chain'
      BY <1>7, <2>1, <2>2, <2>4 DEF IInv, LocalsOK
    <3>2. Pending => tag'[blk] = TAG
      BY <1>5, <2>2 DEF IInv, LocalsOK, TypeOK
    <3> QED BY <1>1, <1>2, <1>4, <1>5, <3>1, <3>2 DEF GcMerge, IInv, LocalsOK, Pending
  <2> QED BY <1>6, <2>9, <2>10, <2>11 DEF IInv
\* A stale start_blk changes no link of the list.
<1>8. CASE start \notin chain
  <2>1. chain' = chain /\ ~Pending /\ cur # start
    BY <1>2, <1>8 DEF GcMerge, IInv, LocalsOK
  <2>2. ChainOK'
    <3>1. \A a \in chain : a \in Addr /\ a # start
      BY <1>2, <1>8
    <3>2. \A a \in chain : Link(a)' = Link(a) /\ Size(a)' = Size(a)
      BY <1>4, <1>5, <2>1, <3>1 DEF Link, Size
    <3>3. \A a \in Addr : tag'[a] = TAG => a \in chain
      BY <1>5 DEF IInv, ChainOK, TAG
    <3> QED BY <2>1, <3>2, <3>3 DEF IInv, ChainOK
  <2>3. HeldOK'
    BY <1>2, <1>3, <1>4, <1>5, <1>8, <2>1 DEF IInv, HeldOK, TypeOK
  <2>4. LocalsOK'
    BY <1>2, <1>4, <1>5, <2>1 DEF GcMerge, LocalsOK, Pending
  <2> QED BY <1>6, <2>2, <2>3, <2>4 DEF IInv
<1> QED BY <1>7, <1>8

LEMMA GcReturnStep ==
  ASSUME IInv, GcReturn
  PROVE  IInv'
<1>1. want \in Nat /\ want = RoundUp(req)
  BY RoundUpCovers DEF IInv, TypeOK, want
<1>2. chain' = chain /\ tag' = tag /\ chain \in SUBSET Addr
  BY DEF GcReturn, Hand, Return, hdrs, IInv, TypeOK
<1>3. pc' = "idle" /\ ~Pending'
  BY DEF GcReturn, Hand, Return, Pending
<1>4. CASE ret = "malloc" /\ Hand(blk) /\ next' = [next EXCEPT ![blk] = start]
  <2>1. Pending /\ blk \in chain /\ blk \in Addr /\ tag[blk] = TAG
    BY <1>2, <1>4 DEF GcReturn, Pending, IInv, LocalsOK
  <2>2. TypeOK'
    <3>1. used' \in [Addr -> {0, 1}] /\ size' \in [Addr -> Int]
      BY <1>1, <1>4, <2>1 DEF Hand, IInv, TypeOK
    <3>2. next' \in [Addr -> Ptr] /\ asked' \in [Addr -> Nat]
      BY <1>4, <2>1 DEF Hand, IInv, TypeOK, Ptr
    <3>3. 0 \in Addr
      BY HeapAssumption DEF Addr, HDR
    <3> QED BY <1>4, <2>1, <3>1, <3>2, <3>3 DEF Hand, Return, IInv, TypeOK, Ptr
  <2>3. \A a \in chain : Link(a)' = Link(a) /\ Size(a)' = Size(a)
    <3>1. TAKE a \in chain
    <3>2. a \in Addr
      BY <1>2
    <3>3. CASE a = blk
      <4>1. next'[blk] = start /\ size'[blk] = want
        BY <1>4, <2>1 DEF Hand, IInv, TypeOK
      <4>2. Link(a)' = next'[a] /\ Size(a)' = size'[a]
        BY <1>3 DEF Link, Size
      <4> QED BY <2>1, <3>3, <4>1, <4>2 DEF Link, Size
    <3>4. CASE a # blk
      <4>1. next'[a] = next[a] /\ size'[a] = size[a]
        BY <1>4, <2>1, <3>2, <3>4 DEF Hand, IInv, TypeOK
      <4> QED BY <1>3, <3>4, <4>1 DEF Link, Size
    <3> QED BY <3>3, <3>4
  <2>4. ChainOK'
    BY <1>2, <2>3 DEF IInv, ChainOK
  <2>5. HeldOK'
    BY <1>1, <1>2, <1>4, <2>1 DEF Hand, IInv, TypeOK, HeldOK
  <2>6. LocalsOK'
    BY <1>3 DEF LocalsOK, Pending
  <2> QED BY <2>2, <2>4, <2>5, <2>6 DEF IInv
<1>5. CASE ret = "free" /\ Return /\ UNCHANGED <<hdrs, chain, held, asked>>
  <2>1. ~Pending
    BY <1>5 DEF Pending
  <2>2. TypeOK'
    BY <1>5, HeapAssumption DEF Return, IInv, TypeOK, hdrs, Addr, Ptr, END, HDR
  <2>3. ChainOK' /\ HeldOK'
    BY <1>3, <1>5, <2>1 DEF hdrs, IInv, ChainOK, HeldOK, Link, Size
  <2>4. LocalsOK'
    BY <1>3 DEF LocalsOK, Pending
  <2> QED BY <2>2, <2>3, <2>4 DEF IInv
<1> QED BY <1>4, <1>5 DEF GcReturn

\* What sys_free does once it has found where to start the merge.
LEMMA CollectStep ==
  ASSUME IInv, NEW b \in held, NEW from \in Addr, pc = "idle",
         from = b \/ from \notin held,
         next' \in [Addr -> Ptr], size' \in [Addr -> Int],
         \A a \in chain : next'[a] = next[a] /\ size'[a] = size[a],
         Collect(b, from)
  PROVE  IInv'
<1>1. chain \in SUBSET Addr /\ b \in Addr /\ b \in chain
  BY DEF IInv, TypeOK, HeldOK
<1>2. ~Pending /\ ~Pending' /\ chain' = chain /\ tag' = tag
  BY DEF Collect, Pending
<1>3. TypeOK'
  <2>1. used' \in [Addr -> {0, 1}] /\ asked' \in [Addr -> Nat]
    BY <1>1 DEF Collect, Drop, IInv, TypeOK
  <2>2. start' \in Addr /\ cur' \in Ptr
    BY DEF Collect
  <2> QED BY <2>1, <2>2 DEF Collect, Drop, IInv, TypeOK
<1>4. ChainOK'
  BY <1>2 DEF IInv, ChainOK, Link, Size
<1>5. HeldOK'
  BY <1>1, <1>2 DEF Collect, Drop, IInv, TypeOK, HeldOK
<1>6. LocalsOK'
  BY <1>2 DEF Collect, Drop, LocalsOK
<1> QED BY <1>3, <1>4, <1>5, <1>6 DEF IInv

LEMMA FreeStep ==
  ASSUME IInv, NEW b \in held, Free(b)
  PROVE  IInv'
<1>1. Origin(b) \in Addr /\ (Origin(b) = b \/ Origin(b) \notin held)
  BY DEF Origin, IInv, TypeOK, HeldOK, Ptr
<1> QED BY <1>1, CollectStep DEF Free, IInv, TypeOK

LEMMA FreeWildStep ==
  ASSUME IInv, NEW b \in held, FreeWild(b)
  PROVE  IInv'
<1>1. prev[b] \in Addr /\ size[prev[b]] = JUNK
  BY DEF FreeWild, IInv, TypeOK, Ptr
<1>2. prev[b] \notin chain
  BY <1>1 DEF FreeWild, IInv, ChainOK, LinkedBy, Link, Size, Pending, JUNK
<1>3. prev[b] \notin held
  BY <1>2 DEF IInv, HeldOK
<1>4. CASE UNCHANGED <<next, size>> /\ Collect(b, b)
  BY <1>4, CollectStep DEF FreeWild, IInv, TypeOK
<1>5. ASSUME NEW nx \in chain \cup {END},
             next' = [next EXCEPT ![prev[b]] = nx],
             size' = [size EXCEPT ![prev[b]] = 0],
             Collect(b, prev[b])
      PROVE  IInv'
  <2>1. next' \in [Addr -> Ptr] /\ size' \in [Addr -> Int]
    BY <1>1, <1>5 DEF IInv, TypeOK, Ptr
  <2>2. \A a \in chain : next'[a] = next[a] /\ size'[a] = size[a]
    BY <1>2, <1>5 DEF IInv, TypeOK
  <2> QED BY <1>1, <1>3, <1>5, <2>1, <2>2, CollectStep DEF FreeWild
<1> QED BY <1>4, <1>5 DEF FreeWild

\* A block's own bytes hold no header of the list, so storing there is safe.
LEMMA ClientWriteStep ==
  ASSUME IInv, NEW b \in held, ClientWrite(b)
  PROVE  IInv'
<1>1. chain \in SUBSET Addr /\ b \in chain /\ b \in Addr
  BY DEF IInv, TypeOK, HeldOK
<1>2. ~Pending /\ ~Pending' /\ chain' = chain /\ held' = held
      /\ asked' = asked /\ pc' = "idle"
  BY DEF ClientWrite, Pending
<1>3. /\ LinkedBy(b, next[b], size[b], chain)
      /\ size[b] \in Int /\ next[b] \in Ptr
  BY <1>1, <1>2 DEF IInv, ChainOK, Link, Size, TypeOK
<1>4. \A c \in chain : ~Inside(b, c)
  <2>1. \A c \in chain : b < c => b + HDR + size[b] <= c
    BY <1>1, <1>3, LinkApart
  <2> QED BY <1>1, <1>3, <2>1 DEF Inside, Addr, HDR
<1>5. \A c \in chain : /\ next'[c] = next[c] /\ size'[c] = size[c]
                       /\ used'[c] = used[c] /\ tag'[c] = tag[c]
  BY <1>1, <1>4 DEF ClientWrite, Wipe
<1>6. TypeOK'
  <2>1. tag' \in [Addr -> {0, TAG}] /\ used' \in [Addr -> {0, 1}]
    BY DEF ClientWrite, Wipe, IInv, TypeOK
  <2>2. next' \in [Addr -> Ptr] /\ prev' \in [Addr -> Ptr]
    BY DEF ClientWrite, Wipe, IInv, TypeOK, Ptr
  <2>3. size' \in [Addr -> Int]
    BY DEF ClientWrite, Wipe, IInv, TypeOK, JUNK
  <2> QED BY <2>1, <2>2, <2>3 DEF ClientWrite, IInv, TypeOK
<1>7. ChainOK'
  <2>1. \A a \in Addr : tag'[a] = TAG => a \in chain
    BY DEF ClientWrite, Wipe, IInv, ChainOK, TAG
  <2> QED BY <1>2, <1>5, <2>1 DEF IInv, ChainOK, Link, Size
<1>8. HeldOK'
  BY <1>2, <1>5 DEF IInv, HeldOK
<1>9. LocalsOK'
  BY <1>2 DEF LocalsOK, Pending
<1> QED BY <1>6, <1>7, <1>8, <1>9 DEF IInv

LEMMA NextIInv ==
  ASSUME IInv, [Next]_vars
  PROVE  IInv'
<1>1. CASE UNCHANGED vars
  BY <1>1 DEF vars, hdrs, IInv, TypeOK, ChainOK, HeldOK, LocalsOK, Link, Size,
     Pending, want
<1>2. CASE Next
  BY <1>2, MallocStep, WalkFailStep, WalkNextStep, WalkTakeStep,
     WalkSplitStep, GcMergeStep, GcReturnStep, FreeStep, FreeWildStep,
     ClientWriteStep DEF Next, Step, Client
<1> QED BY <1>1, <1>2

\* The allocator keeps IInv along every behaviour.
THEOREM Invariant == Spec => []IInv
  BY InitIInv, NextIInv, PTL DEF Spec

-----------------------------------------------------------------------------
(* What the invariant gives.                                                *)

\* Every variable of the allocator keeps its type, for every arena size.
THEOREM TypeCorrect == Spec => []TypeOK
<1>1. IInv => TypeOK
  BY DEF IInv
<1> QED BY <1>1, Invariant, PTL

\* Of two list headers, the lower one's block ends before the higher one.
LEMMA BlocksApart ==
  ASSUME IInv, NEW b \in chain
  PROVE  /\ b + HDR + Size(b) <= HeapUnits
         /\ \A c \in chain : b < c => b + HDR + Size(b) <= c
<1>1. LinkedBy(b, Link(b), Size(b), chain) /\ b \in Addr /\ chain \in SUBSET Addr
  BY DEF IInv, ChainOK, TypeOK
<1>2. Size(b) \in Int /\ Link(b) \in Ptr
  BY <1>1, RoundUpCovers DEF Size, Link, IInv, TypeOK, want, Ptr
<1> QED BY <1>1, <1>2, LinkApart

\* No two blocks that sys_malloc has handed out overlap, and none leaves the
\* arena, for every arena size and every set of requests.
THEOREM NoOverlap == Spec => []PayloadsDisjoint
<1>1. ASSUME IInv PROVE PayloadsDisjoint
  <2>1. SUFFICES ASSUME NEW b \in held
                 PROVE  /\ 16 * (b + HDR) + asked[b] <= 16 * HeapUnits
                        /\ \A c \in held : b < c => 16 * (b + HDR) + asked[b] <= 16 * c
    BY DEF PayloadsDisjoint
  <2>2. b \in chain /\ held \subseteq chain /\ b \in Addr /\ chain \subseteq Addr
    BY <1>1 DEF IInv, HeldOK, TypeOK
  <2>3. Size(b) = RoundUp(asked[b]) /\ asked[b] \in Nat
    BY <1>1, <2>2 DEF IInv, HeldOK, LocalsOK, TypeOK, Size
  <2>4. Size(b) \in Nat /\ 16 * Size(b) >= asked[b]
    BY <2>3, RoundUpCovers
  <2>5. /\ b + HDR + Size(b) <= HeapUnits
        /\ \A c \in held : b < c => b + HDR + Size(b) <= c
    BY <1>1, <2>2, BlocksApart
  <2> QED BY <2>2, <2>3, <2>4, <2>5, HeapAssumption DEF Addr, HDR
<1> QED BY <1>1, Invariant, PTL

\* sys_free accepts every block that a client holds.
THEOREM FreeNeverRefused == Spec => []FreeAccepted
<1>1. IInv => FreeAccepted
  BY DEF IInv, HeldOK, FreeAccepted
<1> QED BY <1>1, Invariant, PTL

\* No call changes the size or the used_cnt of a block that stays with its
\* client.
THEOREM HeldBlocksStable == Spec => HeldStable
<1>1. ASSUME IInv, IInv', [Next]_vars
      PROVE  [\A b \in held \cap held' :
                size'[b] = size[b] /\ used'[b] = 1 /\ used[b] = 1]_vars
  <2>1. \A b \in held \cap held' : used'[b] = 1 /\ used[b] = 1
    BY <1>1 DEF IInv, HeldOK
  <2>2. \A b \in held \cap held' : asked'[b] = asked[b] => size'[b] = size[b]
    BY <1>1 DEF IInv, HeldOK
  <2>3. ASSUME Next, NEW b \in held \cap held' PROVE asked'[b] = asked[b]
    <3>1. b \in Addr /\ asked \in [Addr -> Nat]
      BY <1>1 DEF IInv, TypeOK
    <3>2. CASE \E n \in Requests : Malloc(n)
      BY <3>2 DEF Malloc
    <3>3. CASE WalkFail \/ WalkNext \/ WalkSplit \/ GcMerge
      BY <3>3 DEF WalkFail, WalkNext, WalkSplit, GcMerge
    <3>4. CASE WalkTake
      <4>1. b # blk
        BY <1>1, <3>4 DEF WalkTake, Fits, IInv, HeldOK
      <4> QED BY <3>1, <3>4, <4>1 DEF WalkTake, Hand
    <3>5. CASE GcReturn
      <4>1. ret = "malloc" => b # blk
        BY <1>1, <3>5 DEF GcReturn, IInv, LocalsOK, Pending
      <4> QED BY <3>1, <3>5, <4>1 DEF GcReturn, Hand
    <3>6. CASE \E c \in held : Free(c) \/ FreeWild(c)
      BY <3>1, <3>6 DEF Free, FreeWild, Collect, Drop
    <3>7. CASE \E c \in held : ClientWrite(c)
      BY <3>7 DEF ClientWrite
    <3> QED BY <2>3, <3>2, <3>3, <3>4, <3>5, <3>6, <3>7 DEF Next, Step, Client
  <2> QED BY <1>1, <2>1, <2>2, <2>3
<1> QED BY <1>1, Invariant, PTL DEF Spec, HeldStable

-----------------------------------------------------------------------------
(* What sys_free leaves behind.  A header's prev may be stale, so that free  *)
(* neighbours stay apart in the middle of the list.  At its front they do    *)
(* not: the second header's prev is right as long as no tag has been lost,   *)
(* and with the first block free the second is in use.                       *)

\* A merge, or the split it is part of, works on the first block.
AtFront == pc = "gc" /\ (start = 0 \/ (ret = "malloc" /\ blk = 0))

PrevRight == Link(0) # END => prev[Link(0)] = 0
NextInUse == used[0] = 0 /\ Link(0) # END => AtFront \/ used[Link(0)] = 1

FrontOK ==
  /\ prev[0] = END
  /\ \A a \in chain : used[a] = 1 => a \in held
  /\ TagsIntact => PrevRight /\ NextInUse

\* The list goes upwards, and no two headers have the same successor.
LEMMA LinksUp ==
  ASSUME IInv, NEW a \in chain, Link(a) # END
  PROVE  /\ Link(a) \in chain /\ a < Link(a) /\ a \in Addr /\ Link(a) \in Addr
         /\ \A c \in chain : c <= a \/ c >= Link(a)
         /\ \A c \in chain : Link(c) = Link(a) => c = a
<1>1. LinkedBy(a, Link(a), Size(a), chain) /\ chain \subseteq Addr
  BY DEF IInv, ChainOK, TypeOK
<1>2. /\ Link(a) \in chain /\ a + HDR + Size(a) <= Link(a) /\ Size(a) >= 0
      /\ \A c \in chain : c <= a \/ c >= Link(a)
  BY <1>1 DEF LinkedBy
<1>3. a \in Addr /\ Link(a) \in Addr /\ Size(a) \in Int
  BY <1>1, <1>2, RoundUpCovers DEF Size, IInv, TypeOK, want
<1>4. a < Link(a)
  BY <1>2, <1>3 DEF Addr, HDR
<1>5. ASSUME NEW c \in chain, Link(c) = Link(a)
      PROVE  c = a
  <2>1. LinkedBy(c, Link(c), Size(c), chain) /\ c \in Addr
    BY <1>1 DEF IInv, ChainOK
  <2>2. /\ c + HDR + Size(c) <= Link(c) /\ Size(c) >= 0
        /\ \A d \in chain : d <= c \/ d >= Link(c)
    BY <1>5, <2>1 DEF LinkedBy
  <2>3. Size(c) \in Int
    BY <2>1, RoundUpCovers DEF Size, IInv, TypeOK, want
  <2>4. c < Link(a)
    BY <1>3, <1>5, <2>1, <2>2, <2>3 DEF Addr, HDR
  <2>5. c <= a /\ a <= c
    BY <1>2, <1>3, <1>4, <1>5, <2>1, <2>2, <2>4 DEF Addr
  <2> QED BY <1>3, <2>1, <2>5 DEF Addr
<1> QED BY <1>1, <1>2, <1>3, <1>4, <1>5

\* Nothing the front depends on changes.
LEMMA FrontKept ==
  ASSUME FrontOK, prev'[0] = prev[0], chain' = chain, held' = held,
         \A a \in chain : used'[a] = used[a] /\ prev'[a] = prev[a]
                          /\ tag'[a] = tag[a],
         Link(0)' = Link(0), Link(0) # END => Link(0) \in chain,
         0 \in chain, AtFront' = AtFront
  PROVE  FrontOK'
  BY DEF FrontOK, PrevRight, NextInUse, TagsIntact

LEMMA InitFront == Init => FrontOK
  BY HeapAssumption DEF Init, FrontOK, PrevRight, NextInUse, AtFront, Link,
     Pending, Addr, HDR, END

LEMMA LocalFront ==
  ASSUME IInv, FrontOK, (\E n \in Requests : Malloc(n)) \/ WalkFail \/ WalkNext
  PROVE  FrontOK'
<1>1. /\ UNCHANGED <<hdrs, chain, held>> /\ pc # "gc" /\ pc' # "gc"
  BY DEF Malloc, WalkFail, WalkNext, Return
<1>2. Link(0)' = Link(0) /\ AtFront' = AtFront
  BY <1>1 DEF hdrs, Link, Pending, AtFront
<1> QED BY <1>1, <1>2 DEF hdrs, FrontOK, PrevRight, NextInUse, TagsIntact

LEMMA WalkTakeFront ==
  ASSUME IInv, FrontOK, WalkTake
  PROVE  FrontOK'
<1>1. /\ blk \in chain /\ 0 \in chain /\ chain \subseteq Addr
      /\ used \in [Addr -> {0, 1}]
  BY DEF WalkTake, IInv, TypeOK, LocalsOK, ChainOK
<1>2. /\ chain' = chain /\ tag' = tag /\ prev' = prev /\ next' = next
      /\ pc # "gc" /\ pc' # "gc" /\ held' = held \cup {blk}
      /\ used' = [used EXCEPT ![blk] = 1]
  BY DEF WalkTake, Hand, Return
<1>3. Link(0)' = Link(0) /\ ~AtFront /\ ~AtFront'
  BY <1>2 DEF Link, Pending, AtFront
<1>4. \A a \in chain : used[a] = 1 => used'[a] = 1
  BY <1>1, <1>2
<1>5. \A a \in chain : used'[a] = 1 => a \in held'
  BY <1>1, <1>2 DEF FrontOK
<1>6. ASSUME TagsIntact', used'[0] = 0, Link(0) # END
      PROVE  used'[Link(0)] = 1
  <2>1. Link(0) \in chain
    BY <1>1, <1>6, LinksUp
  <2>2. used[0] = 0
    BY <1>1, <1>2, <1>6
  <2>3. TagsIntact
    BY <1>2, <1>6 DEF TagsIntact
  <2>4. used[Link(0)] = 1
    BY <1>3, <1>6, <2>2, <2>3 DEF FrontOK, NextInUse
  <2> QED BY <1>4, <2>1, <2>4
<1>7. TagsIntact' => PrevRight'
  BY <1>2, <1>3 DEF FrontOK, PrevRight, TagsIntact
<1> QED BY <1>2, <1>3, <1>5, <1>6, <1>7 DEF FrontOK, NextInUse

LEMMA WalkSplitFront ==
  ASSUME IInv, FrontOK, WalkSplit
  PROVE  FrontOK'
<1> DEFINE nb == blk + HDR + want
<1>1. want \in Nat
  BY RoundUpCovers DEF IInv, TypeOK, want
<1>2. /\ blk \in chain /\ blk \in Addr /\ chain \in SUBSET Addr /\ 0 \in chain
      /\ next[blk] \in Ptr /\ size[blk] \in Int
  BY DEF WalkSplit, IInv, TypeOK, LocalsOK, ChainOK
<1>3. LinkedBy(blk, next[blk], size[blk], chain) /\ size[blk] - want > 2 * HDR
  BY <1>2 DEF WalkSplit, IInv, ChainOK, Link, Size, Pending
<1>4. nb \in Addr /\ \A c \in chain : c < nb - 1 \/ c > nb + 1
  BY <1>1, <1>2, <1>3, LinkSplit
<1>5. \A c \in chain : /\ next'[c] = next[c] /\ prev'[c] = prev[c]
                       /\ used'[c] = used[c] /\ tag'[c] = tag[c]
  <2>1. \A c \in chain : c \in Addr /\ c # nb /\ c # nb - 1 /\ c # nb + 1
    BY <1>2, <1>4 DEF Addr
  <2> QED BY <2>1 DEF WalkSplit, Put
<1>6. /\ prev'[nb] = blk /\ used'[nb] = 0 /\ chain' = chain \cup {nb}
      /\ pc' = "gc" /\ ret' = "malloc" /\ blk' = blk /\ start' = nb
      /\ held' = held /\ pc = "walk"
  BY <1>4 DEF WalkSplit, Put
<1>7. prev'[0] = END /\ \A a \in chain' : used'[a] = 1 => a \in held'
  BY <1>2, <1>5, <1>6 DEF FrontOK
<1>8. TagsIntact' => TagsIntact
  BY <1>5, <1>6 DEF TagsIntact
<1>9. CASE blk = 0
  <2>1. Link(0)' = nb /\ AtFront'
    BY <1>6, <1>9 DEF Link, Pending, AtFront
  <2>2. prev'[nb] = 0
    BY <1>6, <1>9
  <2> QED BY <1>7, <2>1, <2>2 DEF FrontOK, PrevRight, NextInUse
<1>10. CASE blk # 0
  <2>1. Link(0)' = Link(0) /\ ~AtFront
    BY <1>2, <1>5, <1>6, <1>10 DEF Link, Pending, AtFront
  <2>2. Link(0) # END => Link(0) \in chain
    BY <1>2, LinksUp
  <2>3. TagsIntact' => PrevRight'
    BY <1>5, <1>8, <2>1, <2>2 DEF FrontOK, PrevRight
  <2>4. TagsIntact' => NextInUse'
    BY <1>2, <1>5, <1>8, <2>1, <2>2 DEF FrontOK, NextInUse
  <2> QED BY <1>7, <2>3, <2>4 DEF FrontOK
<1> QED BY <1>9, <1>10

LEMMA GcMergeFront ==
  ASSUME IInv, FrontOK, GcMerge
  PROVE  FrontOK'
<1>1. /\ start \in Addr /\ cur \in chain /\ cur \in Addr /\ cur = next[start]
      /\ used[cur] = 0 /\ tag[cur] = TAG /\ chain \in SUBSET Addr /\ 0 \in chain
      /\ cur # END
  BY DEF GcMerge, Mergeable, IInv, TypeOK, LocalsOK, ChainOK, Ptr
<1>2. /\ pc = "gc" /\ pc' = "gc" /\ ret' = ret /\ blk' = blk /\ start' = start
      /\ held' = held /\ used' = used /\ AtFront' = AtFront /\ Pending' = Pending
  BY DEF GcMerge, AtFront, Pending
<1>3. /\ \A a \in Addr : a # start => next'[a] = next[a]
      /\ next'[start] = next[cur]
      /\ \A a \in Addr : a # next[cur] => prev'[a] = prev[a]
      /\ next[cur] # END => prev'[next[cur]] = start
      /\ next[cur] \in Ptr /\ END \notin Addr
  BY <1>1 DEF GcMerge, IInv, TypeOK, Ptr, Addr, END
<1>4. Pending => start > blk /\ start \in chain /\ start # blk /\ blk \in Addr
  <2>1. want \in Nat
    BY RoundUpCovers DEF IInv, TypeOK, want
  <2>2. Pending => blk \in Addr /\ start \in chain /\ start = blk + HDR + want
    BY <1>1 DEF IInv, LocalsOK
  <2> QED BY <2>1, <2>2 DEF Addr, HDR
<1>5. start \in chain => Link(start) = cur /\ start < cur
  BY <1>1, <1>4, LinksUp DEF Link
<1>6. Link(cur) = next[cur]
  <2>1. Pending => cur # blk
    BY <1>1, <1>4, <1>5 DEF Addr
  <2> QED BY <2>1 DEF Link
<1>7. next[cur] # END => /\ next[cur] \in chain /\ next[cur] > cur
                         /\ \A c \in chain : Link(c) = next[cur] => c = cur
  BY <1>1, <1>6, LinksUp
<1>8. next[cur] # 0 /\ (cur # 0 => prev'[0] = END)
  BY <1>1, <1>3, <1>7 DEF FrontOK, Addr
<1>9. prev'[0] = END
  BY <1>1, <1>3, <1>8 DEF FrontOK
<1>10. \A a \in chain' : a \in chain /\ (used'[a] = 1 => a \in held')
  BY <1>2 DEF GcMerge, FrontOK
\* A start_blk off the list takes a tag of the list with it.
<1>11. CASE start \notin chain
  <2>1. chain' = chain /\ tag'[cur] = 0
    BY <1>1, <1>11 DEF GcMerge, IInv, TypeOK
  <2>2. ~TagsIntact'
    BY <1>1, <2>1 DEF TagsIntact, TAG
  <2> QED BY <1>9, <1>10, <2>2 DEF FrontOK
<1>12. CASE start \in chain
  <2>1. chain' = chain \ {cur} /\ \A a \in Addr : a # cur => tag'[a] = tag[a]
    BY <1>1, <1>12 DEF GcMerge, IInv, TypeOK
  <2>2. TagsIntact' => TagsIntact
    BY <1>1, <2>1 DEF TagsIntact
  <2>3. cur # 0
    BY <1>1, <1>5, <1>12 DEF Addr
  <2>4. CASE start = 0
    <3>1. Link(0)' = next[cur] /\ AtFront'
      <4>1. Pending => blk # 0
        BY <1>4, <2>4
      <4>2. Link(0)' = next'[0]
        BY <1>2, <4>1 DEF Link
      <4> QED BY <1>2, <1>3, <2>4, <4>2 DEF AtFront
    <3>2. PrevRight' /\ NextInUse'
      BY <1>3, <2>4, <3>1 DEF PrevRight, NextInUse
    <3> QED BY <1>9, <1>10, <3>2 DEF FrontOK
  <2>5. CASE start # 0
    <3>1. Link(0)' = Link(0)
      BY <1>1, <1>2, <1>3, <2>5 DEF Link
    <3>2. Link(0) # END => Link(0) # next[cur] /\ Link(0) \in chain
      BY <1>1, <1>7, <2>3, LinksUp
    <3>3. Link(0) # END => prev'[Link(0)] = prev[Link(0)]
      BY <1>1, <1>3, <3>2
    <3>4. TagsIntact' => PrevRight' /\ NextInUse'
      BY <1>2, <2>2, <3>1, <3>3 DEF FrontOK, PrevRight, NextInUse
    <3> QED BY <1>9, <1>10, <3>4 DEF FrontOK
  <2> QED BY <2>4, <2>5
<1> QED BY <1>11, <1>12

LEMMA GcReturnFront ==
  ASSUME IInv, FrontOK, GcReturn
  PROVE  FrontOK'
<1>1. /\ chain \in SUBSET Addr /\ 0 \in chain /\ used \in [Addr -> {0, 1}]
      /\ next \in [Addr -> Ptr] /\ cur = next[start] /\ start \in Addr
  BY DEF GcReturn, IInv, TypeOK, ChainOK, LocalsOK
<1>2. /\ chain' = chain /\ tag' = tag /\ prev' = prev /\ pc = "gc"
      /\ pc' = "idle" /\ ~Pending' /\ ~AtFront' /\ (TagsIntact' = TagsIntact)
  BY DEF GcReturn, Hand, Return, hdrs, Pending, AtFront, TagsIntact
\* The loop has stopped at END or at a block in use.
<1>3. ASSUME TagsIntact, start = 0, ~Pending, Link(0) # END
      PROVE  used[Link(0)] = 1
  <2>1. Link(0) = cur /\ cur \in chain /\ cur \in Addr
    BY <1>1, <1>3, LinksUp DEF Link
  <2>2. tag[cur] = TAG /\ ~Mergeable(cur)
    BY <1>3, <2>1 DEF TagsIntact, GcReturn, GcStops
  <2> QED BY <1>1, <2>1, <2>2 DEF Mergeable
<1>4. CASE ret = "malloc" /\ Hand(blk) /\ next' = [next EXCEPT ![blk] = start]
  <2>1. Pending /\ blk \in chain /\ blk \in Addr
    BY <1>1, <1>4 DEF GcReturn, Pending, IInv, LocalsOK
  <2>2. used' = [used EXCEPT ![blk] = 1] /\ held' = held \cup {blk}
    BY <1>4 DEF Hand
  <2>3. Link(0)' = Link(0)
    BY <1>1, <1>2, <1>4, <2>1 DEF Link
  <2>4. \A a \in chain : used'[a] = 1 => a \in held'
    BY <1>1, <2>2 DEF FrontOK
  <2>5. ASSUME TagsIntact, used'[0] = 0, Link(0) # END
        PROVE  used'[Link(0)] = 1
    <3>1. blk # 0 /\ used[0] = 0
      BY <1>1, <2>1, <2>2, <2>5
    <3>2. start # 0
      BY <2>1, RoundUpCovers DEF IInv, LocalsOK, TypeOK, Addr, HDR, want
    <3>3. ~AtFront
      BY <3>1, <3>2 DEF AtFront
    <3>4. used[Link(0)] = 1 /\ Link(0) \in Addr
      BY <1>1, <2>5, <3>1, <3>3, LinksUp DEF FrontOK, NextInUse
    <3> QED BY <1>1, <2>2, <3>4
  <2> QED BY <1>2, <2>3, <2>4, <2>5 DEF FrontOK, PrevRight, NextInUse
<1>5. CASE ret = "free" /\ Return /\ UNCHANGED <<hdrs, chain, held, asked>>
  <2>1. ~Pending /\ used' = used /\ next' = next /\ held' = held
    BY <1>5 DEF Pending, hdrs
  <2>2. Link(0)' = Link(0)
    BY <1>2, <2>1 DEF Link
  <2>3. ASSUME TagsIntact, used[0] = 0, Link(0) # END
        PROVE  used[Link(0)] = 1
    <3>1. CASE start = 0
      BY <1>3, <2>1, <2>3, <3>1
    <3>2. CASE start # 0
      BY <1>5, <2>3, <3>2 DEF FrontOK, NextInUse, AtFront
    <3> QED BY <3>1, <3>2
  <2> QED BY <1>2, <2>1, <2>2, <2>3 DEF FrontOK, PrevRight, NextInUse
<1> QED BY <1>4, <1>5 DEF GcReturn

\* sys_free of a block whose merge starts at the first block if it should.
LEMMA CollectFront ==
  ASSUME IInv, FrontOK, NEW b \in held, NEW from, pc = "idle",
         \A a \in chain : next'[a] = next[a],
         b = 0 => from = 0,
         TagsIntact /\ Link(0) = b /\ used[0] = 0 => from = 0,
         Collect(b, from)
  PROVE  FrontOK'
<1>1. /\ chain \in SUBSET Addr /\ b \in chain /\ 0 \in chain
      /\ used \in [Addr -> {0, 1}]
  BY DEF IInv, TypeOK, HeldOK, ChainOK
<1>2. /\ chain' = chain /\ tag' = tag /\ prev' = prev /\ pc' = "gc"
      /\ ret' = "free" /\ start' = from /\ used' = [used EXCEPT ![b] = 0]
      /\ held' = held \ {b} /\ ~Pending /\ ~Pending' /\ ~AtFront
  BY DEF Collect, Drop, Pending, AtFront
<1>3. Link(0)' = Link(0) /\ (AtFront' <=> from = 0) /\ TagsIntact' = TagsIntact
  BY <1>1, <1>2 DEF Link, AtFront, TagsIntact
<1>4. \A a \in chain : used'[a] = 1 => a \in held'
  BY <1>1, <1>2 DEF FrontOK
<1>5. ASSUME TagsIntact, used'[0] = 0, Link(0) # END, from # 0
      PROVE  used'[Link(0)] = 1
  <2>1. b # 0 /\ used[0] = 0
    BY <1>1, <1>2, <1>5
  <2>2. used[Link(0)] = 1 /\ Link(0) \in Addr /\ Link(0) # b
    BY <1>1, <1>2, <1>5, <2>1, LinksUp DEF FrontOK, NextInUse
  <2> QED BY <1>1, <1>2, <2>2
<1> QED BY <1>2, <1>3, <1>4, <1>5 DEF FrontOK, PrevRight, NextInUse

LEMMA FreeFront ==
  ASSUME IInv, FrontOK, NEW b \in held, Free(b)
  PROVE  FrontOK'
<1>1. b = 0 => Origin(b) = 0
  BY DEF Origin, FrontOK
<1>2. TagsIntact /\ Link(0) = b /\ used[0] = 0 => Origin(b) = 0
  <2>1. b # END /\ 0 # END
    BY DEF IInv, TypeOK, Addr, END
  <2> QED BY <2>1 DEF Origin, FrontOK, PrevRight
<1> QED BY <1>1, <1>2, CollectFront DEF Free

LEMMA FreeWildFront ==
  ASSUME IInv, FrontOK, NEW b \in held, FreeWild(b)
  PROVE  FrontOK'
<1>1. /\ prev[b] \in Addr /\ size[prev[b]] = JUNK /\ b \in Addr /\ prev[b] # END
      /\ chain \subseteq Addr
  BY DEF FreeWild, IInv, TypeOK, Ptr
<1>2. prev[b] \notin chain
  BY <1>1 DEF FreeWild, IInv, ChainOK, LinkedBy, Link, Size, Pending, JUNK
<1>3. b # 0 /\ ~(TagsIntact /\ Link(0) = b /\ used[0] = 0)
  <2>1. 0 \in chain /\ b # END
    BY <1>1 DEF IInv, ChainOK, Addr, END
  <2> QED BY <1>1, <1>2, <2>1 DEF FrontOK, PrevRight
<1>4. CASE UNCHANGED <<next, size>> /\ Collect(b, b)
  BY <1>3, <1>4, CollectFront DEF FreeWild
<1>5. ASSUME NEW nx \in chain \cup {END},
             next' = [next EXCEPT ![prev[b]] = nx],
             Collect(b, prev[b])
      PROVE  FrontOK'
  <2>1. \A a \in chain : next'[a] = next[a]
    BY <1>1, <1>2, <1>5 DEF IInv, TypeOK
  <2> QED BY <1>3, <1>5, <2>1, CollectFront DEF FreeWild
<1> QED BY <1>4, <1>5 DEF FreeWild

LEMMA ClientWriteFront ==
  ASSUME IInv, FrontOK, NEW b \in held, ClientWrite(b)
  PROVE  FrontOK'
<1>1. chain \in SUBSET Addr /\ b \in chain /\ b \in Addr /\ 0 \in chain
  BY DEF IInv, TypeOK, HeldOK, ChainOK
<1>2. /\ chain' = chain /\ held' = held /\ pc = "idle" /\ pc' = "idle"
      /\ ~Pending /\ ~Pending'
  BY DEF ClientWrite, Pending
<1>3. LinkedBy(b, next[b], size[b], chain) /\ size[b] \in Int /\ next[b] \in Ptr
  BY <1>1, <1>2 DEF IInv, ChainOK, Link, Size, TypeOK
<1>4. \A c \in chain : ~Inside(b, c)
  <2>1. \A c \in chain : b < c => b + HDR + size[b] <= c
    BY <1>1, <1>3, LinkApart
  <2> QED BY <1>1, <1>3, <2>1 DEF Inside, Addr, HDR
<1>5. \A c \in chain : /\ next'[c] = next[c] /\ prev'[c] = prev[c]
                       /\ used'[c] = used[c] /\ tag'[c] = tag[c]
  BY <1>1, <1>4 DEF ClientWrite, Wipe
<1>6. Link(0)' = Link(0) /\ AtFront' = AtFront
  BY <1>1, <1>2, <1>5 DEF Link, AtFront
<1>7. Link(0) # END => Link(0) \in chain
  BY <1>1, LinksUp
<1> QED BY <1>1, <1>2, <1>5, <1>6, <1>7, FrontKept

LEMMA NextFront ==
  ASSUME IInv, FrontOK, [Next]_vars
  PROVE  FrontOK'
<1>1. CASE UNCHANGED vars
  BY <1>1 DEF vars, hdrs, FrontOK, PrevRight, NextInUse, AtFront, TagsIntact,
     Link, Pending
<1>2. CASE Next
  BY <1>2, LocalFront, WalkTakeFront, WalkSplitFront, GcMergeFront,
     GcReturnFront, FreeFront, FreeWildFront, ClientWriteFront
     DEF Next, Step, Client
<1> QED BY <1>1, <1>2

\* When clients have freed everything and no tag has been lost, sys_free has
\* merged the whole list into one block, for every arena size, every set of
\* requests and in whatever order blocks were freed.
THEOREM AlwaysCoalesced == Spec => []Coalesced
<1>1. ASSUME IInv, FrontOK PROVE Coalesced
  <2>1. SUFFICES ASSUME pc = "idle", held = {}, TagsIntact
                 PROVE  chain = {0}
    BY DEF Coalesced
  <2>2. /\ 0 \in chain /\ chain \subseteq Addr /\ used \in [Addr -> {0, 1}]
        /\ ~AtFront /\ Link(0) = next[0] /\ Size(0) = size[0]
    BY <1>1, <2>1 DEF IInv, ChainOK, TypeOK, AtFront, Link, Size, Pending
  <2>3. \A a \in chain : used[a] = 0
    BY <1>1, <2>1, <2>2 DEF FrontOK
  <2>4. Link(0) = END
    BY <1>1, <2>1, <2>2, <2>3, LinksUp DEF FrontOK, NextInUse
  <2>5. END \notin chain /\ LinkedBy(0, END, Size(0), chain)
    BY <1>1, <2>2, <2>4 DEF IInv, ChainOK, Addr, END
  <2>6. \A c \in chain : c <= 0
    BY <2>5 DEF LinkedBy
  <2>7. \A c \in chain : c = 0
    BY <2>2, <2>6 DEF Addr
  <2> QED BY <2>2, <2>7
<1> QED BY <1>1, InitFront, NextFront, InitIInv, NextIInv, PTL DEF Spec
-----------------------------------------------------------------------------
(* The units the list accounts for                                          *)

\* f[c] units for each c of C.
Units(C, f) == UNION {{c} \X (1 .. f[c]) : c \in C}

LEMMA UnitsSame ==
  ASSUME NEW C, NEW f, NEW g, \A c \in C : f[c] = g[c]
  PROVE  Units(C, f) = Units(C, g)
BY DEF Units

LEMMA UnitsFinite ==
  ASSUME NEW C, IsFiniteSet(C), NEW K \in Nat, NEW f, \A c \in C : f[c] \in 0 .. K
  PROVE  IsFiniteSet(Units(C, f))
<1>1. IsFiniteSet(1 .. K)
  BY FS_Interval
<1>2. IsFiniteSet(C \X (1 .. K))
  BY <1>1, FS_Product
<1>3. Units(C, f) \subseteq C \X (1 .. K)
  BY DEF Units
<1> QED BY <1>2, <1>3, FS_Subset

LEMMA UnitsOfOne ==
  ASSUME NEW x, NEW n \in Nat
  PROVE  IsFiniteSet({x} \X (1 .. n)) /\ Cardinality({x} \X (1 .. n)) = n
<1>1. IsFiniteSet({x}) /\ Cardinality({x}) = 1
  BY FS_Singleton
<1>2. IsFiniteSet(1 .. n) /\ Cardinality(1 .. n) = n
  BY FS_Interval
<1>3. PICK S, T : S = {x} /\ T = 1 .. n
  OBVIOUS
<1>4. IsFiniteSet(S \X T) /\ Cardinality(S \X T) = Cardinality(S) * Cardinality(T)
  BY <1>1, <1>2, <1>3, FS_Product
<1>5. Cardinality(S) = 1 /\ Cardinality(T) = n
  BY <1>1, <1>2, <1>3
<1> QED BY <1>3, <1>4, <1>5

LEMMA UnitsAdd ==
  ASSUME NEW C, IsFiniteSet(C), NEW K \in Nat, NEW f, NEW x, x \notin C,
         \A c \in C : f[c] \in 0 .. K, f[x] \in 0 .. K
  PROVE  /\ Cardinality(Units(C, f)) \in Nat
         /\ Cardinality(Units(C \cup {x}, f)) = Cardinality(Units(C, f)) + f[x]
<1>1. PICK U, V : U = Units(C, f) /\ V = {x} \X (1 .. f[x])
  OBVIOUS
<1>2. IsFiniteSet(U) /\ IsFiniteSet(V) /\ Cardinality(V) = f[x]
  <2>1. f[x] \in Nat
    OBVIOUS
  <2>2. IsFiniteSet(V) /\ Cardinality(V) = f[x]
    BY <1>1, <2>1, UnitsOfOne
  <2>3. IsFiniteSet(U)
    BY <1>1, UnitsFinite
  <2> QED BY <2>2, <2>3
<1>3. Units(C \cup {x}, f) = U \cup V
  BY <1>1 DEF Units
<1>4. U \cap V = {}
  BY <1>1 DEF Units
<1>5. Cardinality(U) \in Nat
  BY <1>2, FS_CardinalityType
<1>6. Cardinality(U \cup V) = Cardinality(U) + Cardinality(V) - Cardinality(U \cap V)
  BY <1>2, FS_Union
<1>7. Cardinality(U \cap V) = 0
  BY <1>4, FS_EmptySet
<1>8. f[x] \in Nat
  OBVIOUS
<1>9. Cardinality(U \cup V) = Cardinality(U) + f[x]
  BY <1>2, <1>5, <1>6, <1>7, <1>8
<1> QED BY <1>1, <1>3, <1>5, <1>9

\* One header's units become fewer.
LEMMA Shrunk ==
  ASSUME NEW C, IsFiniteSet(C), NEW K \in Nat, NEW f, NEW g, NEW b \in C,
         \A c \in C : f[c] \in 0 .. K /\ g[c] \in 0 .. K,
         \A c \in C : c # b => g[c] = f[c], g[b] <= f[b]
  PROVE  Cardinality(Units(C, g)) <= Cardinality(Units(C, f))
<1>1. PICK R : R = C \ {b}
  OBVIOUS
<1>2. IsFiniteSet(R) /\ C = R \cup {b} /\ b \notin R
  BY <1>1, FS_RemoveElement
<1>3. Units(R, g) = Units(R, f)
  BY <1>1, UnitsSame
<1>4. /\ Cardinality(Units(R, f)) \in Nat
      /\ Cardinality(Units(C, f)) = Cardinality(Units(R, f)) + f[b]
  BY <1>1, <1>2, UnitsAdd
<1>5. Cardinality(Units(C, g)) = Cardinality(Units(R, g)) + g[b]
  BY <1>1, <1>2, UnitsAdd
<1>6. f[b] \in Nat /\ g[b] \in Nat
  OBVIOUS
<1> QED BY <1>3, <1>4, <1>5, <1>6

\* One header's units become those of two.
LEMMA Divided ==
  ASSUME NEW C, IsFiniteSet(C), NEW K \in Nat, NEW f, NEW g, NEW b \in C, NEW n, n \notin C,
         \A c \in C : f[c] \in 0 .. K /\ g[c] \in 0 .. K, g[n] \in 0 .. K,
         \A c \in C : c # b => g[c] = f[c], g[b] + g[n] = f[b]
  PROVE  Cardinality(Units(C \cup {n}, g)) = Cardinality(Units(C, f))
<1>1. PICK R : R = C \ {b}
  OBVIOUS
<1>2. IsFiniteSet(R) /\ C = R \cup {b} /\ b \notin R
  BY <1>1, FS_RemoveElement
<1>3. Units(R, g) = Units(R, f)
  BY <1>1, UnitsSame
<1>4. /\ Cardinality(Units(R, f)) \in Nat
      /\ Cardinality(Units(C, f)) = Cardinality(Units(R, f)) + f[b]
  BY <1>1, <1>2, UnitsAdd
<1>5. Cardinality(Units(C, g)) = Cardinality(Units(R, g)) + g[b]
  BY <1>1, <1>2, UnitsAdd
<1>6. Cardinality(Units(C \cup {n}, g)) = Cardinality(Units(C, g)) + g[n]
  BY UnitsAdd
<1>7. f[b] \in Nat /\ g[b] \in Nat /\ g[n] \in Nat
  OBVIOUS
<1> QED BY <1>3, <1>4, <1>5, <1>6, <1>7

Sizes == [a \in Addr |-> HDR + Size(a)]

SizesOK ==
  /\ Accounted = Units(chain, Sizes) /\ IsFiniteSet(chain)
  /\ \A a \in chain : Sizes[a] \in 0 .. HeapUnits /\ Sizes[a] = HDR + Size(a)

LEMMA AccountedIs == IInv => SizesOK
<1> SUFFICES ASSUME IInv PROVE SizesOK
  OBVIOUS
<1>1. chain \subseteq Addr /\ HeapUnits \in Nat
  BY HeapAssumption DEF IInv, TypeOK
<1>2. \A a \in chain : Sizes[a] = HDR + Size(a)
  BY <1>1 DEF Sizes
<1>3. IsFiniteSet(Addr)
  BY <1>1, FS_Interval DEF Addr
<1>4. IsFiniteSet(chain)
  BY <1>1, <1>3, FS_Subset
<1>5. Accounted = Units(chain, Sizes)
  BY <1>2 DEF Accounted, Units
<1>6. ASSUME NEW a \in chain PROVE HDR + Size(a) \in 0 .. HeapUnits
  <2>1. LinkedBy(a, Link(a), Size(a), chain) /\ a \in Addr
    BY <1>1 DEF IInv, ChainOK
  <2>2. Size(a) \in Int
    BY <2>1, RoundUpCovers DEF Size, IInv, TypeOK, want
  <2>3. Size(a) >= 0 /\ a + HDR + Size(a) <= HeapUnits
    BY <2>1, BlocksApart DEF LinkedBy
  <2> QED BY <1>1, <2>1, <2>2, <2>3 DEF Addr, HDR
<1> QED BY <1>2, <1>4, <1>5, <1>6 DEF SizesOK

\* A step that changes no header on the list.
LEMMA AccountedKept ==
  ASSUME IInv, chain' = chain, \A a \in chain : Size(a)' = Size(a)
  PROVE  Cardinality(Accounted') <= Cardinality(Accounted)
<1>1. Accounted' = Accounted
  BY DEF Accounted
<1>2. IsFiniteSet(Accounted)
  BY AccountedIs, UnitsFinite, HeapAssumption DEF SizesOK
<1>3. Cardinality(Accounted) \in Nat
  BY <1>2, FS_CardinalityType
<1> QED BY <1>1, <1>3


LEMMA AccountedNext == IInv' => SizesOK'
  BY AccountedIs, PTL

\* A block handed out whole keeps as much as was asked for.
LEMMA WalkTakeUnits ==
  ASSUME IInv, IInv', WalkTake
  PROVE  Cardinality(Accounted') <= Cardinality(Accounted)
<1>1. want \in Nat /\ want = RoundUp(req)
  BY RoundUpCovers DEF IInv, TypeOK, want
<1>2. blk \in chain /\ blk \in Addr /\ chain \in SUBSET Addr /\ chain' = chain
  BY DEF WalkTake, Hand, IInv, TypeOK, LocalsOK
<1>3. ~Pending /\ ~Pending'
  BY DEF WalkTake, Hand, Return, Pending
<1>4. \A a \in chain : a # blk => size'[a] = size[a]
  BY <1>2 DEF WalkTake, Hand, IInv, TypeOK
<1>5. size'[blk] <= size[blk]
  BY <1>1, <1>2 DEF WalkTake, Hand, Fits, IInv, TypeOK
<1>6. \A a \in chain : Size(a) = size[a] /\ Size(a)' = size'[a]
  BY <1>3 DEF Size
<1>7. /\ Accounted = Units(chain, Sizes) /\ IsFiniteSet(chain)
      /\ \A a \in chain : Sizes[a] \in 0 .. HeapUnits /\ Sizes[a] = HDR + size[a]
  BY <1>6, AccountedIs DEF SizesOK
<1>8. /\ Accounted' = Units(chain, Sizes')
      /\ \A a \in chain : Sizes'[a] \in 0 .. HeapUnits /\ Sizes'[a] = HDR + size'[a]
  BY <1>2, <1>6, AccountedNext DEF SizesOK
<1>9. size[blk] \in Int /\ size'[blk] \in Int
  BY <1>2 DEF IInv, TypeOK
<1>10. Sizes'[blk] <= Sizes[blk] /\ \A a \in chain : a # blk => Sizes'[a] = Sizes[a]
  BY <1>2, <1>4, <1>5, <1>7, <1>8, <1>9 DEF HDR
<1>11. HeapUnits \in Nat
  BY HeapAssumption
<1>12. PICK f, g : f = Sizes /\ g = Sizes'
  OBVIOUS
<1>13. Cardinality(Units(chain, g)) <= Cardinality(Units(chain, f))
  BY <1>2, <1>7, <1>8, <1>10, <1>11, <1>12, Shrunk
<1> QED BY <1>7, <1>8, <1>12, <1>13

\* A split makes two blocks of one.
LEMMA WalkSplitUnits ==
  ASSUME IInv, IInv', WalkSplit
  PROVE  Cardinality(Accounted') <= Cardinality(Accounted)
<1> DEFINE nb == blk + HDR + want
<1>1. want \in Nat /\ want' = want
  BY RoundUpCovers DEF WalkSplit, IInv, TypeOK, want
<1>2. blk \in chain /\ blk \in Addr /\ chain \in SUBSET Addr
  BY DEF WalkSplit, IInv, TypeOK, LocalsOK
<1>3. \A a \in chain : /\ LinkedBy(a, next[a], size[a], chain)
                       /\ next[a] \in Ptr /\ size[a] \in Int /\ a \in Addr
  BY <1>2 DEF WalkSplit, IInv, TypeOK, ChainOK, Link, Size, Pending
<1>4. /\ nb \in Addr
      /\ \A c \in chain : c < nb - 1 \/ c > nb + 1
  BY <1>1, <1>2, <1>3, LinkSplit DEF WalkSplit
<1>5. \A c \in chain : c \in Addr /\ c # nb /\ c # nb - 1 /\ c # nb + 1
  BY <1>2, <1>4 DEF Addr
<1>6. \A c \in chain : size'[c] = size[c]
  BY <1>5 DEF WalkSplit, Put
<1>7. /\ size'[nb] = size[blk] - want - HDR /\ chain' = chain \cup {nb}
      /\ ~Pending /\ Pending' /\ blk' = blk
  BY <1>4 DEF WalkSplit, Put, Pending
<1>8. nb # blk /\ nb \notin chain
  BY <1>2, <1>5
<1>9. /\ \A a \in chain : Size(a) = size[a] /\ (a # blk => Size(a)' = size[a])
      /\ \A a : a = blk => Size(a)' = want
      /\ \A a : a = nb => Size(a)' = size[blk] - want - HDR
  BY <1>1, <1>6, <1>7, <1>8 DEF Size
<1>10. /\ Accounted = Units(chain, Sizes) /\ IsFiniteSet(chain)
       /\ \A a \in chain : Sizes[a] \in 0 .. HeapUnits /\ Sizes[a] = HDR + size[a]
  BY <1>9, AccountedIs DEF SizesOK
<1>11. /\ Accounted' = Units(chain \cup {nb}, Sizes')
       /\ \A a \in chain \cup {nb} : /\ Sizes'[a] \in 0 .. HeapUnits
                                     /\ Sizes'[a] = HDR + Size(a)'
  BY <1>7, AccountedNext DEF SizesOK
<1>12. Sizes'[blk] + Sizes'[nb] = Sizes[blk]
  <2>1. Sizes'[blk] = HDR + want /\ Sizes[blk] = HDR + size[blk]
    BY <1>2, <1>9, <1>10, <1>11
  <2>2. Sizes'[nb] = HDR + (size[blk] - want - HDR)
    BY <1>9, <1>11
  <2>3. size[blk] \in Int
    BY <1>2, <1>3
  <2> QED BY <1>1, <2>1, <2>2, <2>3 DEF HDR
<1>13. \A a \in chain : a # blk => Sizes'[a] = Sizes[a]
  BY <1>9, <1>10, <1>11
<1>14. HeapUnits \in Nat
  BY HeapAssumption
<1>15. PICK f, g, n : f = Sizes /\ g = Sizes' /\ n = nb
  OBVIOUS
<1>16. Cardinality(Units(chain \cup {n}, g)) = Cardinality(Units(chain, f))
  BY <1>2, <1>8, <1>10, <1>11, <1>12, <1>13, <1>14, <1>15, Divided
<1>17. Cardinality(Units(chain, f)) \in Nat
  BY <1>10, <1>14, <1>15, UnitsFinite, FS_CardinalityType
<1> QED BY <1>10, <1>11, <1>15, <1>16, <1>17

\* A merge makes one block of two, and gives up no unit for the header.
LEMMA GcMergeUnits ==
  ASSUME IInv, IInv', GcMerge
  PROVE  Cardinality(Accounted') <= Cardinality(Accounted)
<1>1. want' = want /\ want \in Nat
  BY RoundUpCovers DEF GcMerge, IInv, TypeOK, want
<1>2. /\ start \in Addr /\ cur \in chain /\ cur \in Addr /\ cur = next[start]
      /\ chain \in SUBSET Addr
  BY DEF GcMerge, Mergeable, IInv, TypeOK, LocalsOK, ChainOK, Ptr
<1>3. /\ Pending' = Pending /\ blk' = blk
      /\ \A a \in Addr : a # start => size'[a] = size[a]
      /\ size'[start] = size[start] + size[cur] + HDR
  BY <1>2 DEF GcMerge, MergedSize, Pending, IInv, TypeOK
<1>4. CASE start \notin chain
  <2>1. chain' = chain
    BY <1>4 DEF GcMerge
  <2>2. \A a \in chain : Size(a)' = Size(a)
    BY <1>1, <1>2, <1>3, <1>4 DEF Size
  <2> QED BY <2>1, <2>2, AccountedKept
<1>5. CASE start \in chain
  <2>1. chain' = chain \ {cur}
    BY <1>5 DEF GcMerge
  <2>2. Pending => start # blk /\ cur # blk
    BY <1>5, MergeClear
  <2>3. LinkedBy(start, cur, size[start], chain)
    BY <1>2, <1>5, <2>2 DEF IInv, ChainOK, Link, Size
  <2>4. cur # start /\ size[start] \in Int /\ size[cur] \in Int
    BY <1>2, <2>3 DEF LinkedBy, Addr, HDR, END, IInv, TypeOK
  <2>5. Size(start) = size[start] /\ Size(cur) = size[cur]
    BY <2>2 DEF Size
  <2>6. \A a : a = start => Size(a)' = size[start] + size[cur] + HDR
    BY <1>3, <2>2 DEF Size
  <2>7. \A a \in chain' : a # start => Size(a)' = Size(a)
    BY <1>1, <1>2, <1>3, <2>1 DEF Size
  <2>8. /\ Accounted = Units(chain, Sizes) /\ IsFiniteSet(chain)
        /\ \A a \in chain : Sizes[a] \in 0 .. HeapUnits /\ Sizes[a] = HDR + Size(a)
    BY AccountedIs DEF SizesOK
  <2>9. /\ Accounted' = Units(chain', Sizes') /\ IsFiniteSet(chain')
        /\ \A a \in chain' : Sizes'[a] \in 0 .. HeapUnits /\ Sizes'[a] = HDR + Size(a)'
    BY AccountedNext DEF SizesOK
  <2>10. start \in chain' /\ cur \notin chain' /\ chain = chain' \cup {cur}
    BY <1>2, <1>5, <2>1, <2>4
  <2>11. Sizes[start] + Sizes[cur] = Sizes'[start]
    <3>1. Sizes[start] = HDR + size[start] /\ Sizes[cur] = HDR + size[cur]
      BY <1>2, <1>5, <2>5, <2>8
    <3>2. Sizes'[start] = HDR + (size[start] + size[cur] + HDR)
      BY <2>6, <2>9, <2>10
    <3> QED BY <2>4, <3>1, <3>2 DEF HDR
  <2>12. \A a \in chain' : /\ a # start => Sizes[a] = Sizes'[a]
                           /\ Sizes[a] \in 0 .. HeapUnits
    BY <2>7, <2>8, <2>9, <2>10
  <2>13. HeapUnits \in Nat /\ Sizes[cur] \in 0 .. HeapUnits
    BY <1>2, <2>8, HeapAssumption
  <2>14. PICK f, g, s, c, D : f = Sizes /\ g = Sizes' /\ s = start /\ c = cur /\ D = chain'
    OBVIOUS
  <2>15. Cardinality(Units(D \cup {c}, f)) = Cardinality(Units(D, g))
    BY <2>9, <2>10, <2>11, <2>12, <2>13, <2>14, Divided
  <2>16. Cardinality(Units(D, g)) \in Nat
    BY <2>9, <2>13, <2>14, UnitsFinite, FS_CardinalityType
  <2> QED BY <2>8, <2>9, <2>10, <2>14, <2>15, <2>16
<1> QED BY <1>4, <1>5

\* The split block's size is written down.
LEMMA GcReturnUnits ==
  ASSUME IInv, GcReturn
  PROVE  Cardinality(Accounted') <= Cardinality(Accounted)
<1>1. chain' = chain /\ chain \in SUBSET Addr /\ ~Pending'
  BY DEF GcReturn, Hand, Return, Pending, hdrs, IInv, TypeOK
<1>2. CASE ret = "malloc" /\ Hand(blk)
  <2>1. Pending /\ blk \in Addr
    BY <1>1, <1>2 DEF GcReturn, Pending, IInv, LocalsOK
  <2>2. /\ size'[blk] = want
        /\ \A a \in Addr : a # blk => size'[a] = size[a]
    BY <1>2, <2>1 DEF Hand, IInv, TypeOK
  <2>3. \A a \in chain : Size(a)' = Size(a)
    BY <1>1, <2>1, <2>2 DEF Size
  <2> QED BY <1>1, <2>3, AccountedKept
<1>3. CASE ret = "free" /\ size' = size
  BY <1>1, <1>3, AccountedKept DEF Size, Pending
<1> QED BY <1>2, <1>3 DEF GcReturn, hdrs

\* sys_free begins: only used_cnt changes on the list.
LEMMA FreeUnits ==
  ASSUME IInv, NEW b \in held, Free(b) \/ FreeWild(b)
  PROVE  Cardinality(Accounted') <= Cardinality(Accounted)
<1>1. chain' = chain /\ ~Pending /\ ~Pending'
  BY DEF Free, FreeWild, Collect, Pending
<1>2. \A a \in chain : size'[a] = size[a]
  <2>1. CASE size' = size
    BY <2>1
  <2>2. CASE /\ prev[b] # END /\ size[prev[b]] = JUNK
             /\ size' = [size EXCEPT ![prev[b]] = 0]
    <3>1. prev[b] \notin chain
      BY <1>1, <2>2 DEF IInv, ChainOK, LinkedBy, Link, Size, JUNK
    <3> QED BY <2>2, <3>1 DEF IInv, TypeOK
  <2> QED BY <2>1, <2>2 DEF Free, FreeWild
<1> QED BY <1>1, <1>2, AccountedKept DEF Size

\* A client's own bytes hold no header of the list.
LEMMA ClientWriteUnits ==
  ASSUME IInv, NEW b \in held, ClientWrite(b)
  PROVE  Cardinality(Accounted') <= Cardinality(Accounted)
<1>1. chain' = chain /\ ~Pending /\ ~Pending'
  BY DEF ClientWrite, Pending
<1>2. chain \in SUBSET Addr /\ b \in chain /\ size[b] \in Int
  BY DEF IInv, TypeOK, HeldOK
<1>3. \A c \in chain : b < c => b + HDR + size[b] <= c
  BY <1>1, <1>2, BlocksApart DEF Size
<1>4. \A c \in chain : ~Inside(b, c)
  BY <1>2, <1>3 DEF Inside, Addr, HDR
<1>5. \A c \in chain : size'[c] = size[c]
  BY <1>2, <1>4 DEF ClientWrite, Wipe
<1> QED BY <1>1, <1>5, AccountedKept DEF Size

\* Steps that change no header.
LEMMA WalkUnits ==
  ASSUME IInv, (\E n \in Requests : Malloc(n)) \/ WalkFail \/ WalkNext \/ UNCHANGED vars
  PROVE  Cardinality(Accounted') <= Cardinality(Accounted)
<1>1. chain' = chain /\ size' = size
  BY DEF Malloc, WalkFail, WalkNext, vars, hdrs
<1>2. (~Pending /\ ~Pending') \/ UNCHANGED <<pc, ret, blk, req>>
  BY DEF Malloc, WalkFail, WalkNext, Return, vars, Pending
<1>3. \A a \in chain : Size(a)' = Size(a)
  BY <1>1, <1>2 DEF Size, Pending, want
<1> QED BY <1>1, <1>3, AccountedKept

\* The units that a block loses when it is handed out without a split never
\* come back: no call of sys_malloc or sys_free, and no store of a client,
\* makes the list account for more than it did, for every arena size.
THEOREM SpaceNeverRegained == Spec => NothingRegained
<1>1. ASSUME IInv, IInv', [Next]_vars
      PROVE  Cardinality(Accounted') <= Cardinality(Accounted)
  BY <1>1, WalkUnits, WalkTakeUnits, WalkSplitUnits, GcMergeUnits, GcReturnUnits,
     FreeUnits, ClientWriteUnits DEF Next, Step, Client
<1>2. ASSUME IInv, IInv', [Next]_vars
      PROVE  [Cardinality(Accounted') <= Cardinality(Accounted)]_vars
  BY <1>1, <1>2
<1> QED BY <1>2, Invariant, PTL DEF Spec, NothingRegained
=============================================================================
