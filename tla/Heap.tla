-------------------------------- MODULE Heap --------------------------------
(***************************************************************************)
(* The boot loader's heap, src/sys/sys_malloc.c: one arena, cut into blocks *)
(* that each start with a 32-byte header and are chained by address.        *)
(* sys_malloc takes the first free block that is large enough and splits    *)
(* it; sys_free marks a block free and merges it with free neighbours in    *)
(* sys_mem_garbage_collect.                                                 *)
(*                                                                         *)
(* Addresses and sizes are counted in units of 16 bytes, the alignment of   *)
(* every block, as offsets from start_ptr.  The arena is one function per   *)
(* header field: tag[a], next[a], prev[a], size[a] and used[a] are what the *)
(* bytes at a hold, read as a header; size[a] = JUNK where they are not one *)
(* (or no longer).  Every loop iteration is a step of its own.              *)
(***************************************************************************)
EXTENDS Integers, FiniteSets

CONSTANTS
  HeapUnits,     \* total_size, in 16-byte units
  Requests,      \* the byte counts clients ask for
  ClientsStore   \* whether clients store into the blocks they hold

HDR == 2                     \* sizeof(SYS_MEM_BLK_T) = 32 bytes
END == -1                    \* SYS_MEM_END_PTR
TAG == 1                     \* SYS_MEM_TAG; anything else counts as 0

ASSUME HeapAssumption ==
  /\ HeapUnits \in Nat /\ HeapUnits > HDR
  /\ Requests \subseteq Nat
  /\ ClientsStore \in BOOLEAN

Addr == 0 .. HeapUnits - 1
Ptr  == Addr \cup {END}

JUNK == -1                   \* the size of bytes that are not a header

VARIABLES
  tag,     \* SYS_MEM_BLK_T.tag
  next,    \* SYS_MEM_BLK_T.next
  prev,    \* SYS_MEM_BLK_T.prev
  size,    \* SYS_MEM_BLK_T.size, in units
  used,    \* SYS_MEM_BLK_T.used_cnt
  chain,   \* history: the headers that the list from start_ptr goes through
  held,    \* the blocks clients have been given and have not freed
  asked,   \* the bytes a client asked for when it was given a block
  pc,      \* "idle", "walk" (loop of sys_malloc) or "gc" (garbage_collect)
  ret,     \* whom sys_mem_garbage_collect returns to: "malloc" or "free"
  req,     \* the argument of sys_malloc
  blk,     \* blk in sys_malloc
  start,   \* start_blk in sys_mem_garbage_collect
  cur      \* blk in sys_mem_garbage_collect

hdrs == <<tag, next, prev, size, used>>
vars == <<hdrs, chain, held, asked, pc, ret, req, blk, start, cur>>

RoundUp_Floor(bytes) == bytes \div 16

\* (size + 15) & ~15, in units.
RoundUp(bytes) == (bytes + 15) \div 16

want == RoundUp(req)

-----------------------------------------------------------------------------
(* sys_init_memory: one free block that spans the arena.                    *)
Init ==
  /\ tag  = [a \in Addr |-> IF a = 0 THEN TAG ELSE 0]
  /\ next = [a \in Addr |-> END]
  /\ prev = [a \in Addr |-> END]
  /\ size = [a \in Addr |-> IF a = 0 THEN HeapUnits - HDR ELSE JUNK]
  /\ used = [a \in Addr |-> 0]
  /\ chain = {0}
  /\ held = {}
  /\ asked = [a \in Addr |-> 0]
  /\ pc = "idle" /\ ret = "free" /\ req = 0
  /\ blk = 0 /\ start = 0 /\ cur = END

-----------------------------------------------------------------------------
(* sys_malloc                                                               *)

Malloc(bytes) ==
  /\ pc = "idle"
  /\ pc' = "walk"
  /\ req' = bytes
  /\ blk' = 0
  /\ UNCHANGED <<hdrs, chain, held, asked, ret, start, cur>>

Fits_Used(b) == size[b] >= want

Fits(b) == used[b] = 0 /\ size[b] >= want

\* The locals go out of scope when the caller gets its answer.
Return ==
  /\ pc' = "idle" /\ ret' = "free" /\ req' = 0
  /\ blk' = 0 /\ start' = 0 /\ cur' = END

\* The loop runs off the list, or meets a header without its tag: NULL.
WalkFail ==
  /\ pc = "walk"
  /\ blk # END => tag[blk] # TAG
  /\ Return
  /\ UNCHANGED <<hdrs, chain, held, asked>>

WalkNext_Wrap ==
  /\ pc = "walk" /\ blk # END
  /\ tag[blk] = TAG /\ ~Fits(blk)
  /\ blk' = IF next[blk] = END THEN 0 ELSE next[blk]
  /\ UNCHANGED <<hdrs, chain, held, asked, pc, ret, req, start, cur>>

WalkNext ==
  /\ pc = "walk" /\ blk # END
  /\ tag[blk] = TAG /\ ~Fits(blk)
  /\ blk' = next[blk]
  /\ UNCHANGED <<hdrs, chain, held, asked, pc, ret, req, start, cur>>

\* blk->used_cnt++, blk->size = size, and the block is the client's.
Hand(b) ==
  /\ used' = [used EXCEPT ![b] = 1]
  /\ size' = [size EXCEPT ![b] = want]
  /\ held' = held \cup {b}
  /\ asked' = [asked EXCEPT ![b] = req]
  /\ Return
  /\ UNCHANGED <<tag, prev, chain>>

\* The rest is too small to split off.
WalkTake ==
  /\ pc = "walk" /\ blk # END
  /\ tag[blk] = TAG /\ Fits(blk)
  /\ size[blk] - want <= 2 * HDR
  /\ Hand(blk)
  /\ UNCHANGED next

\* Writing a header at w destroys an old one that overlapped its two units.
Put(f, w, v, junk) ==
  [a \in Addr |-> IF a = w THEN v
                  ELSE IF a = w - 1 \/ a = w + 1 THEN junk ELSE f[a]]

NewNext == next[blk]         \* new_blk->next

\* The tail becomes a block, is merged with what follows it, and only then
\* linked behind blk (GcReturn).
WalkSplit ==
  /\ pc = "walk" /\ blk # END
  /\ tag[blk] = TAG /\ Fits(blk)
  /\ size[blk] - want > 2 * HDR
  /\ LET nb == blk + HDR + want IN
       /\ tag'  = Put(tag, nb, TAG, 0)
       /\ next' = Put(next, nb, NewNext, END)
       /\ prev' = Put(prev, nb, blk, END)
       /\ size' = Put(size, nb, size[blk] - want - HDR, JUNK)
       /\ used' = Put(used, nb, 0, 0)
       /\ chain' = chain \cup {nb}
       /\ start' = nb
  /\ cur' = NewNext
  /\ pc' = "gc" /\ ret' = "malloc"
  /\ UNCHANGED <<held, asked, req, blk>>

-----------------------------------------------------------------------------
(* sys_mem_garbage_collect                                                  *)

MergedSize_NextHeaderToo(s, c) == size[s] + size[c] + 2 * HDR

MergedSize(s, c) == size[s] + size[c] + HDR

Mergeable_Used(c) == tag[c] = TAG

Mergeable(c) == tag[c] = TAG /\ used[c] = 0

GcMerge ==
  /\ pc = "gc" /\ cur # END /\ Mergeable(cur)
  /\ size' = [size EXCEPT ![start] = MergedSize(start, cur)]
  /\ next' = [next EXCEPT ![start] = next[cur]]
  /\ tag'  = [tag EXCEPT ![cur] = 0]
  /\ prev' = IF next[cur] = END THEN prev
                                ELSE [prev EXCEPT ![next[cur]] = start]
  /\ cur'  = next[cur]
  /\ chain' = IF start \in chain THEN chain \ {cur} ELSE chain
  /\ UNCHANGED <<used, held, asked, pc, ret, req, blk, start>>

\* The loop ends at END, at a header without its tag or at a used block.
GcStops == cur # END => ~Mergeable(cur)

GcReturn ==
  /\ pc = "gc" /\ GcStops
  /\ \/ /\ ret = "malloc"
        /\ next' = [next EXCEPT ![blk] = start]
        /\ Hand(blk)
     \/ /\ ret = "free"
        /\ Return
        /\ UNCHANGED <<hdrs, chain, held, asked>>

-----------------------------------------------------------------------------
(* sys_free.  A client frees what it holds, once.  The exit for a header     *)
(* without its tag is never taken for such a block (FreeAccepted).           *)

Drop(b) ==
  /\ held' = held \ {b}
  /\ asked' = [asked EXCEPT ![b] = 0]

\* used_cnt = 0, then sys_mem_garbage_collect(from).
Collect(b, from) ==
  /\ used' = [used EXCEPT ![b] = 0]
  /\ Drop(b)
  /\ start' = from /\ cur' = next'[from]
  /\ pc' = "gc" /\ ret' = "free"
  /\ UNCHANGED <<tag, prev, chain, req, blk>>

Origin_Self(b) == b

\* The merge starts from prev when prev reads as free, else from the block.
Origin(b) == IF prev[b] # END /\ used[prev[b]] = 0 THEN prev[b] ELSE b

Free(b) ==
  /\ pc = "idle" /\ b \in held /\ tag[b] = TAG
  /\ prev[b] # END => size[prev[b]] # JUNK
  /\ UNCHANGED <<next, size>>
  /\ Collect(b, Origin(b))

\* prev addresses bytes a client has overwritten: they read as used, or as a
\* free header with any next pointer (one that is no live header ends the
\* loop as END does).
FreeWild(b) ==
  /\ pc = "idle" /\ b \in held /\ tag[b] = TAG
  /\ prev[b] # END /\ size[prev[b]] = JUNK
  /\ \/ UNCHANGED <<next, size>> /\ Collect(b, b)
     \/ /\ \E nx \in chain \cup {END} : next' = [next EXCEPT ![prev[b]] = nx]
        /\ size' = [size EXCEPT ![prev[b]] = 0]
        /\ Collect(b, prev[b])

\* A client stores into its block: old headers inside it are gone.
Inside(b, a) == b + 1 < a /\ a < b + HDR + size[b]

Wipe(f, b, junk) == [a \in Addr |-> IF Inside(b, a) THEN junk ELSE f[a]]

ClientWrite(b) ==
  /\ ClientsStore /\ pc = "idle" /\ b \in held
  /\ \E a \in Addr : Inside(b, a) /\ size[a] # JUNK
  /\ tag'  = Wipe(tag, b, 0)
  /\ next' = Wipe(next, b, END)
  /\ prev' = Wipe(prev, b, END)
  /\ size' = Wipe(size, b, JUNK)
  /\ used' = Wipe(used, b, 0)
  /\ UNCHANGED <<chain, held, asked, pc, ret, req, blk, start, cur>>

-----------------------------------------------------------------------------
\* The allocator's own loops, which run to their end once entered.
Step == WalkFail \/ WalkNext \/ WalkTake \/ WalkSplit \/ GcMerge \/ GcReturn

Client(b) == Free(b) \/ FreeWild(b) \/ ClientWrite(b)

Next ==
  \/ \E n \in Requests : Malloc(n)
  \/ Step
  \/ \E b \in held : Client(b)

Spec     == Init /\ [][Next]_vars
FairSpec == Spec /\ WF_vars(Step)

-----------------------------------------------------------------------------
(* Properties                                                               *)

\* Every variable keeps its type.
TypeOK ==
  /\ tag \in [Addr -> {0, TAG}] /\ used \in [Addr -> {0, 1}]
  /\ next \in [Addr -> Ptr] /\ prev \in [Addr -> Ptr]
  /\ size \in [Addr -> Int]
  /\ chain \subseteq Addr /\ held \subseteq Addr
  /\ asked \in [Addr -> Nat]
  /\ pc \in {"idle", "walk", "gc"} /\ ret \in {"malloc", "free"}
  /\ req \in Nat
  /\ blk \in Ptr /\ start \in Addr /\ cur \in Ptr

\* The bytes a client asked sys_malloc for, with the header in front of them,
\* lie in the arena and in nobody else's block: whatever sequence of
\* sys_malloc and sys_free led here, and whatever stale prev pointers it left.
PayloadsDisjoint ==
  \A b \in held :
    /\ 16 * (b + HDR) + asked[b] <= 16 * HeapUnits
    /\ \A c \in held : b < c => 16 * (b + HDR) + asked[b] <= 16 * c

\* A block that stays with its client keeps its size and its used_cnt through
\* every sys_malloc, sys_free and merge around it.
HeldStable ==
  [][\A b \in held \cap held' :
       size'[b] = size[b] /\ used'[b] = 1 /\ used[b] = 1]_vars

\* sys_free never refuses a block that a client holds: its tag is there.
FreeAccepted == \A b \in held : tag[b] = TAG

\* Every header on the list carries SYS_MEM_TAG, so that no caller meets
\* "Memory corrupt!" (sys_malloc.c:99-102).
TagsIntact == \A b \in chain : tag[b] = TAG

\* When clients have freed everything, the free list is one block again,
\* unless a tag has been lost.
Coalesced == pc = "idle" /\ held = {} /\ TagsIntact => chain = {0}

\* A split is in progress: blk's next and size are not yet written.
Pending == pc = "gc" /\ ret = "malloc"

Size(a) == IF Pending /\ a = blk THEN want ELSE size[a]

\* The units the list accounts for, each with its header: the header's own and
\* those its size names.
Accounted == UNION {{a} \X (1 .. HDR + Size(a)) : a \in chain}

\* Units that a block loses when it is handed out without a split (its size
\* is cut to the request, sys_malloc.c:122) never come back: no call makes
\* the list account for more than it did.
NothingRegained == [][Cardinality(Accounted') <= Cardinality(Accounted)]_vars

\* Every call of sys_malloc and sys_free returns: no list it walks is cyclic.
CallsReturn == pc # "idle" ~> pc = "idle"
=============================================================================
