----------------------------- MODULE NandProof ------------------------------
(***************************************************************************)
(* Images in NAND flash: flash_nand_program writes only into the area it    *)
(* was called for and erases no bad-block mark, and what it has written is   *)
(* what flash_read_buf brings back, for every layout of the flash.          *)
(***************************************************************************)
EXTENDS Nand, FiniteSetTheorems, TLAPS

-----------------------------------------------------------------------------
(* Blocks passed and blocks used                                            *)

\* Where block b starts.
At(b) == b * BlockUnits

\* The blocks of the chip from the start of area a up to block b, without b.
Before(a, b) == {c \in Blocks : BlockOf(Base[a]) <= c /\ c < b}

\* How many of them have no mark.
Rank(a, b) == Cardinality(Before(a, b) \ marked)

\* A call of flash_nand_program is at the start of a block, in the pages of
\* one, or through.
Working == op.pc \in {"block", "pages"}

Calls == [pc : {"block", "pages", "return"}, a : Area, addr : Nat, data : Nat,
          done : Nat, stat : Nat, tries : Nat]
Reads == [pc : {"read", "done"}, a : Area, addr : Nat, at : Nat, len : Nat,
          asked : Nat, stat : Nat]

CallOK ==
  /\ env \in Setups
  /\ ver \in [Area -> Nat] /\ result \in [Area -> {"none", "ok", "failed"}]
  /\ op \in Calls \cup {Idle} /\ rd \in Reads \cup {Idle}
  /\ op = Idle \/ rd = Idle
  /\ Working =>
       /\ op.addr = At(BlockOf(op.addr)) /\ BlockOf(Base[op.a]) <= BlockOf(op.addr)
       /\ op.data = At(BlockOf(op.data)) /\ op.data < Img[op.a]
  /\ op.pc = "block" => op.done = 0
  /\ op.pc = "pages" => op.done \in 0 .. Size - 1 /\ BlockOf(op.addr) \notin marked

\* The blocks passed that are not bad are no more than the data fill.
Frugal ==
  Working =>
    Cardinality(Before(op.a, BlockOf(op.addr)) \ (marked \cup worn)) <= BlockOf(op.data)

\* Every area has blocks to spare, and marks are kept or none was due.
Usual == (\A a \in Area : Spared(a)) /\ (env.indirect \/ announced = {})

\* Unit k of the image of area a is in block b, the one a reader finds.
Found(a, k, b) ==
  /\ b \in Of(a) \ marked /\ Rank(a, b) = BlockOf(k)
  /\ flash[At(b) + (k % BlockUnits)] = <<a, ver[a], k>>

\* The data before op.data are in the blocks passed, the pages done in the
\* present one.
Progress ==
  /\ Working =>
       /\ Rank(op.a, BlockOf(op.addr)) = BlockOf(op.data)
       /\ \A k \in 0 .. op.data - 1 :
            \E b \in Before(op.a, BlockOf(op.addr)) : Found(op.a, k, b)
       /\ \A i \in 0 .. op.done - 1 :
            flash[op.addr + i] = <<op.a, ver[op.a], op.data + i>>
  /\ op.pc = "return" => \A k \in 0 .. Img[op.a] - 1 : \E b \in Blocks : Found(op.a, k, b)
  /\ op # Idle => result[op.a] = "none"
  /\ \A a \in Area : result[a] = "ok" =>
       \A k \in 0 .. Img[a] - 1 : \E b \in Blocks : Found(a, k, b)

\* The reader is where the unit it reads next is, or at a bad block before it.
Regular == rd.asked % PageUnits = 0 \/ rd.asked < PageUnits

ReadAt ==
  /\ rd.asked \in 1 .. Img[rd.a] /\ rd.len \in 1 .. rd.asked
  /\ rd.at = rd.asked - rd.len
  /\ rd.at % PageUnits = 0
  /\ rd.asked < PageUnits => rd.at = 0
  /\ rd.addr % PageUnits = 0 /\ rd.addr % BlockUnits = rd.at % BlockUnits
  /\ BlockOf(Base[rd.a]) <= BlockOf(rd.addr)
  /\ Rank(rd.a, BlockOf(rd.addr)) = BlockOf(rd.at)
  /\ rd.addr % BlockUnits # 0 => BlockOf(rd.addr) \notin marked
  /\ \A k \in 0 .. rd.at - 1 : buf[k] = <<rd.a, ver[rd.a], k>>

Reading == rd.pc = "read" /\ Regular /\ result[rd.a] = "ok" => ReadAt

NandInv ==
  /\ CallOK /\ Frugal
  /\ Usual => Progress /\ Reading /\ LoadedIsImage
-----------------------------------------------------------------------------
(* Addresses                                                                *)

LEMMA Dims ==
  /\ BlockUnits \in Nat \ {0} /\ PageUnits \in Nat \ {0} /\ BlockPages \in Nat \ {0}
  /\ NBlocks \in Nat \ {0} /\ BlockUnits = BlockPages * PageUnits
  /\ PageUnits < BlockUnits
<1>1. PICK p \in Nat \ {0}, n \in Nat \ {0} : p = PageUnits /\ n = BlockPages /\ n > 1
  BY NandAssumption
<1>2. n * p \in Nat \ {0}
  BY <1>1
<1>3. n * p > p
  <2>1. n - 1 \in Nat \ {0} /\ n * p = (n - 1) * p + p
    BY <1>1
  <2>2. (n - 1) * p > 0
    BY <2>1
  <2> QED
    BY <1>2, <2>1, <2>2
<1> QED
  BY <1>1, <1>2, <1>3, NandAssumption DEF BlockUnits

\* An address is a block and a place in it.
LEMMA Split ==
  ASSUME NEW x \in Nat
  PROVE  /\ BlockOf(x) \in Nat /\ x % BlockUnits \in 0 .. BlockUnits - 1 /\ x % BlockUnits \in Nat
         /\ At(BlockOf(x)) \in Nat /\ x = At(BlockOf(x)) + (x % BlockUnits)
<1>1. PICK u \in Nat \ {0} : u = BlockUnits
  BY Dims
<1>2. /\ x \div u \in Nat /\ x % u \in 0 .. u - 1 /\ x = u * (x \div u) + (x % u)
  BY <1>1
<1>3. u * (x \div u) = (x \div u) * u /\ (x \div u) * u \in Nat
  BY <1>1, <1>2
<1> QED
  BY <1>1, <1>2, <1>3 DEF BlockOf, At

LEMMA Division ==
  ASSUME NEW u \in Nat \ {0}, NEW x \in Nat
  PROVE  \E q \in Nat, r \in 0 .. u - 1 : q = x \div u /\ r = x % u /\ x = u * q + r
  OBVIOUS

LEMMA Quotient ==
  ASSUME NEW u \in Nat \ {0}, NEW b \in Nat, NEW r \in 0 .. u - 1, NEW x \in Nat,
         x = b * u + r
  PROVE  x \div u = b /\ x % u = r
<1>1. x = u * (x \div u) + (x % u) /\ x \div u \in Nat /\ x % u \in 0 .. u - 1
  OBVIOUS
<1>2. PICK q \in Nat, s \in 0 .. u - 1 : q = x \div u /\ s = x % u
  BY <1>1
<1>3. u * (b - q) = s - r
  <2>1. u * (b - q) = b * u - u * q /\ b * u \in Nat /\ u * q \in Nat
    BY <1>2
  <2> QED
    BY <1>1, <1>2, <2>1
<1>4. b - q = 0
  <2>1. CASE b - q >= 1
    <3>1. u * (b - q) >= u
      BY <1>2, <2>1
    <3> QED
      BY <1>2, <1>3, <3>1
  <2>2. CASE b - q <= -1
    <3>1. u * (b - q) <= -u
      BY <1>2, <2>2
    <3> QED
      BY <1>2, <1>3, <3>1
  <2> QED
    BY <1>2, <2>1, <2>2
<1> QED
  BY <1>1, <1>2, <1>3, <1>4

LEMMA Join ==
  ASSUME NEW b \in Nat, NEW r \in 0 .. BlockUnits - 1
  PROVE  /\ At(b) \in Nat /\ At(b) + r \in Nat
         /\ BlockOf(At(b) + r) = b /\ (At(b) + r) % BlockUnits = r
<1>1. PICK u \in Nat \ {0} : u = BlockUnits
  BY Dims
<1>2. b * u \in Nat /\ b * u + r \in Nat
  BY <1>1
<1>3. PICK x \in Nat : x = b * u + r
  BY <1>2
<1>4. x \div u = b /\ x % u = r
  BY <1>1, <1>3, Quotient
<1> QED
  BY <1>1, <1>2, <1>3, <1>4 DEF BlockOf, At

LEMMA AtNext ==
  ASSUME NEW b \in Nat
  PROVE  /\ At(b) \in Nat /\ At(0) = 0 /\ At(b + 1) = At(b) + BlockUnits
         /\ BlockOf(At(b)) = b /\ At(b) % BlockUnits = 0
<1>1. PICK u \in Nat \ {0} : u = BlockUnits
  BY Dims
<1>2. b * u \in Nat /\ (b + 1) * u = b * u + u /\ 0 * u = 0
  BY <1>1
<1>3. 0 \in 0 .. BlockUnits - 1
  BY <1>1
<1>4. /\ BlockOf(At(b) + 0) = b /\ (At(b) + 0) % BlockUnits = 0 /\ At(b) \in Nat
  BY <1>3, Join
<1>5. At(b) + 0 = At(b)
  BY <1>4
<1> QED
  BY <1>1, <1>2, <1>4, <1>5 DEF At

LEMMA AtOrder ==
  ASSUME NEW b \in Nat, NEW c \in Nat
  PROVE  /\ b < c => At(b) + BlockUnits <= At(c)
         /\ b <= c <=> At(b) <= At(c)
<1>1. PICK u \in Nat \ {0} : u = BlockUnits
  BY Dims
<1>2. ASSUME NEW d \in Nat, NEW e \in Nat, d < e PROVE d * u + u <= e * u
  <2>1. PICK n \in Nat : e = d + 1 + n
    <3>1. e - d - 1 \in Nat /\ e = d + 1 + (e - d - 1)
      BY <1>2
    <3> QED
      BY <3>1
  <2>2. e * u = d * u + u + n * u /\ n * u \in Nat /\ d * u \in Nat
    BY <1>1, <2>1
  <2> QED
    BY <1>1, <2>2
<1>3. b * u \in Nat /\ c * u \in Nat
  BY <1>1
<1>4. b < c => b * u + u <= c * u
  BY <1>2
<1>5. c < b => c * u + u <= b * u
  BY <1>2
<1> QED
  BY <1>1, <1>3, <1>4, <1>5 DEF At

\* The block of an address from two bounds.
LEMMA BlockBounds ==
  ASSUME NEW x \in Nat, NEW b \in Nat
  PROVE  /\ At(b) <= x /\ x < At(b) + BlockUnits => BlockOf(x) = b
         /\ At(b) <= x => b <= BlockOf(x)
<1>1. BlockUnits \in Nat \ {0} /\ At(b) \in Nat
  BY Dims, AtNext
<1>2. /\ BlockOf(x) \in Nat /\ At(BlockOf(x)) <= x /\ x < At(BlockOf(x)) + BlockUnits
      /\ At(BlockOf(x)) \in Nat
  <2>1. PICK r \in 0 .. BlockUnits - 1 :
          BlockOf(x) \in Nat /\ At(BlockOf(x)) \in Nat /\ x = At(BlockOf(x)) + r
    BY Split
  <2> QED
    BY <1>1, <2>1
<1>3. BlockOf(x) < b => At(BlockOf(x)) + BlockUnits <= At(b)
  BY <1>2, AtOrder
<1>4. b < BlockOf(x) => At(b) + BlockUnits <= At(BlockOf(x))
  BY <1>2, AtOrder
<1> QED
  BY <1>1, <1>2, <1>3, <1>4

\* A page lies in one block.
LEMMA PageInBlock ==
  ASSUME NEW x \in Nat, NEW y \in Nat, PageOf(x) = PageOf(y)
  PROVE  BlockOf(x) = BlockOf(y)
<1>1. PICK p \in Nat \ {0}, n \in Nat \ {0} :
        p = PageUnits /\ n = BlockPages /\ BlockUnits = n * p
  BY Dims
<1>2. ASSUME NEW z \in Nat PROVE (z \div p) \div n = z \div (n * p)
  <2>1. PICK q \in Nat, s \in 0 .. p - 1 : q = z \div p /\ z = p * q + s
    BY <1>1, <1>2, Division
  <2>2. PICK c \in Nat, t \in 0 .. n - 1 : c = q \div n /\ q = n * c + t
    <3>1. q \in Nat /\ n \in Nat \ {0}
      BY <1>1, <2>1
    <3> QED
      BY <3>1, Division, Zenon
  <2>3. PICK u \in Nat \ {0} : u = n * p
    BY <1>1
  <2>4. PICK r \in Int : r = p * t + s
    BY <1>1, <2>1, <2>2
  <2>5. z = c * u + r
    <3>3. PICK m \in Nat : m = n * c
      BY <1>1, <2>2
    <3>4. p * (m + t) = p * m + p * t
      BY <1>1, <2>2, <3>3
    <3>5. p * (n * c) = c * (n * p)
      BY <1>1, <2>2
    <3>1. p * (n * c + t) = c * (n * p) + p * t
      BY <3>3, <3>4, <3>5
    <3>2. c * (n * p) \in Nat /\ p * t \in Nat
      BY <1>1, <2>2
    <3> QED
      BY <2>1, <2>2, <2>3, <2>4, <3>1, <3>2
  <2>6. r \in 0 .. u - 1
    <3>1. p * t <= p * (n - 1) /\ p * t \in Nat
      BY <1>1, <2>2
    <3>2. p * (n - 1) = n * p - p /\ n * p \in Nat
      BY <1>1
    <3> QED
      BY <1>1, <2>1, <2>3, <2>4, <3>1, <3>2
  <2>7. z \div u = c
    <3>1. z \in Nat /\ u \in Nat \ {0} /\ c \in Nat
      BY <1>2, <2>2, <2>3
    <3> QED
      BY <2>5, <2>6, <3>1, Quotient, Zenon
  <2> QED
    BY <2>1, <2>2, <2>3, <2>7
<1> QED
  BY <1>1, <1>2 DEF BlockOf, PageOf
-----------------------------------------------------------------------------
(* Counting blocks                                                          *)

\* The blocks of an area are those from its first one to its last.
LEMMA Areas ==
  ASSUME NEW a \in Area
  PROVE  /\ Base[a] \in Nat /\ Bound[a] \in Nat /\ Img[a] \in 1 .. Bound[a]
         /\ BlockOf(Base[a]) \in Nat /\ Base[a] = At(BlockOf(Base[a]))
         /\ \E n \in Nat : Bound[a] = At(n)
         /\ Base[a] + Bound[a] \in Nat
<1>1. /\ Base[a] \in Units /\ Base[a] % BlockUnits = 0 /\ Bound[a] \in Nat
      /\ Bound[a] % BlockUnits = 0 /\ Img[a] \in 1 .. Bound[a]
  BY NandAssumption
<1>2. Base[a] \in Nat
  BY <1>1 DEF Units
<1>3. BlockOf(Base[a]) \in Nat /\ Base[a] = At(BlockOf(Base[a]))
  BY <1>1, <1>2, Split
<1>4. BlockOf(Bound[a]) \in Nat /\ Bound[a] = At(BlockOf(Bound[a]))
  BY <1>1, Split
<1> QED
  BY <1>1, <1>2, <1>3, <1>4

LEMMA OfBlock ==
  ASSUME NEW a \in Area, NEW b \in Nat
  PROVE  b \in Of(a) <=> /\ b \in Blocks /\ BlockOf(Base[a]) <= b
                         /\ At(b) < Base[a] + Bound[a]
<1>1. /\ BlockOf(Base[a]) \in Nat /\ Base[a] = At(BlockOf(Base[a])) /\ Bound[a] \in Nat
      /\ Base[a] \in Nat /\ At(b) \in Nat
  BY Areas, AtNext
<1>2. BlockOf(Base[a]) <= b <=> At(BlockOf(Base[a])) <= At(b)
  BY <1>1, AtOrder
<1>3. b \in Of(a) <=> b \in Blocks /\ At(b) \in Base[a] .. Base[a] + Bound[a] - 1
  BY DEF Of, At
<1> QED
  BY <1>1, <1>2, <1>3

\* Two areas have no block in common.
LEMMA Apart ==
  ASSUME NEW a \in Area, NEW c \in Area, a # c, NEW b \in Of(a)
  PROVE  b \notin Of(c)
<1>1. /\ Base[a] \in Nat /\ Bound[a] \in Nat /\ Base[c] \in Nat /\ Bound[c] \in Nat
  BY Areas
<1>2. \/ Base[a] + Bound[a] <= Base[c]
      \/ Base[c] + Bound[c] <= Base[a]
  BY NandAssumption
<1>3. PICK x \in Int : x = b * BlockUnits
  BY Dims DEF Of, Blocks
<1> QED
  BY <1>1, <1>2, <1>3 DEF Of

LEMMA BeforeFinite ==
  ASSUME NEW a, NEW b, NEW M
  PROVE  /\ IsFiniteSet(Before(a, b) \ M) /\ Cardinality(Before(a, b) \ M) \in Nat
<1>1. IsFiniteSet(Blocks)
  BY Dims, FS_Interval DEF Blocks
<1>2. Before(a, b) \ M \in SUBSET Blocks
  BY DEF Before
<1> QED
  BY <1>1, <1>2, FS_Subset, FS_CardinalityType

\* One block further.
LEMMA CountNext ==
  ASSUME NEW a \in Area, NEW b \in Nat, NEW M
  PROVE  /\ b \in M => Before(a, b + 1) \ M = Before(a, b) \ M
         /\ Cardinality(Before(a, b + 1) \ M) <= Cardinality(Before(a, b) \ M) + 1
         /\ b \in Blocks /\ b \notin M /\ BlockOf(Base[a]) <= b
            => Cardinality(Before(a, b + 1) \ M) = Cardinality(Before(a, b) \ M) + 1
<1>0. BlockOf(Base[a]) \in Nat
  BY Areas
<1>1. Before(a, b + 1) = Before(a, b) \cup {c \in Blocks : c = b /\ BlockOf(Base[a]) <= b}
  BY <1>0 DEF Before, Blocks
<1>2. b \notin Before(a, b)
  BY DEF Before
<1>3. PICK S : S = Before(a, b) \ M
  OBVIOUS
<1>4. IsFiniteSet(S) /\ Cardinality(S) \in Nat /\ b \notin S
  BY <1>2, <1>3, BeforeFinite
<1>5. Cardinality(S \cup {b}) = Cardinality(S) + 1
  BY <1>4, FS_AddElement
<1>6. b \in M => Before(a, b + 1) \ M = S
  BY <1>1, <1>3
<1>7. Before(a, b + 1) \ M = S \/ Before(a, b + 1) \ M = S \cup {b}
  BY <1>1, <1>3
<1>8. b \in Blocks /\ b \notin M /\ BlockOf(Base[a]) <= b => Before(a, b + 1) \ M = S \cup {b}
  BY <1>1, <1>3
<1>9. Cardinality(Before(a, b + 1) \ M) <= Cardinality(S) + 1
  <2>1. CASE Before(a, b + 1) \ M = S
    <3>1. Cardinality(S) <= Cardinality(S) + 1
      BY <1>4
    <3> QED
      BY <2>1, <3>1
  <2>2. CASE Before(a, b + 1) \ M = S \cup {b}
    <3>1. Cardinality(S) + 1 <= Cardinality(S) + 1
      BY <1>4
    <3> QED
      BY <1>5, <2>2, <3>1
  <2> QED
    BY <1>7, <2>1, <2>2
<1> QED
  BY <1>3, <1>5, <1>6, <1>8, <1>9

\* A block without a mark counts.
LEMMA CountOne ==
  ASSUME NEW a \in Area, NEW b \in Blocks, NEW M, b \notin M, BlockOf(Base[a]) <= b
  PROVE  Cardinality(Before(a, b + 1) \ M) = Cardinality(Before(a, b) \ M) + 1
<1>1. b \in Nat
  BY DEF Blocks
<1> QED
  BY <1>1, CountNext

\* Fewer bad blocks, more good ones.
LEMMA CountLess ==
  ASSUME NEW a, NEW b, NEW M, NEW N, M \subseteq N
  PROVE  Cardinality(Before(a, b) \ N) <= Cardinality(Before(a, b) \ M)
<1>1. Before(a, b) \ N \in SUBSET (Before(a, b) \ M)
  OBVIOUS
<1> QED
  BY <1>1, BeforeFinite, FS_Subset

\* Blocks without a mark have different ranks.
LEMMA RankStrict ==
  ASSUME NEW a \in Area, NEW b \in Blocks \ marked, NEW c \in Nat,
         BlockOf(Base[a]) <= b, b < c
  PROVE  Rank(a, b) + 1 <= Rank(a, c)
<1>0. BlockOf(Base[a]) \in Nat /\ b \in Nat
  BY Areas DEF Blocks
<1>1. Cardinality(Before(a, b + 1) \ marked) = Rank(a, b) + 1
  <2>1. b \in Blocks /\ b \notin marked
    OBVIOUS
  <2>2. Cardinality(Before(a, b + 1) \ marked) = Cardinality(Before(a, b) \ marked) + 1
    BY <2>1, CountOne
  <2> QED
    BY <2>2 DEF Rank
<1>2. Before(a, b + 1) \ marked \in SUBSET (Before(a, c) \ marked)
  BY <1>0 DEF Before, Blocks
<1>3. Cardinality(Before(a, b + 1) \ marked) <= Rank(a, c)
  BY <1>2, BeforeFinite, FS_Subset DEF Rank
<1> QED
  BY <1>1, <1>3

LEMMA RankUnique ==
  ASSUME NEW a \in Area, NEW b \in Blocks \ marked, NEW c \in Nat, c \notin marked,
         BlockOf(Base[a]) <= b, BlockOf(Base[a]) <= c, Rank(a, b) = Rank(a, c)
  PROVE  b = c
<1>0. b \in Nat /\ Rank(a, b) \in Nat
  BY BeforeFinite DEF Blocks, Rank
<1>1. ~(b < c)
  BY <1>0, RankStrict
<1>2. CASE c < b
  <2>1. c \in Blocks \ marked
    BY <1>0, <1>2, Dims DEF Blocks
  <2> QED
    BY <1>0, <1>2, <2>1, RankStrict
<1> QED
  BY <1>0, <1>1, <1>2

-----------------------------------------------------------------------------
(* Where a call is                                                          *)

LEMMA Here ==
  ASSUME CallOK, Working
  PROVE  /\ op \in Calls /\ op # Idle /\ op.a \in Area /\ rd = Idle
         /\ BlockOf(op.addr) \in Nat /\ op.addr = At(BlockOf(op.addr))
         /\ BlockOf(Base[op.a]) \in Nat /\ BlockOf(Base[op.a]) <= BlockOf(op.addr)
         /\ BlockOf(op.data) \in Nat /\ op.data = At(BlockOf(op.data))
         /\ op.data \in Nat /\ Img[op.a] \in Nat /\ op.data < Img[op.a]
         /\ Size \in 1 .. BlockUnits
         /\ Size < BlockUnits => op.data + Size = Img[op.a]
         /\ op.data + Size <= Img[op.a] /\ op.done \in 0 .. Size - 1
<1>1. op # Idle /\ op \in Calls /\ rd = Idle
  BY DEF CallOK, Working, Idle
<1>2. op.a \in Area /\ op.addr \in Nat /\ op.data \in Nat
  BY <1>1 DEF Calls
<1>3. BlockOf(op.addr) \in Nat /\ BlockOf(op.data) \in Nat
  BY <1>2, Split
<1>4. BlockOf(Base[op.a]) \in Nat /\ Img[op.a] \in Nat /\ BlockUnits \in Nat \ {0}
  BY <1>2, Areas, Dims
<1>5. /\ op.addr = At(BlockOf(op.addr)) /\ BlockOf(Base[op.a]) <= BlockOf(op.addr)
      /\ op.data = At(BlockOf(op.data)) /\ op.data < Img[op.a]
  BY DEF CallOK
<1>6. /\ Size \in 1 .. BlockUnits /\ op.data + Size <= Img[op.a]
      /\ Size < BlockUnits => op.data + Size = Img[op.a]
  BY <1>2, <1>4, <1>5 DEF Size, Least
<1>7. op.done \in 0 .. Size - 1
  BY <1>6 DEF CallOK, Working
<1> QED
  BY <1>1, <1>2, <1>3, <1>4, <1>5, <1>6, <1>7

\* A call that has blocks to spare is inside its area: otherwise it has passed
\* all of its good blocks, more than the data before it fill.
LEMMA Inside ==
  ASSUME CallOK, Frugal, Working, Spared(op.a)
  PROVE  BlockOf(op.addr) \in Of(op.a)
<1> DEFINE a == op.a
           b == BlockOf(op.addr)
           q == BlockOf(op.data)
           M == marked \cup worn
<1>0. /\ a \in Area /\ op.addr \in Nat /\ op.data \in Nat /\ op.data = At(q) /\ op.data < Img[a]
      /\ BlockOf(Base[a]) <= b /\ b \in Nat /\ q \in Nat
  BY Here DEF Calls
<1>1. Cardinality(Before(a, b) \ M) <= q
  BY DEF Frugal
<1>2. Cardinality(Of(a) \ M) >= Needed(a)
  BY DEF Spared
<1>3. Needed(a) >= q + 1
  <2>1. At(q + 1) = At(q) + BlockUnits /\ BlockUnits \in Nat \ {0} /\ Img[a] \in Nat /\ At(q) \in Nat
    BY <1>0, AtNext, Dims, Areas
  <2>2. Img[a] + BlockUnits - 1 \in Nat /\ At(q + 1) <= Img[a] + BlockUnits - 1 /\ q + 1 \in Nat
    BY <1>0, <2>1
  <2>3. q + 1 <= BlockOf(Img[a] + BlockUnits - 1)
    BY <2>2, BlockBounds
  <2>4. BlockOf(Img[a] + BlockUnits - 1) \in Nat
    BY <2>2, Split
  <2> QED
    BY <1>0, <2>3, <2>4 DEF Needed, BlockOf
<1>4. SUFFICES ASSUME b \notin Of(a) PROVE FALSE
  OBVIOUS
<1>5. Of(a) \subseteq Before(a, b)
  <2>1. SUFFICES ASSUME NEW c \in Of(a) PROVE c \in Before(a, b)
    OBVIOUS
  <2>2. c \in Blocks /\ c \in Nat
    BY <2>1 DEF Of, Blocks
  <2>3. BlockOf(Base[a]) <= c /\ At(c) < Base[a] + Bound[a]
    BY <1>0, <2>1, <2>2, OfBlock
  <2>4. b \notin Blocks \/ ~(At(b) < Base[a] + Bound[a])
    BY <1>0, <1>4, OfBlock
  <2>5. c < b
    <3>1. CASE b \notin Blocks
      BY <1>0, <2>2, <3>1, Dims DEF Blocks
    <3>2. CASE ~(At(b) < Base[a] + Bound[a])
      <4>1. At(b) \in Nat /\ At(c) \in Nat /\ Base[a] + Bound[a] \in Nat
        BY <1>0, <2>2, AtNext, Areas
      <4>2. ~(At(b) <= At(c))
        BY <2>3, <3>2, <4>1
      <4>3. b <= c <=> At(b) <= At(c)
        BY <1>0, <2>2, AtOrder
      <4> QED
        BY <1>0, <2>2, <4>2, <4>3
    <3> QED
      BY <2>4, <3>1, <3>2
  <2> QED
    BY <2>2, <2>3, <2>5 DEF Before
<1>6. Cardinality(Of(a) \ M) <= Cardinality(Before(a, b) \ M)
  <2>1. Of(a) \ M \in SUBSET (Before(a, b) \ M)
    BY <1>5
  <2> HIDE DEF a, b, M
  <2> QED
    BY <2>1, BeforeFinite, FS_Subset
<1>7. /\ Cardinality(Before(a, b) \ M) \in Nat
      /\ Of(a) \ M \in SUBSET (Before(a, b) \ M)
  BY <1>5, BeforeFinite
<1>8. Cardinality(Of(a) \ M) \in Nat
  BY <1>7, BeforeFinite, FS_Subset, FS_CardinalityType
<1>9. Needed(a) \in Int
  BY <1>0, Areas, Dims DEF Needed
<1> HIDE DEF a, b, q, M
<1> QED
  BY <1>0, <1>1, <1>2, <1>3, <1>6, <1>7, <1>8, <1>9
LEMMA OneFurther ==
  ASSUME CallOK, Working
  PROVE  /\ op.addr + BlockUnits \in Nat
         /\ op.addr + BlockUnits = At(BlockOf(op.addr) + 1)
         /\ BlockOf(op.addr + BlockUnits) = BlockOf(op.addr) + 1
<1>1. BlockOf(op.addr) \in Nat /\ op.addr = At(BlockOf(op.addr))
  BY Here
<1>2. PICK b \in Nat : b = BlockOf(op.addr)
  BY <1>1
<1>3. At(b + 1) = At(b) + BlockUnits /\ At(b) \in Nat
  BY AtNext
<1>4. b + 1 \in Nat
  OBVIOUS
<1>5. BlockOf(At(b + 1)) = b + 1 /\ At(b + 1) \in Nat
  BY <1>4, AtNext
<1> QED
  BY <1>1, <1>2, <1>3, <1>5

\* The next call of flash_nand_program.
LEMMA CallFresh ==
  ASSUME NEW a \in Area, NEW n \in Nat, op' = Call(a, n), rd' = Idle,
         env' \in Setups, ver' \in [Area -> Nat],
         result' \in [Area -> {"none", "ok", "failed"}]
  PROVE  /\ CallOK' /\ Frugal' /\ Before(a, BlockOf(op.addr)') = {} /\ BlockOf(op.data)' = 0
         /\ op'.pc = "block" /\ op'.done = 0 /\ op'.a = a /\ op'.data = 0 /\ Working'
         /\ op'.addr = Base[a] /\ op' # Idle
<1>1. /\ Base[a] \in Nat /\ Img[a] \in 1 .. Bound[a] /\ Bound[a] \in Nat
      /\ BlockOf(Base[a]) \in Nat /\ Base[a] = At(BlockOf(Base[a]))
  BY Areas
<1>2. /\ op' \in Calls /\ op'.pc = "block" /\ op'.a = a /\ op'.addr = Base[a] /\ op'.data = 0
      /\ op'.done = 0
  BY <1>1 DEF Call, Calls, OK
<1>3. BlockOf(0) = 0 /\ At(0) = 0
  BY AtNext
<1>4. op' # Idle
  BY <1>2 DEF Idle
<1>5. CallOK'
  BY <1>1, <1>2, <1>3, <1>4 DEF CallOK, Working
<1>6. Before(a, BlockOf(Base[a])) = {}
  BY <1>1 DEF Before, Blocks
<1>7. Cardinality({} \ (marked' \cup worn')) = 0
  <2>1. {} \ (marked' \cup worn') = {}
    OBVIOUS
  <2> QED
    BY <2>1, FS_EmptySet
<1>8. Frugal'
  BY <1>2, <1>3, <1>6, <1>7 DEF Frugal
<1> QED
  BY <1>2, <1>3, <1>4, <1>5, <1>6, <1>8 DEF Working

\* A step that leaves the call where it is.
LEMMA CallStays ==
  ASSUME CallOK, Frugal, UNCHANGED <<env, ver, op, marked, result>>, worn \subseteq worn',
         rd' \in Reads \cup {Idle}, op = Idle \/ rd' = Idle
  PROVE  CallOK' /\ Frugal'
<1>1. CallOK'
  BY DEF CallOK, Working, Size
<1>2. ASSUME Working PROVE Frugal'
  <2>1. marked \cup worn \subseteq (marked \cup worn)'
    OBVIOUS
  <2>2. PICK S, T : S = marked \cup worn /\ T = (marked \cup worn)'
    OBVIOUS
  <2>3. PICK b, a : b = BlockOf(op.addr) /\ a = op.a
    OBVIOUS
  <2>4. Cardinality(Before(a, b) \ T) <= Cardinality(Before(a, b) \ S)
    BY <2>1, <2>2, CountLess
  <2>5. Cardinality(Before(a, b) \ S) <= BlockOf(op.data)
    BY <1>2, <2>2, <2>3 DEF Frugal
  <2>6. /\ Cardinality(Before(a, b) \ S) \in Nat /\ Cardinality(Before(a, b) \ T) \in Nat
        /\ BlockOf(op.data) \in Nat
    BY <1>2, BeforeFinite, Here
  <2>7. Cardinality(Before(a, b) \ T) <= BlockOf(op.data)
    BY <2>4, <2>5, <2>6
  <2> QED
    BY <2>2, <2>3, <2>7 DEF Frugal
<1>3. ~Working => Frugal'
  BY DEF Frugal, Working
<1> QED
  BY <1>1, <1>2, <1>3

\* The call goes on with the next block, and this one is bad.
LEMMA CallPasses ==
  ASSUME CallOK, Frugal, Working, UNCHANGED <<env, ver, rd, result>>, op' \in Calls,
         op'.pc \in {"block", "return"}, op'.a = op.a, op'.addr = op.addr + BlockUnits,
         op'.data = op.data, op'.done = 0,
         marked \subseteq marked', worn \subseteq worn',
         BlockOf(op.addr) \in (marked \cup worn)'
  PROVE  CallOK' /\ Frugal'
<1>0. /\ op \in Calls /\ op.a \in Area /\ rd = Idle
      /\ BlockOf(op.addr) \in Nat /\ BlockOf(Base[op.a]) \in Nat
      /\ BlockOf(Base[op.a]) <= BlockOf(op.addr) /\ BlockOf(op.data) \in Nat
  BY Here
<1>1. /\ op'.addr = At(BlockOf(op.addr) + 1) /\ BlockOf(op'.addr) = BlockOf(op.addr) + 1
  BY OneFurther
<1>2. CallOK'
  BY <1>0, <1>1 DEF CallOK, Working
<1>3. Frugal'
  <2>1. PICK S, T : S = marked \cup worn /\ T = (marked \cup worn)'
    OBVIOUS
  <2>2. PICK b \in Nat, a \in Area : b = BlockOf(op.addr) /\ a = op.a
    BY <1>0
  <2>3. S \subseteq T /\ b \in T
    BY <2>1, <2>2
  <2>4. Cardinality(Before(a, b) \ T) <= Cardinality(Before(a, b) \ S)
    BY <2>3, CountLess
  <2>5. Before(a, b + 1) \ T = Before(a, b) \ T
    <3>1. b \in Nat /\ BlockOf(Base[a]) \in Nat /\ b \in T
      BY <1>0, <2>2, <2>3
    <3> QED
      BY <3>1 DEF Before, Blocks
  <2>6. Cardinality(Before(a, b) \ S) <= BlockOf(op.data)
    BY <2>1, <2>2 DEF Frugal
  <2>7. Cardinality(Before(a, b) \ S) \in Nat /\ Cardinality(Before(a, b) \ T) \in Nat
    BY BeforeFinite
  <2>9. Cardinality(Before(a, b) \ T) <= BlockOf(op.data)
    BY <1>0, <2>4, <2>6, <2>7
  <2>8. Cardinality(Before(a, b + 1) \ T) <= BlockOf(op.data)
    BY <2>5, <2>9
  <2> QED
    BY <1>1, <2>1, <2>2, <2>8 DEF Frugal
<1> QED
  BY <1>2, <1>3

LEMMA SkipCall ==
  ASSUME CallOK, Frugal, Skip
  PROVE  /\ CallOK' /\ Frugal' /\ Working
         /\ BlockOf(op.addr) \in marked
         /\ op'.addr = op.addr + BlockUnits /\ op'.a = op.a /\ op'.data = op.data /\ op'.done = 0
         /\ op'.pc \in {"block", "return"} /\ op' # Idle
         /\ op'.pc = "return" => op.addr + BlockUnits > Base[op.a] + Bound[op.a]
<1>1. Working /\ BlockOf(op.addr) \in marked /\ op.pc = "block" /\ op.done = 0
  BY DEF Skip, Working, VeffBad, CallOK
<1>2. op \in Calls /\ op.addr + BlockUnits \in Nat
  BY <1>1, Here, OneFurther
<1>3. /\ op' \in Calls /\ op'.addr = op.addr + BlockUnits /\ op'.a = op.a
      /\ op'.data = op.data /\ op'.done = 0 /\ op'.pc \in {"block", "return"}
      /\ op'.pc = "return" => op.addr + BlockUnits > Base[op.a] + Bound[op.a]
  BY <1>1, <1>2 DEF Skip, Calls
<1>4. UNCHANGED <<env, ver, rd, result, marked, worn>>
  BY DEF Skip
<1> QED
  BY <1>1, <1>3, <1>4, CallPasses DEF Idle
LEMMA NotBad ==
  ASSUME CallOK, Working, ~VeffBad(op.addr)
  PROVE  BlockOf(op.addr) \notin marked
<1>1. PICK b \in Nat : b = BlockOf(op.addr) /\ op.addr = At(b)
  BY Here
<1>2. op.addr % BlockUnits = 0
  BY <1>1, AtNext
<1> QED
  BY <1>2 DEF VeffBad

LEMMA EraseCall ==
  ASSUME CallOK, Frugal, Erase
  PROVE  /\ CallOK' /\ Frugal' /\ Working /\ BlockOf(op.addr) \notin marked
         /\ marked' = marked /\ op'.pc = "pages" /\ op' # Idle /\ op'.done = 0
         /\ op'.a = op.a /\ op'.addr = op.addr /\ op'.data = op.data
<1>1. Working /\ op.pc = "block" /\ op.done = 0
  BY DEF Erase, Working, CallOK
<1>2. BlockOf(op.addr) \notin marked
  BY <1>1, NotBad DEF Erase
<1>3. marked' = marked
  BY <1>2 DEF Erase
<1>4. op \in Calls /\ rd = Idle /\ Size \in 1 .. BlockUnits
  BY <1>1, Here
<1>5. /\ op' \in Calls /\ op'.a = op.a /\ op'.addr = op.addr /\ op'.data = op.data
      /\ op'.done = 0 /\ op'.pc = "pages"
  BY <1>1, <1>4 DEF Erase, Calls, OK
<1>6. Size' = Size
  BY <1>5 DEF Size
<1>7. UNCHANGED <<env, ver, rd, result, worn>>
  BY DEF Erase
<1>8. CallOK'
  <2>1. op'.done \in 0 .. Size' - 1
    BY <1>4, <1>5, <1>6, Dims
  <2> QED
    BY <1>1, <1>2, <1>3, <1>4, <1>5, <1>7, <2>1 DEF CallOK, Working
<1>9. Frugal'
  BY <1>1, <1>3, <1>5, <1>7 DEF Frugal, Working
<1> QED
  BY <1>1, <1>2, <1>3, <1>5, <1>8, <1>9 DEF Idle

LEMMA FailedCall ==
  ASSUME CallOK, Frugal, Working, NEW status \in Nat, NEW lost, Failed(status, lost)
  PROVE  /\ CallOK' /\ Frugal' /\ marked \subseteq marked' /\ announced \subseteq announced'
         /\ env.indirect => marked' = marked \cup {BlockOf(op.addr)}
         /\ BlockOf(op.addr) \in announced'
         /\ op'.pc = "block" /\ op' # Idle /\ op'.done = 0 /\ op'.a = op.a
         /\ op'.addr = op.addr + BlockUnits /\ op'.data = op.data
<1>1. op \in Calls /\ op.addr + BlockUnits \in Nat
  BY Here, OneFurther
<1>2. /\ op' \in Calls /\ op'.addr = op.addr + BlockUnits /\ op'.a = op.a
      /\ op'.data = op.data /\ op'.done = 0 /\ op'.pc = "block"
  BY <1>1 DEF Failed, NextBlock, Calls
<1>3. UNCHANGED <<env, ver, rd, result, worn>>
  BY DEF Failed
<1>4. /\ marked \subseteq marked' /\ announced \subseteq announced'
      /\ env.indirect => marked' = marked \cup {BlockOf(op.addr)}
      /\ BlockOf(op.addr) \in announced' /\ BlockOf(op.addr) \in (marked \cup worn)'
  BY <1>3 DEF Failed, MarkBad
<1> QED
  BY <1>2, <1>3, <1>4, CallPasses DEF Idle

LEMMA ProgramCall ==
  ASSUME CallOK, Frugal, ProgramPage
  PROVE  /\ CallOK' /\ Frugal' /\ Working /\ BlockOf(op.addr) \notin marked
         /\ op' # Idle /\ op'.a = op.a
         /\ Chunk \in 1 .. PageUnits /\ op.done + Chunk <= Size
         /\ \/ /\ op.done + Chunk < Size /\ op'.pc = "pages" /\ op'.done = op.done + Chunk
               /\ op'.addr = op.addr /\ op'.data = op.data
            \/ /\ op.done + Chunk = Size /\ op.data + Size = Img[op.a] /\ op'.pc = "return"
            \/ /\ op.done + Chunk = Size /\ Size = BlockUnits /\ op'.pc = "block"
               /\ op'.done = 0 /\ op'.addr = op.addr + BlockUnits
               /\ op'.data = op.data + BlockUnits
               /\ BlockOf(op'.data) = BlockOf(op.data) + 1
<1>1. Working /\ op.pc = "pages" /\ BlockOf(op.addr) \notin marked
  BY DEF ProgramPage, Working, CallOK
<1>2. /\ op \in Calls /\ op.a \in Area /\ rd = Idle /\ Size \in 1 .. BlockUnits
      /\ op.done \in 0 .. Size - 1 /\ op.data \in Nat /\ op.addr \in Nat
      /\ Size < BlockUnits => op.data + Size = Img[op.a]
      /\ op.data + Size <= Img[op.a] /\ Img[op.a] \in Nat
      /\ BlockOf(op.addr) \in Nat /\ BlockOf(Base[op.a]) \in Nat
      /\ BlockOf(Base[op.a]) <= BlockOf(op.addr)
      /\ BlockOf(op.data) \in Nat /\ op.data = At(BlockOf(op.data))
  BY <1>1, Here DEF Calls
<1>3. PageUnits \in Nat \ {0} /\ BlockUnits \in Nat \ {0}
  BY Dims
<1>4. Chunk \in 1 .. PageUnits /\ op.done + Chunk <= Size /\ Chunk \in Nat /\ Size \in Nat
  BY <1>2, <1>3 DEF Chunk, Least
<1>5. UNCHANGED <<env, ver, rd, result, marked, worn>>
  BY DEF ProgramPage
<1>6. CASE op.done + Chunk < Size
  <2>1. /\ op' \in Calls /\ op'.pc = "pages" /\ op'.done = op.done + Chunk
        /\ op'.addr = op.addr /\ op'.data = op.data /\ op'.a = op.a
    BY <1>1, <1>2, <1>4, <1>6 DEF ProgramPage, Calls
  <2>2. Size' = Size
    BY <2>1 DEF Size
  <2>3. CallOK'
    BY <1>1, <1>2, <1>4, <1>5, <1>6, <2>1, <2>2 DEF CallOK, Working
  <2>4. Frugal'
    BY <1>1, <1>5, <2>1 DEF Frugal, Working
  <2> QED
    BY <1>1, <1>4, <1>6, <2>1, <2>3, <2>4 DEF Idle
<1>7. CASE op.done + Chunk = Size /\ op.data + Size = Img[op.a]
  <2>1. op' \in Calls /\ op'.pc = "return" /\ op'.a = op.a
    <3>1. op' = [op EXCEPT !.done = 0, !.data = op.data + Size, !.stat = OK,
                           !.addr = op.addr + Size, !.pc = "return"]
      <4>1. ~(op.done + Chunk < Size) /\ ~(op.data + Size < Img[op.a])
        BY <1>2, <1>4, <1>7
      <4> QED
        BY <1>2, <4>1 DEF ProgramPage
    <3>2. op.data + Size \in Nat /\ op.addr + Size \in Nat
      BY <1>2, <1>4
    <3> QED
      BY <1>2, <3>1, <3>2 DEF Calls, OK
  <2>2. CallOK' /\ Frugal'
    BY <1>2, <1>5, <2>1 DEF CallOK, Working, Frugal
  <2> QED
    BY <1>1, <1>4, <1>7, <2>1, <2>2 DEF Idle
<1>8. CASE op.done + Chunk = Size /\ op.data + Size < Img[op.a]
  <2>1. Size = BlockUnits
    BY <1>2, <1>3, <1>8
  <2>2. /\ op' \in Calls /\ op'.pc = "block" /\ op'.a = op.a /\ op'.done = 0
        /\ op'.addr = op.addr + BlockUnits /\ op'.data = op.data + BlockUnits
    <3>1. op' = [op EXCEPT !.done = 0, !.data = op.data + Size, !.stat = OK,
                           !.addr = op.addr + Size, !.pc = "block"]
      BY <1>2, <1>4, <1>8 DEF ProgramPage
    <3>2. op.data + Size \in Nat /\ op.addr + Size \in Nat
      BY <1>2, <1>4
    <3> QED
      BY <1>2, <2>1, <3>1, <3>2 DEF Calls, OK
  <2>3. PICK q \in Nat : q = BlockOf(op.data)
    BY <1>2
  <2>4. op'.data = At(q + 1) /\ BlockOf(op'.data) = q + 1
    <3>1. At(q + 1) = At(q) + BlockUnits /\ q + 1 \in Nat
      BY AtNext
    <3>2. BlockOf(At(q + 1)) = q + 1
      BY <3>1, AtNext
    <3> QED
      BY <1>2, <2>2, <2>3, <3>1, <3>2
  <2>5. op'.addr = At(BlockOf(op.addr) + 1) /\ BlockOf(op'.addr) = BlockOf(op.addr) + 1
    BY <1>1, <2>2, OneFurther
  <2>6. op'.data < Img[op'.a]
    BY <1>8, <2>1, <2>2
  <2>7. CallOK'
    BY <1>2, <1>5, <2>2, <2>3, <2>4, <2>5, <2>6 DEF CallOK, Working
  <2>8. Frugal'
    <3>1. PICK T : T = marked \cup worn
      OBVIOUS
    <3>2. PICK b \in Nat, a \in Area : b = BlockOf(op.addr) /\ a = op.a
      BY <1>2
    <3>3. Cardinality(Before(a, b + 1) \ T) <= Cardinality(Before(a, b) \ T) + 1
      BY CountNext
    <3>4. Cardinality(Before(a, b) \ T) <= q
      BY <1>1, <2>3, <3>1, <3>2 DEF Frugal
    <3>5. Cardinality(Before(a, b) \ T) \in Nat /\ Cardinality(Before(a, b + 1) \ T) \in Nat
      BY BeforeFinite
    <3>6. Cardinality(Before(a, b + 1) \ T) <= q + 1
      BY <3>3, <3>4, <3>5
    <3> QED
      BY <1>5, <2>2, <2>4, <2>5, <3>1, <3>2, <3>6 DEF Frugal
  <2> QED
    BY <1>1, <1>4, <1>8, <2>1, <2>2, <2>3, <2>4, <2>7, <2>8 DEF Idle
<1> QED
  BY <1>2, <1>3, <1>4, <1>6, <1>7, <1>8

LEMMA ReturnCall ==
  ASSUME CallOK, Frugal, Return
  PROVE  /\ CallOK' /\ Frugal' /\ op \in Calls /\ op.a \in Area /\ rd' = Idle
         /\ \/ op' = Call(op.a, op.tries + 1) /\ result' = result
            \/ /\ op' = Idle
               /\ result' = [result EXCEPT ![op.a] =
                               IF op.stat = OK THEN "ok" ELSE "failed"]
<1>1. op # Idle /\ op \in Calls /\ rd = Idle
  BY DEF CallOK, Return, Idle
<1>2. op.a \in Area /\ op.tries + 1 \in Nat
  BY <1>1 DEF Calls
<1>3. /\ UNCHANGED <<env, ver, rd>> /\ env \in Setups /\ ver \in [Area -> Nat]
      /\ result \in [Area -> {"none", "ok", "failed"}]
  BY DEF Return, CallOK
<1>4. \/ op' = Call(op.a, op.tries + 1) /\ result' = result
      \/ /\ op' = Idle
         /\ result' = [result EXCEPT ![op.a] = IF op.stat = OK THEN "ok" ELSE "failed"]
  BY DEF Return
<1>5. result' \in [Area -> {"none", "ok", "failed"}]
  BY <1>3, <1>4
<1>6. op' = Call(op.a, op.tries + 1) => CallOK' /\ Frugal'
  <2>1. PICK a \in Area, n \in Nat : a = op.a /\ n = op.tries + 1
    BY <1>2
  <2>2. env' \in Setups /\ ver' \in [Area -> Nat] /\ rd' = Idle
    BY <1>1, <1>3
  <2> QED
    BY <1>5, <2>1, <2>2, CallFresh
<1>7. op' = Idle => CallOK' /\ Frugal'
  <2>1. op' = Idle => op'.pc = "idle"
    BY DEF Idle
  <2>2. env' \in Setups /\ ver' \in [Area -> Nat] /\ rd' = Idle
    BY <1>1, <1>3
  <2> QED
    BY <1>5, <2>1, <2>2 DEF CallOK, Frugal, Working
<1> QED
  BY <1>1, <1>2, <1>3, <1>4, <1>6, <1>7

LEMMA UpgradeCall ==
  ASSUME CallOK, Frugal, NEW a \in Area, Upgrade(a)
  PROVE  /\ CallOK' /\ Frugal' /\ op' = Call(a, 1) /\ rd' = Idle /\ op = Idle
         /\ ver' = [ver EXCEPT ![a] = ver[a] + 1]
         /\ result' = [result EXCEPT ![a] = "none"]
         /\ ver \in [Area -> Nat] /\ result \in [Area -> {"none", "ok", "failed"}]
<1>1. /\ env \in Setups /\ ver \in [Area -> Nat]
      /\ result \in [Area -> {"none", "ok", "failed"}]
  BY DEF CallOK
<1>2. /\ op' = Call(a, 1) /\ rd' = Idle /\ op = Idle /\ env' = env
      /\ ver' = [ver EXCEPT ![a] = ver[a] + 1]
      /\ result' = [result EXCEPT ![a] = "none"]
  BY DEF Upgrade
<1>3. ver' \in [Area -> Nat] /\ result' \in [Area -> {"none", "ok", "failed"}]
  BY <1>1, <1>2
<1>4. 1 \in Nat
  OBVIOUS
<1> QED
  BY <1>1, <1>2, <1>3, <1>4, CallFresh

LEMMA PowerOffCall ==
  ASSUME CallOK, Frugal, PowerOff
  PROVE  /\ CallOK' /\ Frugal' /\ Working /\ op' = Idle /\ rd' = Idle
         /\ env'.indirect = env.indirect
<1>1. Working /\ op' = Idle /\ UNCHANGED <<ver, result, rd>>
  BY DEF PowerOff, Working
<1>2. rd = Idle
  BY <1>1, Here
<1>3. env' \in Setups /\ env'.indirect = env.indirect
  BY DEF PowerOff, CallOK, Setups
<1>4. op'.pc = "idle"
  BY <1>1 DEF Idle
<1>5. CallOK'
  BY <1>1, <1>2, <1>3, <1>4 DEF CallOK, Working
<1>6. Frugal'
  BY <1>4 DEF Frugal, Working
<1> QED
  BY <1>1, <1>2, <1>3, <1>5, <1>6

\* The reader's steps, and a block that wears out.
LEMMA ReadCall ==
  ASSUME CallOK, Frugal,
         \/ RdSkip \/ RdPage \/ RdFailed \/ RdDone
         \/ \E a \in Area : \E n \in 1 .. Img[a] : Load(a, n)
         \/ \E b \in Blocks : Wear(b)
  PROVE  /\ CallOK' /\ Frugal'
         /\ UNCHANGED <<env, flash, marked, announced, ver, result, op>>
         /\ worn \subseteq worn'
<1>1. /\ UNCHANGED <<env, flash, marked, announced, ver, result, op>>
      /\ worn \subseteq worn'
  BY DEF RdSkip, RdPage, RdFailed, RdDone, Load, Wear
<1>2. op \in Calls \cup {Idle} /\ rd \in Reads \cup {Idle} /\ (op = Idle \/ rd = Idle)
  BY DEF CallOK
<1>3. rd.pc = "read" => rd \in Reads /\ op = Idle
  BY <1>2 DEF Idle
<1>4. rd' \in Reads \cup {Idle} /\ (op = Idle \/ rd' = Idle)
  <2>0. BlockUnits \in Nat \ {0} /\ PageUnits \in Nat \ {0}
    BY Dims
  <2>1. CASE RdSkip
    <3>1. rd \in Reads /\ op = Idle /\ rd.addr \in Nat
      BY <1>3, <2>1 DEF RdSkip, Reads
    <3>2. PICK d \in Nat : d = rd.addr + BlockUnits
      BY <2>0, <3>1
    <3>3. rd' = [rd EXCEPT !.addr = d]
      BY <2>1, <3>2 DEF RdSkip
    <3> QED
      BY <3>1, <3>3 DEF Reads
  <2>2. CASE RdPage
    <3>1. rd \in Reads /\ op = Idle /\ rd.len \in Nat /\ rd.at \in Nat /\ rd.addr \in Nat
      BY <1>3, <2>2 DEF RdPage, Reads
    <3>2. PICK left \in Nat : left = rd.len - Least(rd.len, PageUnits)
      BY <2>0, <3>1 DEF Least
    <3>3. PICK d \in Nat : d = Advance(left)
      BY <2>0, <3>2 DEF Advance, Least
    <3>4. rd' = [rd EXCEPT !.len = left, !.addr = rd.addr + d, !.at = rd.at + d,
                           !.pc = IF left = 0 THEN "done" ELSE rd.pc]
      BY <2>2, <3>2, <3>3 DEF RdPage
    <3>5. /\ rd.addr + d \in Nat /\ rd.at + d \in Nat
          /\ (IF left = 0 THEN "done" ELSE rd.pc) \in {"read", "done"}
      BY <3>1, <3>3 DEF Reads
    <3>6. PICK y \in Nat, z \in Nat, p \in {"read", "done"} :
            /\ y = rd.addr + d /\ z = rd.at + d
            /\ p = IF left = 0 THEN "done" ELSE rd.pc
      BY <3>5
    <3>7. rd' = [rd EXCEPT !.len = left, !.addr = y, !.at = z, !.pc = p]
      BY <3>4, <3>6
    <3> QED
      BY <3>1, <3>2, <3>6, <3>7 DEF Reads
  <2>3. CASE RdFailed
    BY <1>3, <2>3 DEF RdFailed, Reads, HWR
  <2>4. CASE RdDone
    BY <2>4 DEF RdDone
  <2>5. CASE \E a \in Area : \E n \in 1 .. Img[a] : Load(a, n)
    <3>1. PICK a \in Area : \E n \in 1 .. Img[a] : Load(a, n)
      BY <2>5
    <3>2. PICK n \in 1 .. Img[a] : Load(a, n)
      BY <3>1
    <3>3. Base[a] \in Nat /\ Img[a] \in Nat
      BY Areas
    <3>4. n \in Nat
      BY <3>2, <3>3
    <3> QED
      BY <3>2, <3>3, <3>4 DEF Load, Reads, OK
  <2>6. CASE \E b \in Blocks : Wear(b)
    BY <1>2, <2>6 DEF Wear
  <2> QED
    BY <2>1, <2>2, <2>3, <2>4, <2>5, <2>6
<1> QED
  BY <1>1, <1>4, CallStays

LEMMA EraseFailedCall ==
  ASSUME CallOK, Frugal, EraseFailed
  PROVE  Working /\ CallOK' /\ Frugal' /\ marked \subseteq marked'
<1>1. Working /\ Failed(ERASE, InBlock(BlockOf(op.addr))) /\ ERASE \in Nat
  BY DEF EraseFailed, Working, ERASE
<1> QED
  BY <1>1, FailedCall

LEMMA PageFailedCall ==
  ASSUME CallOK, Frugal, PageFailed
  PROVE  Working /\ CallOK' /\ Frugal' /\ marked \subseteq marked'
<1>1. Working /\ PROGRAM \in Nat
  BY DEF PageFailed, Working, PROGRAM
<1>2. PICK lost : Failed(PROGRAM, lost)
  BY DEF PageFailed
<1> QED
  BY <1>1, <1>2, FailedCall

LEMMA StepCall ==
  ASSUME CallOK, Frugal, [Next]_vars
  PROVE  CallOK' /\ Frugal' /\ marked \subseteq marked'
<1>1. CASE Skip
  BY <1>1, SkipCall DEF Skip
<1>2. CASE Erase
  BY <1>2, EraseCall
<1>3. CASE EraseFailed
  BY <1>3, EraseFailedCall
<1>4. CASE ProgramPage
  BY <1>4, ProgramCall DEF ProgramPage
<1>5. CASE PageFailed
  BY <1>5, PageFailedCall
<1>6. CASE Return
  BY <1>6, ReturnCall DEF Return
<1>7. ASSUME NEW a \in Area, Upgrade(a) PROVE CallOK' /\ Frugal' /\ marked \subseteq marked'
  BY <1>7, UpgradeCall DEF Upgrade
<1>8. CASE PowerOff
  BY <1>8, PowerOffCall DEF PowerOff
<1>9. CASE \/ RdSkip \/ RdPage \/ RdFailed \/ RdDone
           \/ \E a \in Area : \E n \in 1 .. Img[a] : Load(a, n)
           \/ \E b \in Blocks : Wear(b)
  BY <1>9, ReadCall
<1>10. CASE UNCHANGED vars
  BY <1>10 DEF vars, CallOK, Frugal, Working, Size
<1> QED
  BY <1>1, <1>2, <1>3, <1>4, <1>5, <1>6, <1>7, <1>8, <1>9, <1>10 DEF Next, Driver

LEMMA InitCall ==
  ASSUME Init
  PROVE  CallOK /\ Frugal
<1>1. env \in Setups /\ op = Idle /\ rd = Idle
  BY NandAssumption DEF Init
<1>2. ver \in [Area -> Nat] /\ result \in [Area -> {"none", "ok", "failed"}]
  BY DEF Init
<1>3. op.pc = "idle"
  BY <1>1 DEF Idle
<1> QED
  BY <1>1, <1>2, <1>3 DEF CallOK, Frugal, Working
-----------------------------------------------------------------------------
(* What a call touches                                                      *)

\* A page of the block that is written.
LEMMA PageHere ==
  ASSUME CallOK, Working, NEW i \in 0 .. BlockUnits - 1, NEW x \in InPage(op.addr + i)
  PROVE  BlockOf(x) = BlockOf(op.addr)
<1>1. PICK b \in Nat : b = BlockOf(op.addr) /\ op.addr = At(b)
  BY Here
<1>2. At(b) + i \in Nat /\ BlockOf(At(b) + i) = b
  BY Join
<1>3. x \in Nat /\ PageOf(x) = PageOf(At(b) + i)
  BY <1>1 DEF InPage, Units
<1> QED
  BY <1>1, <1>2, <1>3, PageInBlock

LEMMA FailedTouched ==
  ASSUME CallOK, Working, NEW status, NEW lost, Failed(status, lost),
         \A y \in lost : BlockOf(y) = BlockOf(op.addr),
         NEW x \in Units, flash'[x] # flash[x]
  PROVE  BlockOf(x) = BlockOf(op.addr)
BY DEF Failed

LEMMA Touched ==
  ASSUME CallOK, Frugal, [Next]_vars, NEW x \in Units, flash'[x] # flash[x]
  PROVE  Working /\ BlockOf(x) = BlockOf(op.addr) /\ BlockOf(op.addr) \notin marked
<1>0. BlockUnits \in Nat \ {0} /\ PageUnits \in Nat \ {0} /\ PageUnits < BlockUnits
  BY Dims
<1>1. CASE Erase
  BY <1>1, EraseCall DEF Erase
<1>2. CASE EraseFailed
  <2>1. Working
    BY <1>2 DEF EraseFailed, Working
  <2>2. \A y \in InBlock(BlockOf(op.addr)) : BlockOf(y) = BlockOf(op.addr)
    BY DEF InBlock
  <2> QED
    BY <1>2, <2>1, <2>2, FailedTouched, NotBad DEF EraseFailed
<1>3. CASE ProgramPage
  <2>1. /\ Working /\ BlockOf(op.addr) \notin marked /\ Chunk \in 1 .. PageUnits
        /\ op.done + Chunk <= Size
    BY <1>3, ProgramCall
  <2>2. PICK b \in Nat : b = BlockOf(op.addr) /\ op.addr = At(b)
    BY <2>1, Here
  <2>3. op.done \in Nat /\ Size \in 1 .. BlockUnits /\ At(b) \in Nat /\ x \in Nat
    BY <2>1, Here, AtNext DEF Units
  <2>4. x - (op.addr + op.done) \in 0 .. Chunk - 1
    BY <1>3 DEF ProgramPage
  <2>5. At(b) <= x /\ x < At(b) + BlockUnits
    BY <1>0, <2>1, <2>2, <2>3, <2>4
  <2> QED
    BY <2>1, <2>2, <2>3, <2>5, BlockBounds
<1>4. CASE PageFailed
  <2>1. Working /\ BlockOf(op.addr) \notin marked
    BY <1>4 DEF PageFailed, Working, CallOK
  <2>2. PICK lost : /\ Failed(PROGRAM, lost)
                    /\ lost \subseteq InPage(op.addr + op.done) \cup InPage(op.addr)
                                      \cup InPage(op.addr + PageUnits)
    BY <1>4 DEF PageFailed
  <2>3. /\ op.done \in 0 .. BlockUnits - 1 /\ 0 \in 0 .. BlockUnits - 1
        /\ PageUnits \in 0 .. BlockUnits - 1 /\ op.addr = op.addr + 0
    <3>1. op.done \in 0 .. Size - 1 /\ Size \in 1 .. BlockUnits /\ op.addr \in Nat
      BY <2>1, Here DEF Calls
    <3> QED
      BY <1>0, <3>1
  <2>4. ASSUME NEW y \in lost PROVE BlockOf(y) = BlockOf(op.addr)
    <3>1. CASE y \in InPage(op.addr + op.done)
      BY <2>1, <2>3, <3>1, PageHere
    <3>2. CASE y \in InPage(op.addr)
      BY <2>1, <2>3, <3>2, PageHere
    <3>3. CASE y \in InPage(op.addr + PageUnits)
      BY <2>1, <2>3, <3>3, PageHere
    <3> QED
      BY <2>2, <2>4, <3>1, <3>2, <3>3
  <2> QED
    BY <2>1, <2>2, <2>4, FailedTouched
<1>5. CASE PowerOff
  <2>1. Working
    BY <1>5 DEF PowerOff, Working
  <2>2. CASE op.pc = "block"
    BY <1>5, <2>1, <2>2, NotBad DEF PowerOff, InBlock
  <2>3. CASE op.pc = "pages"
    <3>1. x \in InPage(op.addr + op.done)
      BY <1>5, <2>3 DEF PowerOff
    <3>2. op.done \in 0 .. BlockUnits - 1
      <4>1. op.done \in 0 .. Size - 1 /\ Size \in 1 .. BlockUnits
        BY <2>1, Here
      <4> QED
        BY <1>0, <4>1
    <3> QED
      BY <2>1, <2>3, <3>1, <3>2, PageHere DEF CallOK
  <2> QED
    BY <2>1, <2>2, <2>3 DEF Working
<1>6. CASE Skip \/ Return \/ \E a \in Area : Upgrade(a)
  BY <1>6 DEF Skip, Return, Upgrade
<1>7. CASE \/ RdSkip \/ RdPage \/ RdFailed \/ RdDone
           \/ \E a \in Area : \E n \in 1 .. Img[a] : Load(a, n)
           \/ \E b \in Blocks : Wear(b)
  BY <1>7, ReadCall
<1>8. CASE UNCHANGED vars
  BY <1>8 DEF vars
<1> QED
  BY <1>1, <1>2, <1>3, <1>4, <1>5, <1>6, <1>7, <1>8 DEF Next, Driver

\* flash_nand_program writes only into the area it was called for while that
\* has blocks to spare, and erases no bad-block mark, however areas, images
\* and bad blocks lie.
THEOREM OthersAlwaysKept == Spec => OthersKept
<1>1. Init => CallOK /\ Frugal
  BY InitCall
<1>2. CallOK /\ Frugal /\ [Next]_vars => (CallOK /\ Frugal)'
  BY StepCall
<1>3. CallOK /\ Frugal /\ [Next]_vars => [marked \subseteq marked']_vars
  BY StepCall
<1>4. CallOK /\ Frugal /\ [Next]_vars =>
        [op.pc # "idle" /\ Spared(op.a) =>
           \A x \in Units : flash'[x] # flash[x] => BlockOf(x) \in Of(op.a)]_vars
  <2>1. SUFFICES ASSUME CallOK, Frugal, [Next]_vars, op.pc # "idle", Spared(op.a),
                        NEW x \in Units, flash'[x] # flash[x]
                 PROVE  BlockOf(x) \in Of(op.a)
    OBVIOUS
  <2>2. Working /\ BlockOf(x) = BlockOf(op.addr)
    BY <2>1, Touched
  <2> QED
    BY <2>1, <2>2, Inside
<1> QED
  BY <1>1, <1>2, <1>3, <1>4, PTL DEF Spec, OthersKept, StaysInArea, MarksKept
-----------------------------------------------------------------------------
(* What a step leaves as it was                                             *)

LEMMA MarkedStep ==
  ASSUME CallOK, Frugal, [Next]_vars
  PROVE  /\ marked \subseteq marked' /\ worn \subseteq worn' /\ announced \subseteq announced'
         /\ env'.indirect = env.indirect
         /\ marked' = marked \/ (Working /\ marked' = marked \cup {BlockOf(op.addr)})
<1>1. CASE Skip \/ Return \/ ProgramPage \/ \E a \in Area : Upgrade(a)
  BY <1>1 DEF Skip, Return, ProgramPage, Upgrade
<1>2. CASE Erase
  BY <1>2, EraseCall DEF Erase
<1>3. CASE EraseFailed \/ PageFailed
  <2>1. Working
    BY <1>3 DEF EraseFailed, PageFailed, Working
  <2>2. PICK status, lost : Failed(status, lost)
    BY <1>3 DEF EraseFailed, PageFailed
  <2> QED
    BY <2>1, <2>2 DEF Failed, MarkBad
<1>4. CASE PowerOff
  BY <1>4, PowerOffCall DEF PowerOff
<1>5. CASE \/ RdSkip \/ RdPage \/ RdFailed \/ RdDone
           \/ \E a \in Area : \E n \in 1 .. Img[a] : Load(a, n)
           \/ \E b \in Blocks : Wear(b)
  BY <1>5, ReadCall
<1>6. CASE UNCHANGED vars
  BY <1>6 DEF vars
<1> QED
  BY <1>1, <1>2, <1>3, <1>4, <1>5, <1>6 DEF Next, Driver

LEMMA UsualBefore ==
  ASSUME CallOK, Frugal, [Next]_vars, Usual'
  PROVE  Usual
<1>1. /\ marked \cup worn \subseteq (marked \cup worn)' /\ announced \subseteq announced'
      /\ env'.indirect = env.indirect
  BY MarkedStep
<1>2. ASSUME NEW a \in Area PROVE Spared(a)
  <2>1. PICK S, T : S = marked \cup worn /\ T = (marked \cup worn)'
    OBVIOUS
  <2>2. Cardinality(Of(a) \ T) >= Needed(a)
    BY <1>2, <2>1 DEF Usual, Spared
  <2>3. Of(a) \ S \in SUBSET Blocks /\ Of(a) \ T \in SUBSET (Of(a) \ S)
    BY <1>1, <2>1 DEF Of
  <2>4. IsFiniteSet(Blocks)
    BY Dims, FS_Interval DEF Blocks
  <2>5. IsFiniteSet(Of(a) \ S)
    BY <2>3, <2>4, FS_Subset
  <2>6. Cardinality(Of(a) \ T) <= Cardinality(Of(a) \ S)
    BY <2>3, <2>5, FS_Subset
  <2>7. Cardinality(Of(a) \ S) \in Nat /\ Cardinality(Of(a) \ T) \in Nat
    BY <2>3, <2>5, FS_Subset, FS_CardinalityType
  <2>8. Needed(a) \in Int
    BY <1>2, Areas, Dims DEF Needed
  <2>9. Cardinality(Of(a) \ S) >= Needed(a)
    BY <2>2, <2>6, <2>7, <2>8
  <2> QED
    BY <2>1, <2>9 DEF Spared
<1>3. env.indirect \/ announced = {}
  BY <1>1 DEF Usual
<1> QED
  BY <1>2, <1>3 DEF Usual

\* Units of a block are units of the chip.
LEMMA UnitOf ==
  ASSUME NEW b \in Blocks, NEW r \in 0 .. BlockUnits - 1
  PROVE  At(b) + r \in Units /\ BlockOf(At(b) + r) = b /\ b \in Nat
<1>1. b \in Nat /\ NBlocks \in Nat /\ b < NBlocks /\ BlockUnits \in Nat
  BY Dims DEF Blocks
<1>2. At(b) \in Nat /\ At(NBlocks) \in Nat /\ At(b) + BlockUnits <= At(NBlocks)
  BY <1>1, AtNext, AtOrder
<1>3. At(NBlocks) = NBlocks * BlockUnits
  BY DEF At
<1>4. At(b) + r \in Units
  BY <1>1, <1>2, <1>3 DEF Units
<1> QED
  BY <1>1, <1>4, Join

\* A block before one of the area's is the area's.
LEMMA OfEarlier ==
  ASSUME NEW a \in Area, NEW b \in Of(a), NEW c \in Before(a, b)
  PROVE  c \in Of(a)
<1>1. b \in Nat /\ c \in Nat /\ c \in Blocks /\ BlockOf(Base[a]) <= c /\ c < b
  BY DEF Of, Before, Blocks
<1>2. At(b) < Base[a] + Bound[a] /\ At(b) \in Nat /\ At(c) \in Nat /\ Base[a] + Bound[a] \in Nat
  BY <1>1, OfBlock, AtNext, Areas
<1>3. At(c) + BlockUnits <= At(b) /\ BlockUnits \in Nat
  BY <1>1, AtOrder, Dims
<1>4. At(c) < Base[a] + Bound[a]
  BY <1>2, <1>3
<1> QED
  BY <1>1, <1>4, OfBlock

\* What was found stays, in another area or in an earlier block.
LEMMA FoundKept ==
  ASSUME CallOK, Frugal, Usual, [Next]_vars, NEW a \in Area, NEW k \in Nat, NEW b,
         Found(a, k, b), ver'[a] = ver[a],
         Working => a # op.a \/ b < BlockOf(op.addr)
  PROVE  Found(a, k, b)'
<1>1. b \in Of(a) /\ b \in Blocks /\ b \notin marked /\ b \in Nat
  BY DEF Found, Of, Blocks
<1>2. k % BlockUnits \in 0 .. BlockUnits - 1
  BY Split
<1>3. PICK x \in Units : x = At(b) + (k % BlockUnits) /\ BlockOf(x) = b
  BY <1>1, <1>2, UnitOf
<1>4. Working => BlockOf(op.addr) \in Of(op.a) /\ BlockOf(op.addr) \in Nat /\ op.a \in Area
  BY Inside, Here DEF Usual
<1>5. Working => b # BlockOf(op.addr)
  BY <1>1, <1>4, Apart
<1>6. flash'[x] = flash[x]
  BY <1>3, <1>5, Touched
<1>7. Working => BlockOf(op.addr) \notin Before(a, b)
  <2>1. SUFFICES ASSUME Working, BlockOf(op.addr) \in Before(a, b) PROVE FALSE
    OBVIOUS
  <2>2. BlockOf(op.addr) \in Of(a) /\ BlockOf(op.addr) < b
    BY <1>1, <2>1, OfEarlier DEF Before
  <2>3. a = op.a
    BY <1>4, <2>1, <2>2, Apart
  <2> QED
    BY <1>1, <1>4, <2>1, <2>2, <2>3
<1>8. b \notin marked' /\ Before(a, b) \ marked' = Before(a, b) \ marked
  BY <1>1, <1>5, <1>7, MarkedStep
<1>9. Rank(a, b)' = Rank(a, b)
  BY <1>8 DEF Rank
<1> QED
  BY <1>1, <1>3, <1>6, <1>8, <1>9 DEF Found

\* The image of an upgrade that has reported success stays.
LEMMA ImageStays ==
  ASSUME CallOK, Frugal, Usual, Progress, [Next]_vars, NEW a \in Area, result[a] = "ok",
         ver'[a] = ver[a], NEW k \in 0 .. Img[a] - 1
  PROVE  \E b \in Blocks : Found(a, k, b)'
<1>1. PICK b \in Blocks : Found(a, k, b)
  BY DEF Progress
<1>2. Working => a # op.a
  <2>1. Working => op # Idle
    BY DEF Working, Idle
  <2> QED
    BY <2>1 DEF Progress
<1>3. k \in Nat
  BY Areas
<1> QED
  BY <1>1, <1>2, <1>3, FoundKept
-----------------------------------------------------------------------------
(* The writer's progress                                                    *)

\* An area ends where a block does.
LEMMA AreaEnd ==
  ASSUME NEW a \in Area, NEW b \in Of(a)
  PROVE  At(b) + BlockUnits <= Base[a] + Bound[a]
<1>1. PICK s \in Nat, n \in Nat : Base[a] = At(s) /\ Bound[a] = At(n)
  BY Areas
<1>2. At(s) + At(n) = At(s + n) /\ s + n \in Nat
  <2>1. PICK u \in Nat \ {0} : u = BlockUnits
    BY Dims
  <2>2. s * u + n * u = (s + n) * u
    BY <2>1
  <2> QED
    BY <2>1, <2>2 DEF At
<1>3. b \in Nat
  BY DEF Of, Blocks
<1>4. At(b) < At(s + n) /\ At(b) \in Nat /\ At(s + n) \in Nat
  BY <1>1, <1>2, <1>3, OfBlock, AtNext
<1>5. s + n <= b <=> At(s + n) <= At(b)
  BY <1>2, <1>3, AtOrder
<1>6. b < s + n
  BY <1>2, <1>3, <1>4, <1>5
<1> QED
  BY <1>1, <1>2, <1>3, <1>6, AtOrder

\* The finished images, when a step reports nothing.
LEMMA OthersStay ==
  ASSUME CallOK, Frugal, Usual, Progress, [Next]_vars, UNCHANGED <<ver, result>>
  PROVE  \A a \in Area : result'[a] = "ok" =>
           \A k \in 0 .. Img[a] - 1 : \E b \in Blocks : Found(a, k, b)'
<1>1. SUFFICES ASSUME NEW a \in Area, result[a] = "ok", NEW k \in 0 .. Img[a] - 1
               PROVE  \E b \in Blocks : Found(a, k, b)'
  OBVIOUS
<1>2. ver'[a] = ver[a]
  OBVIOUS
<1> QED
  BY <1>1, <1>2, ImageStays

\* The data before the present block.
LEMMA EarlierStays ==
  ASSUME CallOK, Frugal, Usual, Progress, [Next]_vars, UNCHANGED ver, Working,
         NEW a, a = op.a, NEW k \in 0 .. op.data - 1
  PROVE  \E b \in Before(a, BlockOf(op.addr)) : Found(a, k, b)'
<1>1. PICK b \in Before(a, BlockOf(op.addr)) : Found(a, k, b)
  BY DEF Progress
<1>2. k \in Nat /\ a \in Area /\ b < BlockOf(op.addr)
  BY Here DEF Before
<1>3. Found(a, k, b)'
  BY <1>1, <1>2, FoundKept
<1> QED
  BY <1>3

\* A call that goes on with the next block, this one being marked.
LEMMA PassProgress ==
  ASSUME CallOK, Frugal, Usual, Progress, [Next]_vars, UNCHANGED <<ver, result>>, Working,
         op'.pc = "block", op' # Idle, op'.a = op.a, op'.addr = op.addr + BlockUnits,
         op'.data = op.data, op'.done = 0, BlockOf(op.addr) \in marked',
         Before(op.a, BlockOf(op.addr)) \ marked' = Before(op.a, BlockOf(op.addr)) \ marked
  PROVE  Progress'
<1>1. PICK a \in Area, c \in Nat : a = op.a /\ c = BlockOf(op.addr) /\ op # Idle
  BY Here
<1>2. BlockOf(op'.addr) = c + 1
  BY <1>1, OneFurther
<1>3. Rank(a, c + 1)' = Rank(a, c)
  <2>1. BlockOf(Base[a]) \in Nat /\ c \in marked'
    BY <1>1, Areas
  <2>2. Before(a, c + 1) \ marked' = Before(a, c) \ marked
    BY <1>1, <2>1 DEF Before, Blocks
  <2> QED
    BY <2>2 DEF Rank
<1>4. Rank(a, c) = BlockOf(op.data) /\ result[a] = "none"
  BY <1>1 DEF Progress
<1>5. ASSUME NEW k \in 0 .. op.data - 1
      PROVE  \E b \in Before(a, c + 1) : Found(a, k, b)'
  <2>1. PICK b \in Before(a, c) : Found(a, k, b)'
    BY <1>1, <1>5, EarlierStays
  <2>2. b \in Before(a, c + 1)
    BY <2>1 DEF Before, Blocks
  <2> QED
    BY <2>1, <2>2
<1>6. \A e \in Area : result'[e] = "ok" =>
        \A k \in 0 .. Img[e] - 1 : \E b \in Blocks : Found(e, k, b)'
  BY OthersStay
<1>7. Working' => /\ Rank(op.a, BlockOf(op.addr))' = BlockOf(op'.data)
                  /\ \A k \in 0 .. op'.data - 1 :
                       \E b \in Before(op.a, BlockOf(op.addr))' : Found(op.a, k, b)'
                  /\ \A i \in 0 .. op'.done - 1 :
                       flash'[op'.addr + i] = <<op'.a, ver'[op'.a], op'.data + i>>
  BY <1>1, <1>2, <1>3, <1>4, <1>5
<1>8. op'.pc # "return" /\ result'[op'.a] = "none"
  BY <1>1, <1>4
<1> QED
  BY <1>6, <1>7, <1>8 DEF Progress

LEMMA SkipProgress ==
  ASSUME CallOK, Frugal, Usual, Progress, Skip
  PROVE  Progress'
<1>0. [Next]_vars
  BY DEF Next, Driver
<1>1. /\ Working /\ BlockOf(op.addr) \in marked
      /\ op'.addr = op.addr + BlockUnits /\ op'.a = op.a /\ op'.data = op.data /\ op'.done = 0
      /\ op'.pc \in {"block", "return"} /\ op' # Idle
      /\ op'.pc = "return" => op.addr + BlockUnits > Base[op.a] + Bound[op.a]
  BY SkipCall
<1>2. PICK a \in Area, c \in Nat : a = op.a /\ c = BlockOf(op.addr) /\ op.addr = At(c)
  BY <1>1, Here
<1>3. c \in Of(a)
  BY <1>1, <1>2, Inside DEF Usual
<1>4. At(c) + BlockUnits <= Base[a] + Bound[a]
  BY <1>3, AreaEnd
<1>5. At(c) \in Nat /\ BlockUnits \in Nat /\ Base[a] + Bound[a] \in Nat
  BY AtNext, Dims, Areas
<1>6. op'.pc = "block"
  BY <1>1, <1>2, <1>4, <1>5
<1>7. UNCHANGED <<ver, result, marked>>
  BY DEF Skip
<1> QED
  BY <1>0, <1>1, <1>6, <1>7, PassProgress

LEMMA FailedProgress ==
  ASSUME CallOK, Frugal, Usual, Progress, [Next]_vars, Usual', Working,
         NEW status \in Nat, NEW lost, Failed(status, lost)
  PROVE  Progress'
<1>1. /\ op'.pc = "block" /\ op' # Idle /\ op'.a = op.a /\ op'.addr = op.addr + BlockUnits
      /\ op'.data = op.data /\ op'.done = 0 /\ BlockOf(op.addr) \in announced'
      /\ env.indirect => marked' = marked \cup {BlockOf(op.addr)}
  BY FailedCall
<1>2. UNCHANGED <<env, ver, result>>
  BY DEF Failed
<1>3. env.indirect
  BY <1>1, <1>2 DEF Usual
<1>4. BlockOf(op.addr) \notin Before(op.a, BlockOf(op.addr)) /\ BlockOf(op.addr) \in Nat
  BY Here DEF Before
<1>5. /\ BlockOf(op.addr) \in marked'
      /\ Before(op.a, BlockOf(op.addr)) \ marked' = Before(op.a, BlockOf(op.addr)) \ marked
  BY <1>1, <1>3, <1>4
<1> QED
  BY <1>1, <1>2, <1>5, PassProgress

LEMMA EraseProgress ==
  ASSUME CallOK, Frugal, Usual, Progress, Erase
  PROVE  Progress'
<1>0. [Next]_vars
  BY DEF Next, Driver
<1>1. /\ Working /\ marked' = marked /\ op'.pc = "pages" /\ op' # Idle /\ op'.done = 0
      /\ op'.a = op.a /\ op'.addr = op.addr /\ op'.data = op.data
  BY EraseCall
<1>2. UNCHANGED <<ver, result>> /\ op # Idle
  BY <1>1, Here DEF Erase
<1>3. Rank(op.a, BlockOf(op.addr))' = BlockOf(op'.data)
  BY <1>1 DEF Progress, Rank
<1>4. \A k \in 0 .. op'.data - 1 :
        \E b \in Before(op.a, BlockOf(op.addr))' : Found(op.a, k, b)'
  <2>1. PICK a : a = op.a
    OBVIOUS
  <2>2. \A k \in 0 .. op.data - 1 : \E b \in Before(a, BlockOf(op.addr)) : Found(a, k, b)'
    BY <1>0, <1>1, <1>2, <2>1, EarlierStays
  <2> QED
    BY <1>1, <2>1, <2>2
<1>5. \A e \in Area : result'[e] = "ok" =>
        \A k \in 0 .. Img[e] - 1 : \E b \in Blocks : Found(e, k, b)'
  BY <1>0, <1>2, OthersStay
<1>6. result'[op'.a] = "none" /\ op'.pc # "return"
  BY <1>1, <1>2 DEF Progress
<1>7. \A i \in 0 .. op'.done - 1 :
        flash'[op'.addr + i] = <<op'.a, ver'[op'.a], op'.data + i>>
  BY <1>1
<1> QED
  BY <1>3, <1>4, <1>5, <1>6, <1>7 DEF Progress

\* The pages of the block that are done after a page was written.
LEMMA ProgramData ==
  ASSUME CallOK, Frugal, Usual, Progress, ProgramPage, NEW i \in 0 .. op.done + Chunk - 1
  PROVE  flash'[op.addr + i] = <<op.a, ver[op.a], op.data + i>>
<1>1. Working /\ Chunk \in 1 .. PageUnits /\ op.done + Chunk <= Size
  BY ProgramCall
<1>2. PICK c \in Nat : c = BlockOf(op.addr) /\ op.addr = At(c)
  BY <1>1, Here
<1>3. /\ Size \in 1 .. BlockUnits /\ op.done \in 0 .. Size - 1 /\ op.data \in Nat
      /\ At(c) \in Nat /\ PageUnits \in Nat /\ BlockUnits \in Nat
  BY <1>1, Here, Dims, AtNext
<1>4. i \in 0 .. BlockUnits - 1 /\ i \in Nat
  BY <1>1, <1>3
<1>5. c \in Blocks
  <2>1. Spared(op.a)
    BY <1>1, Here DEF Usual
  <2> QED
    BY <1>1, <1>2, <2>1, Inside DEF Of
<1>6. PICK x \in Units : x = At(c) + i
  BY <1>4, <1>5, UnitOf
<1>7. flash'[x] = IF x - (op.addr + op.done) \in 0 .. Chunk - 1
                  THEN PageData(Chunk)[x - (op.addr + op.done)] ELSE flash[x]
  BY DEF ProgramPage
<1>8. CASE i < op.done
  <2>1. x - (op.addr + op.done) < 0 /\ i \in 0 .. op.done - 1
    BY <1>2, <1>3, <1>4, <1>6, <1>8
  <2>2. flash'[x] = flash[x]
    BY <1>7, <2>1
  <2>3. flash[op.addr + i] = <<op.a, ver[op.a], op.data + i>>
    BY <1>1, <2>1 DEF Progress
  <2> QED
    BY <1>2, <1>6, <2>2, <2>3
<1>9. CASE i >= op.done
  <2>1. PICK j \in 0 .. Chunk - 1 : j = x - (op.addr + op.done) /\ op.done + j = i
    <3>1. x - (op.addr + op.done) = i - op.done
      BY <1>2, <1>3, <1>4, <1>6
    <3>2. i - op.done \in 0 .. Chunk - 1 /\ op.done + (i - op.done) = i
      BY <1>1, <1>3, <1>4, <1>9
    <3> QED
      BY <3>1, <3>2
  <2>2. flash'[x] = <<op.a, ver[op.a], op.data + op.done + j>>
    BY <1>7, <2>1 DEF PageData
  <2>3. op.data + op.done + j = op.data + i
    BY <1>3, <1>4, <2>1
  <2> QED
    BY <1>2, <1>6, <2>2, <2>3
<1> QED
  BY <1>3, <1>4, <1>8, <1>9

\* They are where a reader finds them.
LEMMA ProgramFound ==
  ASSUME CallOK, Frugal, Usual, Progress, ProgramPage, NEW a, a = op.a, NEW c, c = BlockOf(op.addr),
         NEW i \in 0 .. op.done + Chunk - 1, NEW k, k = op.data + i
  PROVE  Found(a, k, c)'
<1>1. /\ Working /\ c \notin marked /\ Chunk \in 1 .. PageUnits /\ op.done + Chunk <= Size
  BY ProgramCall
<1>2. /\ Size \in 1 .. BlockUnits /\ op.done \in 0 .. Size - 1 /\ PageUnits \in Nat
      /\ BlockUnits \in Nat /\ op.addr = At(c)
  BY <1>1, Here, Dims
<1>3. i \in 0 .. BlockUnits - 1
  BY <1>1, <1>2
<1>4. PICK q \in Nat : q = BlockOf(op.data) /\ op.data = At(q)
  BY <1>1, Here
<1>5. BlockOf(k) = q /\ k % BlockUnits = i
  BY <1>3, <1>4, Join
<1>6. c \in Of(a)
  <2>1. Spared(op.a)
    BY <1>1, Here DEF Usual
  <2> QED
    BY <1>1, <2>1, Inside
<1>7. UNCHANGED <<marked, ver>>
  BY DEF ProgramPage
<1>8. Rank(a, c) = q
  BY <1>1, <1>4 DEF Progress
<1>9. Rank(a, c)' = BlockOf(k) /\ c \notin marked'
  BY <1>1, <1>5, <1>7, <1>8 DEF Rank
<1>10. flash'[At(c) + i] = <<a, ver'[a], k>>
  BY <1>2, <1>7, ProgramData
<1> QED
  BY <1>5, <1>6, <1>9, <1>10 DEF Found

LEMMA ProgramProgress ==
  ASSUME CallOK, Frugal, Usual, Progress, ProgramPage
  PROVE  Progress'
<1>0. [Next]_vars
  BY DEF Next, Driver
<1>1. /\ Working /\ BlockOf(op.addr) \notin marked /\ op' # Idle /\ op'.a = op.a
      /\ Chunk \in 1 .. PageUnits /\ op.done + Chunk <= Size
  BY ProgramCall
<1>2. PICK a \in Area, c \in Nat : a = op.a /\ c = BlockOf(op.addr) /\ op # Idle
  BY <1>1, Here
<1>3. UNCHANGED <<ver, result, marked>>
  BY DEF ProgramPage
<1>4. \A e \in Area : result'[e] = "ok" =>
        \A k \in 0 .. Img[e] - 1 : \E b \in Blocks : Found(e, k, b)'
  BY <1>0, <1>3, OthersStay
<1>5. result'[op'.a] = "none" /\ Rank(a, c) = BlockOf(op.data)
  BY <1>1, <1>2, <1>3 DEF Progress
<1>6. \A k \in 0 .. op.data - 1 : \E b \in Before(a, c) : Found(a, k, b)'
  BY <1>0, <1>1, <1>2, <1>3, EarlierStays
<1>7. /\ Size \in 1 .. BlockUnits /\ op.done \in 0 .. Size - 1 /\ PageUnits \in Nat
      /\ BlockUnits \in Nat /\ op.data \in Nat /\ Img[a] \in Nat
      /\ BlockOf(Base[a]) \in Nat /\ BlockOf(Base[a]) <= c
  BY <1>1, <1>2, Here, Dims
<1>8. c \in Blocks
  BY <1>1, <1>2, Inside DEF Usual, Of
<1>9. \A k \in 0 .. op.data - 1 : \E b \in Before(a, c + 1) : Found(a, k, b)'
  <2>1. Before(a, c) \subseteq Before(a, c + 1)
    BY DEF Before, Blocks
  <2> QED
    BY <1>6, <2>1
<1>10. ASSUME op.done + Chunk = Size, NEW k \in 0 .. op.data + Size - 1
       PROVE  \E b \in Before(a, c + 1) : Found(a, k, b)'
  <2>1. CASE k < op.data
    BY <1>7, <1>9, <1>10, <2>1
  <2>2. CASE k >= op.data
    <3>1. PICK i \in 0 .. op.done + Chunk - 1 : k = op.data + i
      <4>1. k - op.data \in 0 .. op.done + Chunk - 1 /\ k = op.data + (k - op.data)
        BY <1>1, <1>7, <1>10, <2>2
      <4> QED
        BY <4>1
    <3>2. Found(a, k, c)'
      BY <1>2, <3>1, ProgramFound
    <3>3. c \in Before(a, c + 1)
      BY <1>7, <1>8 DEF Before
    <3> QED
      BY <3>2, <3>3
  <2> QED
    BY <1>7, <1>10, <2>1, <2>2
<1>11. CASE /\ op.done + Chunk < Size /\ op'.pc = "pages" /\ op'.done = op.done + Chunk
            /\ op'.addr = op.addr /\ op'.data = op.data
  <2>1. Rank(op.a, BlockOf(op.addr))' = BlockOf(op'.data)
    BY <1>1, <1>2, <1>3, <1>5, <1>11 DEF Rank
  <2>2. \A k \in 0 .. op'.data - 1 :
          \E b \in Before(op.a, BlockOf(op.addr))' : Found(op.a, k, b)'
    BY <1>1, <1>2, <1>6, <1>11
  <2>3. \A i \in 0 .. op'.done - 1 :
          flash'[op'.addr + i] = <<op'.a, ver'[op'.a], op'.data + i>>
    <3>1. \A i \in 0 .. op.done + Chunk - 1 :
            flash'[op.addr + i] = <<op.a, ver[op.a], op.data + i>>
      BY ProgramData
    <3>2. 0 .. op'.done - 1 = 0 .. op.done + Chunk - 1
      BY <1>1, <1>7, <1>11
    <3> QED
      BY <1>1, <1>3, <1>11, <3>1, <3>2, Zenon
  <2> QED
    BY <1>4, <1>5, <1>11, <2>1, <2>2, <2>3 DEF Progress
<1>12. CASE /\ op.done + Chunk = Size /\ op.data + Size = Img[op.a] /\ op'.pc = "return"
  <2>1. \A k \in 0 .. Img[a] - 1 : \E b \in Blocks : Found(a, k, b)'
    <3>1. Before(a, c + 1) \subseteq Blocks
      BY DEF Before
    <3>2. \A k \in 0 .. op.data + Size - 1 : \E b \in Before(a, c + 1) : Found(a, k, b)'
      BY <1>10, <1>12
    <3> QED
      <4>1. 0 .. Img[a] - 1 = 0 .. op.data + Size - 1
        BY <1>2, <1>7, <1>12
      <4> QED
        BY <3>1, <3>2, <4>1, Zenon
  <2>2. ~Working'
    BY <1>12 DEF Working
  <2> QED
    BY <1>1, <1>2, <1>4, <1>5, <2>1, <2>2 DEF Progress
<1>13. CASE /\ op.done + Chunk = Size /\ Size = BlockUnits /\ op'.pc = "block"
            /\ op'.done = 0 /\ op'.addr = op.addr + BlockUnits
            /\ op'.data = op.data + BlockUnits
            /\ BlockOf(op'.data) = BlockOf(op.data) + 1
  <2>1. BlockOf(op'.addr) = c + 1
    BY <1>1, <1>2, <1>13, OneFurther
  <2>2. Rank(a, c + 1)' = Rank(a, c) + 1
    <3>1. c \in Blocks /\ c \notin marked /\ BlockOf(Base[a]) <= c
      BY <1>1, <1>2, <1>7, <1>8
    <3>2. Cardinality(Before(a, c + 1) \ marked) = Cardinality(Before(a, c) \ marked) + 1
      BY <3>1, CountOne
    <3> QED
      BY <1>3, <3>2 DEF Rank
  <2>3. Rank(op.a, BlockOf(op.addr))' = BlockOf(op'.data)
    BY <1>1, <1>2, <1>5, <1>13, <2>1, <2>2
  <2>4. \A k \in 0 .. op'.data - 1 :
          \E b \in Before(op.a, BlockOf(op.addr))' : Found(op.a, k, b)'
    <3>1. \A k \in 0 .. op.data + Size - 1 : \E b \in Before(a, c + 1) : Found(a, k, b)'
      BY <1>10, <1>13
    <3> QED
      <4>1. 0 .. op'.data - 1 = 0 .. op.data + Size - 1 /\ op'.a = a
        BY <1>1, <1>2, <1>7, <1>13
      <4> QED
        BY <2>1, <3>1, <4>1, Zenon
  <2>5. \A i \in 0 .. op'.done - 1 :
          flash'[op'.addr + i] = <<op'.a, ver'[op'.a], op'.data + i>>
    BY <1>13
  <2> QED
    BY <1>4, <1>5, <1>13, <2>3, <2>4, <2>5 DEF Progress
<1> QED
  BY <1>11, <1>12, <1>13, ProgramCall

\* A call that begins.
LEMMA FreshProgress ==
  ASSUME CallOK, Frugal, NEW a \in Area, NEW n \in Nat, op' = Call(a, n), rd' = Idle,
         CallOK', result'[a] = "none",
         \A e \in Area : result'[e] = "ok" =>
           \A k \in 0 .. Img[e] - 1 : \E b \in Blocks : Found(e, k, b)'
  PROVE  Progress'
<1>1. /\ env' \in Setups /\ ver' \in [Area -> Nat]
      /\ result' \in [Area -> {"none", "ok", "failed"}]
  BY DEF CallOK
<1>2. /\ Before(a, BlockOf(op.addr)') = {} /\ BlockOf(op.data)' = 0
      /\ op'.pc = "block" /\ op'.done = 0 /\ op'.a = a /\ op'.data = 0
  BY <1>1, CallFresh
<1>3. Rank(op.a, BlockOf(op.addr))' = BlockOf(op.data)'
  <2>1. Cardinality({} \ marked') = 0
    <3>1. {} \ marked' = {}
      OBVIOUS
    <3> QED
      BY <3>1, FS_EmptySet
  <2> QED
    BY <1>2, <2>1 DEF Rank
<1> QED
  BY <1>2, <1>3 DEF Progress

LEMMA ReturnProgress ==
  ASSUME CallOK, Frugal, Usual, Progress, Return
  PROVE  Progress'
<1>0. [Next]_vars
  BY DEF Next, Driver
<1>1. /\ CallOK' /\ op \in Calls /\ rd' = Idle /\ op # Idle
      /\ \/ op' = Call(op.a, op.tries + 1) /\ result' = result
         \/ /\ op' = Idle
            /\ result' = [result EXCEPT ![op.a] = IF op.stat = OK THEN "ok" ELSE "failed"]
  BY ReturnCall DEF Return, Idle
<1>2. PICK a \in Area, n \in Nat : a = op.a /\ n = op.tries + 1
  BY <1>1 DEF Calls
<1>3. UNCHANGED <<flash, marked, ver>> /\ result \in [Area -> {"none", "ok", "failed"}]
  BY DEF Return, CallOK
<1>4. ASSUME NEW e \in Area, result[e] = "ok", NEW k \in 0 .. Img[e] - 1
      PROVE  \E b \in Blocks : Found(e, k, b)'
  <2>1. ver'[e] = ver[e]
    BY <1>3
  <2> QED
    BY <1>0, <1>4, <2>1, ImageStays
<1>5. CASE op' = Call(op.a, op.tries + 1) /\ result' = result
  <2>1. result'[a] = "none"
    BY <1>1, <1>2, <1>5 DEF Progress
  <2>2. op' = Call(a, n)
    BY <1>2, <1>5
  <2>3. \A e \in Area : result'[e] = "ok" =>
          \A k \in 0 .. Img[e] - 1 : \E b \in Blocks : Found(e, k, b)'
    BY <1>4, <1>5
  <2> QED
    BY <1>1, <2>1, <2>2, <2>3, FreshProgress
<1>6. CASE /\ op' = Idle
           /\ result' = [result EXCEPT ![op.a] = IF op.stat = OK THEN "ok" ELSE "failed"]
  <2>1. \A k \in 0 .. Img[a] - 1 : \E b \in Blocks : Found(a, k, b)'
    <3>1. \A k \in 0 .. Img[a] - 1 : \E b \in Blocks : Found(a, k, b)
      BY <1>2 DEF Progress, Return
    <3> QED
      BY <1>3, <3>1 DEF Found, Rank
  <2>2. \A e \in Area : result'[e] = "ok" =>
          \A k \in 0 .. Img[e] - 1 : \E b \in Blocks : Found(e, k, b)'
    <3>1. SUFFICES ASSUME NEW e \in Area, result'[e] = "ok"
                   PROVE  \A k \in 0 .. Img[e] - 1 : \E b \in Blocks : Found(e, k, b)'
      OBVIOUS
    <3>2. CASE e = a
      BY <2>1, <3>2
    <3>3. CASE e # a
      <4>1. result[e] = "ok"
        BY <1>2, <1>3, <1>6, <3>1, <3>3
      <4> QED
        BY <1>4, <4>1
    <3> QED
      BY <3>2, <3>3
  <2>3. op'.pc = "idle"
    BY <1>6 DEF Idle
  <2> QED
    BY <1>6, <2>2, <2>3 DEF Progress, Working
<1> QED
  BY <1>1, <1>5, <1>6

LEMMA UpgradeProgress ==
  ASSUME CallOK, Frugal, Usual, Progress, NEW a \in Area, Upgrade(a)
  PROVE  Progress'
<1>0. [Next]_vars
  BY DEF Next
<1>1. /\ CallOK' /\ op' = Call(a, 1) /\ rd' = Idle
      /\ ver' = [ver EXCEPT ![a] = ver[a] + 1] /\ result' = [result EXCEPT ![a] = "none"]
      /\ ver \in [Area -> Nat] /\ result \in [Area -> {"none", "ok", "failed"}]
  BY UpgradeCall
<1>2. \A e \in Area : result'[e] = "ok" =>
        \A k \in 0 .. Img[e] - 1 : \E b \in Blocks : Found(e, k, b)'
  <2>1. SUFFICES ASSUME NEW e \in Area, result'[e] = "ok", NEW k \in 0 .. Img[e] - 1
                 PROVE  \E b \in Blocks : Found(e, k, b)'
    OBVIOUS
  <2>2. e # a
    BY <1>1, <2>1
  <2>3. result[e] = "ok" /\ ver'[e] = ver[e]
    BY <1>1, <2>1, <2>2
  <2> QED
    BY <1>0, <2>3, ImageStays
<1>3. result'[a] = "none" /\ 1 \in Nat
  BY <1>1
<1> QED
  BY <1>1, <1>2, <1>3, FreshProgress

LEMMA PowerOffProgress ==
  ASSUME CallOK, Frugal, Usual, Progress, PowerOff
  PROVE  Progress'
<1>0. [Next]_vars /\ UNCHANGED <<ver, result>> /\ op' = Idle
  BY DEF Next, PowerOff
<1>1. \A e \in Area : result'[e] = "ok" =>
        \A k \in 0 .. Img[e] - 1 : \E b \in Blocks : Found(e, k, b)'
  BY <1>0, OthersStay
<1>2. op'.pc = "idle"
  BY <1>0 DEF Idle
<1> QED
  BY <1>0, <1>1, <1>2 DEF Progress, Working

LEMMA StayProgress ==
  ASSUME Progress, UNCHANGED <<flash, marked, ver, result, op>>
  PROVE  Progress'
BY DEF Progress, Found, Rank, Working

LEMMA StepProgress ==
  ASSUME CallOK, Frugal, Usual, Progress, [Next]_vars, Usual'
  PROVE  Progress'
<1>1. CASE EraseFailed
  <2>1. Working /\ Failed(ERASE, InBlock(BlockOf(op.addr))) /\ ERASE \in Nat
    BY <1>1 DEF EraseFailed, Working, ERASE
  <2> QED
    BY <2>1, FailedProgress
<1>2. CASE PageFailed
  <2>1. Working /\ PROGRAM \in Nat
    BY <1>2 DEF PageFailed, Working, PROGRAM
  <2>2. PICK lost : Failed(PROGRAM, lost)
    BY <1>2 DEF PageFailed
  <2> QED
    BY <2>1, <2>2, FailedProgress
<1>3. CASE \/ RdSkip \/ RdPage \/ RdFailed \/ RdDone
           \/ \E a \in Area : \E n \in 1 .. Img[a] : Load(a, n)
           \/ \E b \in Blocks : Wear(b)
  BY <1>3, ReadCall, StayProgress
<1>4. CASE UNCHANGED vars
  BY <1>4, StayProgress DEF vars
<1>5. CASE Skip \/ Erase \/ ProgramPage \/ Return \/ PowerOff
  BY <1>5, SkipProgress, EraseProgress, ProgramProgress, ReturnProgress, PowerOffProgress
<1>6. ASSUME NEW a \in Area, Upgrade(a) PROVE Progress'
  BY <1>6, UpgradeProgress
<1> QED
  BY <1>1, <1>2, <1>3, <1>4, <1>5, <1>6 DEF Next, Driver
-----------------------------------------------------------------------------
(* The reader's place                                                       *)

Whole(x) == x % PageUnits = 0

LEMMA WholeMultiple ==
  ASSUME NEW x \in Nat
  PROVE  Whole(x) <=> \E m \in Nat : x = m * PageUnits
<1>1. PICK p \in Nat \ {0} : p = PageUnits
  BY Dims
<1>2. ASSUME Whole(x) PROVE \E m \in Nat : x = m * p
  <2>1. PICK q \in Nat, r \in 0 .. p - 1 : r = x % p /\ x = p * q + r
    BY Division
  <2>2. r = 0
    BY <1>1, <1>2, <2>1 DEF Whole
  <2>3. x = q * p
    BY <2>1, <2>2
  <2> QED
    BY <2>3
<1>3. ASSUME NEW m \in Nat, x = m * p PROVE Whole(x)
  <2>1. x = m * p + 0 /\ 0 \in 0 .. p - 1
    BY <1>3
  <2>2. x % p = 0
    BY <2>1, Quotient
  <2> QED
    BY <1>1, <2>2 DEF Whole
<1> QED
  BY <1>1, <1>2, <1>3

LEMMA WholeSum ==
  ASSUME NEW x \in Nat, NEW y \in Nat, Whole(x)
  PROVE  Whole(y) <=> Whole(x + y)
<1>1. PICK p \in Nat \ {0} : p = PageUnits
  BY Dims
<1>2. PICK m \in Nat : x = m * p
  BY <1>1, WholeMultiple
<1>3. ASSUME NEW n \in Nat, y = n * p PROVE Whole(x + y)
  <2>1. x + y = (m + n) * p /\ m + n \in Nat /\ x + y \in Nat
    BY <1>2, <1>3
  <2> QED
    BY <1>1, <2>1, WholeMultiple
<1>4. ASSUME NEW n \in Nat, x + y = n * p PROVE Whole(y)
  <2>1. y = (n - m) * p
    <3>1. (n - m) * p = n * p - m * p
      BY <1>2, <1>4
    <3>2. n * p \in Nat /\ m * p \in Nat
      OBVIOUS
    <3> QED
      BY <1>2, <1>4, <3>1, <3>2
  <2>2. n - m >= 0
    <3>1. SUFFICES ASSUME n - m <= -1 PROVE FALSE
      OBVIOUS
    <3>2. (n - m) * p <= -p
      BY <3>1
    <3> QED
      BY <2>1, <3>2
  <2>3. n - m \in Nat
    BY <2>2
  <2> QED
    BY <1>1, <2>1, <2>3, WholeMultiple
<1>5. x + y \in Nat
  OBVIOUS
<1> QED
  BY <1>1, <1>3, <1>4, <1>5, WholeMultiple

LEMMA WholeFacts ==
  /\ Whole(0) /\ Whole(PageUnits) /\ Whole(BlockUnits)
  /\ \A b \in Nat : Whole(At(b))
  /\ \A x \in Nat \ {0} : Whole(x) => PageUnits <= x
<1>1. PICK p \in Nat \ {0}, n \in Nat \ {0} : p = PageUnits /\ n = BlockPages /\ BlockUnits = n * p
  BY Dims
<1>2. Whole(0) /\ Whole(PageUnits)
  <2>1. 0 = 0 * p /\ p = 1 * p /\ 0 \in Nat /\ 1 \in Nat /\ p \in Nat
    OBVIOUS
  <2> QED
    BY <1>1, <2>1, WholeMultiple
<1>3. ASSUME NEW b \in Nat PROVE Whole(At(b))
  <2>1. b * (n * p) = (b * n) * p /\ b * n \in Nat /\ b * (n * p) \in Nat
    BY <1>1
  <2> QED
    BY <1>1, <2>1, WholeMultiple DEF At
<1>4. Whole(BlockUnits)
  BY <1>1, Dims, WholeMultiple
<1>5. ASSUME NEW x \in Nat \ {0}, Whole(x) PROVE PageUnits <= x
  <2>1. PICK m \in Nat : x = m * p
    BY <1>1, <1>5, WholeMultiple
  <2>2. m # 0
    BY <2>1
  <2>3. p <= m * p
    BY <2>2
  <2> QED
    BY <1>1, <2>1, <2>3
<1> QED
  BY <1>2, <1>3, <1>4, <1>5

\* Units of one page from its start.
LEMMA SamePage ==
  ASSUME NEW x \in Nat, Whole(x), NEW i \in 0 .. PageUnits - 1
  PROVE  PageOf(x + i) = PageOf(x) /\ PageOf(x) * PageUnits = x /\ BlockOf(x + i) = BlockOf(x)
<1>1. PICK p \in Nat \ {0} : p = PageUnits
  BY Dims
<1>2. PICK m \in Nat : x = m * p
  BY <1>1, WholeMultiple
<1>3. i \in 0 .. p - 1 /\ 0 \in 0 .. p - 1 /\ i \in Nat
  BY <1>1
<1>4. x = m * p + 0 /\ x + i = m * p + i /\ x + i \in Nat
  BY <1>2, <1>3
<1>5. x \div p = m
  BY <1>3, <1>4, Quotient
<1>6. PICK y \in Nat : y = x + i
  BY <1>4
<1>7. y \div p = m
  BY <1>3, <1>4, <1>6, Quotient
<1>8. PageOf(x + i) = PageOf(x) /\ PageOf(x) * PageUnits = x
  BY <1>1, <1>2, <1>5, <1>6, <1>7 DEF PageOf
<1> QED
  BY <1>4, <1>8, PageInBlock

\* A page further: in the same block, or at the start of the next one.
LEMMA PageFurther ==
  ASSUME NEW x \in Nat, Whole(x)
  PROVE  LET r == x % BlockUnits IN
         /\ r \in Nat /\ r + PageUnits <= BlockUnits
         /\ r + PageUnits < BlockUnits =>
              /\ BlockOf(x + PageUnits) = BlockOf(x)
              /\ (x + PageUnits) % BlockUnits = r + PageUnits
         /\ r + PageUnits = BlockUnits =>
              /\ BlockOf(x + PageUnits) = BlockOf(x) + 1
              /\ (x + PageUnits) % BlockUnits = 0
<1>1. PICK p \in Nat \ {0}, u \in Nat \ {0} : p = PageUnits /\ u = BlockUnits
  BY Dims
<1>2. PICK c \in Nat, r \in 0 .. u - 1 :
        c = BlockOf(x) /\ r = x % BlockUnits /\ x = At(c) + r /\ At(c) \in Nat
  BY <1>1, Split
<1>3. Whole(r)
  BY <1>1, <1>2, WholeFacts, WholeSum
<1>4. r + p <= u
  <2>1. u - r \in Nat \ {0} /\ r + (u - r) = u /\ r \in Nat
    BY <1>2
  <2>2. Whole(u - r)
    BY <1>1, <1>3, <2>1, WholeFacts, WholeSum
  <2>3. p <= u - r
    BY <1>1, <2>1, <2>2, WholeFacts
  <2> QED
    BY <1>2, <2>3
<1>5. x + p = At(c) + (r + p)
  BY <1>2
<1>6. ASSUME r + p < u PROVE BlockOf(x + p) = c /\ (x + p) % BlockUnits = r + p
  <2>1. PICK s \in 0 .. BlockUnits - 1 : s = r + p
    BY <1>1, <1>2, <1>6
  <2> QED
    BY <1>5, <2>1, Join
<1>7. ASSUME r + p = u PROVE BlockOf(x + p) = c + 1 /\ (x + p) % BlockUnits = 0
  <2>1. x + p = At(c + 1) /\ c + 1 \in Nat
    <3>1. At(c + 1) = At(c) + u
      BY <1>1, AtNext
    <3> QED
      BY <1>2, <1>5, <1>7, <3>1
  <2> QED
    BY <2>1, AtNext
<1> QED
  BY <1>1, <1>2, <1>4, <1>6, <1>7

\* With no read under way there is nothing to say.
LEMMA NotReading ==
  ASSUME rd' = Idle
  PROVE  Reading' /\ LoadedIsImage'
<1>1. rd'.pc = "idle"
  BY DEF Idle
<1> QED
  BY <1>1 DEF Reading, LoadedIsImage

LEMMA LoadReading ==
  ASSUME CallOK, NEW a \in Area, NEW n \in 1 .. Img[a], Load(a, n)
  PROVE  Reading' /\ LoadedIsImage'
<1>1. /\ rd'.pc = "read" /\ rd'.a = a /\ rd'.addr = Base[a] /\ rd'.at = 0
      /\ rd'.len = n /\ rd'.asked = n
  BY DEF Load
<1>2. /\ Base[a] \in Nat /\ Img[a] \in Nat /\ BlockOf(Base[a]) \in Nat
      /\ Base[a] = At(BlockOf(Base[a]))
  BY Areas
<1>3. Whole(Base[a]) /\ Whole(0)
  BY <1>2, WholeFacts
<1>4. Base[a] % BlockUnits = 0 /\ 0 % BlockUnits = 0 /\ BlockOf(0) = 0
  <2>1. At(0) = 0 /\ At(0) % BlockUnits = 0 /\ BlockOf(At(0)) = 0
    BY AtNext
  <2> QED
    BY <1>2, <2>1, AtNext
<1>5. Rank(a, BlockOf(Base[a]))' = 0
  <2>1. Before(a, BlockOf(Base[a])) \ marked' = {}
    BY <1>2 DEF Before, Blocks
  <2> QED
    BY <2>1, FS_EmptySet DEF Rank
<1>6. ReadAt'
  <2>1. rd'.asked \in 1 .. Img[rd'.a] /\ rd'.len \in 1 .. rd'.asked /\ rd'.at = rd'.asked - rd'.len
    BY <1>1, <1>2
  <2>2. BlockOf(Base[rd'.a]) <= BlockOf(rd'.addr)
    BY <1>1, <1>2
  <2>3. \A k \in 0 .. rd'.at - 1 : buf'[k] = <<rd'.a, ver'[rd'.a], k>>
    BY <1>1
  <2> QED
    BY <1>1, <1>3, <1>4, <1>5, <2>1, <2>2, <2>3 DEF ReadAt, Whole
<1> QED
  BY <1>1, <1>6 DEF Reading, LoadedIsImage

LEMMA SkipReading ==
  ASSUME CallOK, Reading, RdSkip
  PROVE  Reading' /\ LoadedIsImage'
<1>1. rd \in Reads /\ rd.pc = "read" /\ rd.a \in Area
  BY DEF CallOK, RdSkip, Idle, Reads
<1>2. PICK c \in Nat, r \in 0 .. BlockUnits - 1 :
        /\ c = BlockOf(rd.addr) /\ r = rd.addr % BlockUnits /\ rd.addr = At(c) + r
        /\ At(c) \in Nat
  BY <1>1, Split DEF Reads
<1>3. r = 0 /\ c \in marked
  BY <1>2 DEF RdSkip, VeffBad
<1>4. /\ rd' = [rd EXCEPT !.addr = rd.addr + BlockUnits] /\ UNCHANGED <<marked, ver, result, buf>>
  BY DEF RdSkip
<1>5. /\ rd'.pc = "read" /\ rd'.a = rd.a /\ rd'.addr = rd.addr + BlockUnits /\ rd'.at = rd.at
      /\ rd'.len = rd.len /\ rd'.asked = rd.asked
  BY <1>1, <1>4 DEF Reads
<1>6. rd'.addr = At(c + 1) /\ c + 1 \in Nat
  BY <1>2, <1>3, <1>5, AtNext
<1>7. BlockOf(rd'.addr) = c + 1 /\ rd'.addr % BlockUnits = 0 /\ Whole(rd'.addr)
  BY <1>6, AtNext, WholeFacts
<1>8. ASSUME ReadAt PROVE ReadAt'
  <2>1. Rank(rd.a, c + 1)' = Rank(rd.a, c)
    <3>1. BlockOf(Base[rd.a]) \in Nat /\ rd'.a = rd.a
      BY <1>1, <1>5, Areas
    <3>2. Before(rd.a, c + 1) \ marked = Before(rd.a, c) \ marked
      BY <1>3, <3>1 DEF Before, Blocks
    <3> QED
      BY <1>4, <3>1, <3>2 DEF Rank
  <2>2. Rank(rd.a, BlockOf(rd.addr))' = BlockOf(rd.at)'
    BY <1>2, <1>5, <1>7, <1>8, <2>1 DEF ReadAt
  <2>3. BlockOf(Base[rd'.a]) <= BlockOf(rd'.addr)
    <3>1. BlockOf(Base[rd.a]) \in Nat /\ BlockOf(Base[rd.a]) <= c
      BY <1>1, <1>2, <1>8, Areas DEF ReadAt
    <3> QED
      BY <1>5, <1>7, <3>1
  <2>4. rd.at % BlockUnits = 0
    BY <1>2, <1>3, <1>8 DEF ReadAt
  <2> QED
    BY <1>4, <1>5, <1>7, <1>8, <2>2, <2>3, <2>4 DEF ReadAt, Whole
<1> QED
  BY <1>1, <1>4, <1>5, <1>8 DEF Reading, LoadedIsImage, Regular

\* The reader's block holds what it looks for.
LEMMA ReadBlock ==
  ASSUME CallOK, Progress, ReadAt, rd.pc = "read", result[rd.a] = "ok", ~VeffBad(rd.addr),
         NEW i \in 0 .. PageUnits - 1, rd.at + i < rd.asked
  PROVE  /\ BlockOf(rd.addr) \in Blocks \ marked
         /\ flash[rd.addr + i] = <<rd.a, ver[rd.a], rd.at + i>>
<1>0. i \in Nat
  BY Dims
<1>1. rd \in Reads /\ rd.a \in Area /\ rd.addr \in Nat /\ rd.at \in Nat /\ rd.asked \in Nat
  BY DEF CallOK, Idle, Reads
<1>2. PICK a \in Area, k \in Nat : a = rd.a /\ k = rd.at + i
  BY <1>0, <1>1
<1>3. PICK c \in Nat, r \in Nat :
        c = BlockOf(rd.addr) /\ r = rd.addr % BlockUnits /\ rd.addr = At(c) + r /\ At(c) \in Nat
  BY <1>1, Split
<1>4. c \notin marked
  BY <1>3 DEF VeffBad, ReadAt
<1>5. PICK q \in Nat : q = BlockOf(rd.at) /\ rd.at = At(q) + r /\ At(q) \in Nat
  <2>1. rd.at % BlockUnits = r
    BY <1>3 DEF ReadAt
  <2> QED
    BY <1>1, <2>1, Split
<1>6. BlockOf(k) = q
  <2>1. Whole(rd.at)
    BY DEF ReadAt, Whole
  <2> QED
    BY <1>1, <1>2, <1>5, <2>1, SamePage
<1>7. k % BlockUnits = r + i
  <2>1. PICK s \in Nat : s = k % BlockUnits /\ k = At(q) + s
    BY <1>6, Split
  <2>2. PICK x \in Nat : x = At(q)
    BY <1>5
  <2>3. k = x + s /\ rd.at = x + r /\ k = rd.at + i /\ r \in Nat /\ s \in Nat /\ i \in Nat
    BY <1>0, <1>2, <1>3, <1>5, <2>1, <2>2
  <2>4. s = r + i
    BY <2>3
  <2> QED
    BY <2>1, <2>4
<1>8. k \in 0 .. Img[a] - 1
  <2>1. rd.asked <= Img[a] /\ Img[a] \in Nat /\ k < rd.asked
    BY <1>1, <1>2, Areas DEF ReadAt
  <2> QED
    BY <1>1, <2>1
<1>9. PICK b \in Blocks : Found(a, k, b)
  BY <1>2, <1>8 DEF Progress
<1>10. /\ b \in Blocks \ marked /\ b \in Nat /\ BlockOf(Base[a]) <= b /\ Rank(a, b) = q
       /\ flash[At(b) + (k % BlockUnits)] = <<a, ver[a], k>>
  <2>1. b \in Of(a) /\ b \in Nat
    BY <1>9 DEF Found, Blocks
  <2> QED
    BY <1>6, <1>9, <2>1, OfBlock DEF Found
<1>11. Rank(a, c) = q /\ BlockOf(Base[a]) <= c
  BY <1>2, <1>3, <1>5 DEF ReadAt
<1>12. b = c
  BY <1>4, <1>10, <1>11, RankUnique
<1>13. rd.addr + i = At(b) + (k % BlockUnits)
  <2>1. PICK x \in Nat : x = At(b)
    BY <1>3, <1>12
  <2>2. rd.addr = x + r /\ r \in Nat /\ i \in Nat
    BY <1>0, <1>3, <1>12, <2>1
  <2>3. rd.addr + i = x + (r + i)
    BY <2>2
  <2> QED
    BY <1>7, <2>1, <2>3
<1> QED
  BY <1>2, <1>3, <1>10, <1>12, <1>13

LEMMA PageReading ==
  ASSUME CallOK, Progress, Reading, RdPage
  PROVE  Reading' /\ LoadedIsImage'
<1>0. PICK p \in Nat \ {0} : p = PageUnits
  BY Dims
<1>1. /\ rd \in Reads /\ rd.pc = "read" /\ rd.a \in Area /\ rd.addr \in Nat /\ rd.at \in Nat
      /\ rd.asked \in Nat /\ rd.len \in Nat /\ ~VeffBad(rd.addr)
  BY DEF CallOK, RdPage, Idle, Reads
<1>2. PICK n \in 0 .. p : n = Least(rd.len, PageUnits) /\ n <= rd.len
  BY <1>0, <1>1 DEF Least
<1>3. PICK left \in Nat : left = rd.len - n
  BY <1>1, <1>2
<1>4. PICK d \in Nat : d = Advance(left) /\ (left = 0 => d = 0) /\ (p <= left => d = p)
  BY <1>0, <1>3 DEF Advance, Least
<1>5. UNCHANGED <<marked, ver, result>>
  BY DEF RdPage
<1>6. rd' = [rd EXCEPT !.len = left, !.addr = rd.addr + d, !.at = rd.at + d,
                       !.pc = IF left = 0 THEN "done" ELSE rd.pc]
  BY <1>2, <1>3, <1>4 DEF RdPage
<1>7. /\ rd'.a = rd.a /\ rd'.addr = rd.addr + d /\ rd'.at = rd.at + d /\ rd'.len = left
      /\ rd'.asked = rd.asked /\ rd'.pc = IF left = 0 THEN "done" ELSE "read"
  BY <1>1, <1>6 DEF Reads
<1>8. SUFFICES ASSUME Regular, result[rd.a] = "ok", ReadAt
               PROVE  /\ left # 0 => ReadAt'
                      /\ left = 0 => \A k \in 0 .. rd.asked - 1 : buf'[k] = <<rd.a, ver[rd.a], k>>
  BY <1>1, <1>5, <1>7 DEF Reading, LoadedIsImage, Regular
<1>9. /\ Whole(rd.at) /\ Whole(rd.addr) /\ rd.at + rd.len = rd.asked /\ rd.len >= 1
      /\ rd.asked <= Img[rd.a] /\ Img[rd.a] \in Nat /\ n >= 1
  <2>1. Img[rd.a] \in Nat
    BY <1>1, Areas
  <2>2. rd.len >= 1 /\ rd.at = rd.asked - rd.len /\ rd.asked <= Img[rd.a]
    BY <1>1, <1>8, <2>1 DEF ReadAt
  <2> QED
    BY <1>0, <1>1, <1>2, <1>8, <2>1, <2>2 DEF ReadAt, Whole, Least
<1>10. \A k \in 0 .. rd.at + n - 1 : buf'[k] = <<rd.a, ver[rd.a], k>>
  <2>1. SUFFICES ASSUME NEW k \in 0 .. rd.at + n - 1 PROVE buf'[k] = <<rd.a, ver[rd.a], k>>
    OBVIOUS
  <2>2. k \in 0 .. Img[rd.a] - 1
    BY <1>1, <1>2, <1>9
  <2>3. k \in Offset
    BY <1>1, <2>2 DEF Offset
  <2>4. PageOf(rd.addr) * PageUnits = rd.addr
    <3>1. 0 \in 0 .. PageUnits - 1
      BY <1>0
    <3> QED
      BY <1>1, <1>9, <3>1, SamePage
  <2>5. buf'[k] = IF k - rd.at \in 0 .. n - 1 THEN flash[rd.addr + k - rd.at] ELSE buf[k]
    BY <1>2, <2>3, <2>4 DEF RdPage
  <2>6. CASE k < rd.at
    <3>1. ~(k - rd.at \in 0 .. n - 1) /\ k \in 0 .. rd.at - 1
      BY <1>1, <1>2, <2>6
    <3> QED
      BY <1>8, <2>5, <3>1 DEF ReadAt
  <2>7. CASE k >= rd.at
    <3>1. PICK i \in 0 .. n - 1 : i = k - rd.at /\ rd.at + i = k /\ rd.addr + k - rd.at = rd.addr + i
      <4>1. /\ k - rd.at \in 0 .. n - 1 /\ rd.at + (k - rd.at) = k
            /\ rd.addr + k - rd.at = rd.addr + (k - rd.at)
        BY <1>1, <1>2, <2>7
      <4> QED
        BY <4>1
    <3>2. i \in 0 .. PageUnits - 1 /\ rd.at + i < rd.asked
      BY <1>0, <1>1, <1>2, <1>9, <3>1
    <3>3. flash[rd.addr + i] = <<rd.a, ver[rd.a], rd.at + i>>
      BY <1>1, <1>8, <3>2, ReadBlock
    <3> QED
      BY <2>5, <3>1, <3>3
  <2> QED
    BY <1>1, <1>2, <2>6, <2>7
<1>11. CASE left = 0
  <2>1. 0 .. rd.at + n - 1 = 0 .. rd.asked - 1
    BY <1>1, <1>2, <1>3, <1>9, <1>11
  <2> QED
    BY <1>10, <1>11, <2>1
<1>12. CASE left # 0
  <2>1. n = p /\ rd.len = left + p
    BY <1>0, <1>1, <1>2, <1>3, <1>12 DEF Least
  <2>2. Whole(rd.asked)
    <3>1. ~(rd.asked < PageUnits)
      BY <1>0, <1>1, <1>3, <1>9, <1>12, <2>1
    <3> QED
      BY <1>8, <3>1 DEF Regular, Whole
  <2>3. Whole(rd.len)
    BY <1>1, <1>9, <2>2, WholeSum
  <2>4. Whole(left)
    BY <1>0, <2>1, <2>3, WholeSum, WholeFacts
  <2>5. d = p
    <3>1. PageUnits <= left
      BY <1>12, <2>4, WholeFacts
    <3> QED
      BY <1>0, <1>4, <3>1
  <2>6. Whole(rd.at + p) /\ Whole(rd.addr + p)
    BY <1>0, <1>1, <1>9, WholeSum, WholeFacts
  <2>7. PICK a \in Area, c \in Nat, q \in Nat, r \in Nat :
          /\ a = rd.a /\ c = BlockOf(rd.addr) /\ q = BlockOf(rd.at)
          /\ r = rd.addr % BlockUnits /\ r = rd.at % BlockUnits
    <3>1. rd.addr % BlockUnits = rd.at % BlockUnits
      BY <1>8 DEF ReadAt
    <3>2. rd.addr % BlockUnits \in Nat /\ BlockOf(rd.addr) \in Nat /\ BlockOf(rd.at) \in Nat
      <4>1. PICK v \in Nat \ {0} : v = BlockUnits
        BY Dims
      <4>2. rd.addr % BlockUnits \in 0 .. v - 1 /\ BlockOf(rd.addr) \in Nat /\ BlockOf(rd.at) \in Nat
        BY <1>1, <4>1, Split
      <4> QED
        BY <4>2
    <3> QED
      BY <1>1, <3>1, <3>2
  <2>8. c \in Blocks /\ c \notin marked
    <3>1. 0 \in 0 .. PageUnits - 1 /\ rd.at + 0 < rd.asked
      BY <1>0, <1>1, <1>9
    <3> QED
      BY <1>1, <1>8, <2>7, <3>1, ReadBlock
  <2>9. Rank(a, c) = q /\ BlockOf(Base[a]) <= c /\ BlockOf(Base[a]) \in Nat
    BY <1>8, <2>7, Areas DEF ReadAt
  <2>10. PICK u \in Nat \ {0} : u = BlockUnits
    BY Dims
  <2>11. /\ r + p <= u
         /\ r + p < u => /\ BlockOf(rd.addr + p) = c /\ BlockOf(rd.at + p) = q
                         /\ (rd.addr + p) % BlockUnits = r + p
                         /\ (rd.at + p) % BlockUnits = r + p
         /\ r + p = u => /\ BlockOf(rd.addr + p) = c + 1 /\ BlockOf(rd.at + p) = q + 1
                         /\ (rd.addr + p) % BlockUnits = 0
                         /\ (rd.at + p) % BlockUnits = 0
    BY <1>0, <1>1, <1>9, <2>7, <2>10, PageFurther
  <2>12. /\ Rank(a, BlockOf(rd.addr + p)) = BlockOf(rd.at + p)
         /\ (rd.addr + p) % BlockUnits = (rd.at + p) % BlockUnits
         /\ BlockOf(Base[a]) <= BlockOf(rd.addr + p)
         /\ (rd.addr + p) % BlockUnits # 0 => BlockOf(rd.addr + p) \notin marked
    <3>1. CASE r + p < u
      BY <2>8, <2>9, <2>11, <3>1
    <3>2. CASE r + p = u
      <4>1. Rank(a, c + 1) = q + 1
        <5>1. Cardinality(Before(a, c + 1) \ marked) = Cardinality(Before(a, c) \ marked) + 1
          BY <2>8, <2>9, CountOne
        <5> QED
          BY <2>8, <2>9, <5>1 DEF Rank
      <4>2. BlockOf(Base[a]) <= c + 1
        BY <2>9
      <4> QED
        BY <2>11, <3>2, <4>1, <4>2
    <3> QED
      BY <2>10, <2>11, <3>1, <3>2
  <2>13. /\ rd'.a = a /\ rd'.addr = rd.addr + p /\ rd'.at = rd.at + p /\ rd'.len = left
         /\ rd'.asked = rd.asked
    BY <1>7, <2>5, <2>7
  <2>14. Rank(rd.a, BlockOf(rd.addr))' = BlockOf(rd.at)'
    BY <1>5, <2>12, <2>13 DEF Rank
  <2>15. /\ rd'.asked \in 1 .. Img[rd'.a] /\ rd'.len \in 1 .. rd'.asked
         /\ rd'.at = rd'.asked - rd'.len
    <3>1. /\ rd.asked \in 1 .. Img[rd.a] /\ left \in 1 .. rd.asked
          /\ rd.at + p = rd.asked - left
      BY <1>1, <1>9, <1>12, <2>1
    <3> QED
      BY <2>7, <2>13, <3>1
  <2>16. ~(rd'.asked < PageUnits)
    BY <1>0, <1>1, <1>3, <1>9, <2>1, <2>13
  <2>17. \A k \in 0 .. rd'.at - 1 : buf'[k] = <<rd'.a, ver'[rd'.a], k>>
    <3>1. 0 .. rd'.at - 1 = 0 .. rd.at + n - 1
      BY <1>1, <2>1, <2>13
    <3> QED
      BY <1>5, <1>10, <2>7, <2>13, <3>1, Zenon
  <2> QED
    BY <1>5, <1>12, <2>6, <2>12, <2>13, <2>14, <2>15, <2>16, <2>17 DEF ReadAt, Whole
<1> QED
  BY <1>11, <1>12

LEMMA StepReading ==
  ASSUME CallOK, Frugal, Usual, Progress, Reading, LoadedIsImage, [Next]_vars
  PROVE  Reading' /\ LoadedIsImage'
<1>1. CASE RdSkip \/ RdPage
  BY <1>1, SkipReading, PageReading
<1>2. CASE RdFailed
  <2>1. rd \in Reads
    BY <1>2 DEF CallOK, RdFailed, Idle
  <2>2. rd'.pc = "done" /\ rd'.stat = HWR
    BY <1>2, <2>1 DEF RdFailed, Reads
  <2> QED
    BY <2>2 DEF Reading, LoadedIsImage, HWR, OK
<1>3. CASE RdDone
  BY <1>3, NotReading DEF RdDone
<1>4. CASE \E a \in Area : \E n \in 1 .. Img[a] : Load(a, n)
  BY <1>4, LoadReading
<1>5. CASE (\E b \in Blocks : Wear(b)) \/ UNCHANGED vars
  <2>1. UNCHANGED <<env, marked, announced, ver, result, rd, buf>>
    BY <1>5 DEF Wear, vars
  <2>2. Reading'
    BY <2>1 DEF Reading, ReadAt, Regular, Rank
  <2>3. LoadedIsImage'
    <3>1. /\ rd.pc = "done" /\ rd.stat = OK /\ result[rd.a] = "ok"
          /\ (rd.asked % PageUnits = 0 \/ rd.asked < PageUnits)
          => \A k \in 0 .. rd.asked - 1 : buf[k] = <<rd.a, ver[rd.a], k>>
      BY DEF LoadedIsImage, Usual
    <3> QED
      BY <2>1, <3>1 DEF LoadedIsImage
  <2> QED
    BY <2>2, <2>3
<1>6. CASE Skip \/ Erase \/ EraseFailed \/ ProgramPage \/ PageFailed \/ Return \/ PowerOff
  <2>1. op # Idle
    BY <1>6 DEF Skip, Erase, EraseFailed, ProgramPage, PageFailed, Return, PowerOff, Idle
  <2>2. rd = Idle
    BY <2>1 DEF CallOK
  <2>3. UNCHANGED rd
    BY <1>6 DEF Skip, Erase, EraseFailed, ProgramPage, PageFailed, Failed, Return, PowerOff
  <2> QED
    BY <2>2, <2>3, NotReading
<1>7. CASE \E a \in Area : Upgrade(a)
  BY <1>7, NotReading DEF Upgrade
<1> QED
  BY <1>1, <1>2, <1>3, <1>4, <1>5, <1>6, <1>7 DEF Next, Driver

LEMMA NandInit ==
  ASSUME Init
  PROVE  NandInv
<1>1. CallOK /\ Frugal
  BY InitCall
<1>2. op.pc = "idle" /\ rd.pc = "idle" /\ op = Idle
  BY DEF Init, Idle
<1>3. \A a \in Area : result[a] # "ok"
  BY DEF Init
<1> QED
  BY <1>1, <1>2, <1>3 DEF NandInv, Progress, Reading, LoadedIsImage, Working

LEMMA NandStep ==
  ASSUME NandInv, [Next]_vars
  PROVE  NandInv'
<1>1. CallOK /\ Frugal
  BY DEF NandInv
<1>2. CallOK' /\ Frugal'
  BY <1>1, StepCall
<1>3. ASSUME Usual' PROVE Progress' /\ Reading' /\ LoadedIsImage'
  <2>1. Usual
    BY <1>1, <1>3, UsualBefore
  <2>2. Progress /\ Reading /\ LoadedIsImage
    BY <2>1 DEF NandInv
  <2> QED
    BY <1>1, <1>3, <2>1, <2>2, StepProgress, StepReading
<1> QED
  BY <1>2, <1>3 DEF NandInv

\* The block a reader finds is the one that was written.
LEMMA PlaceFound ==
  ASSUME NEW a \in Area, NEW k \in Nat, NEW b \in Blocks, Found(a, k, b)
  PROVE  Place(a, k) = At(b) + (k % BlockUnits)
<1>1. PICK i \in Nat : i = k \div BlockUnits /\ i = BlockOf(k)
  BY Split DEF BlockOf
<1>2. b \in Blocks \ marked /\ b \in Nat /\ b \in Of(a) /\ Rank(a, b) = i
  BY <1>1 DEF Found, Blocks
<1>3. BlockOf(Base[a]) \in Nat /\ BlockOf(Base[a]) <= b
  BY <1>2, Areas, OfBlock
<1> DEFINE Right(c) == /\ c >= BlockOf(Base[a])
                       /\ Cardinality({e \in Blocks \ marked : BlockOf(Base[a]) <= e /\ e < c}) = i
<1>4. ASSUME NEW c \in Blocks \ marked
      PROVE  {e \in Blocks \ marked : BlockOf(Base[a]) <= e /\ e < c} = Before(a, c) \ marked
  BY DEF Before
<1>5. Right(b)
  BY <1>2, <1>3, <1>4 DEF Rank
<1>6. ASSUME NEW c \in Blocks \ marked, Right(c) PROVE c = b
  <2>1. c \in Nat /\ Rank(a, c) = i /\ BlockOf(Base[a]) <= c /\ c \notin marked
    BY <1>3, <1>4, <1>6 DEF Rank, Blocks
  <2> QED
    BY <1>2, <1>3, <2>1, RankUnique
<1>7. Good(a, i) = CHOOSE c \in Blocks \ marked : Right(c)
  BY DEF Good
<1> HIDE DEF Right
<1>8. Good(a, i) = b
  BY <1>2, <1>5, <1>6, <1>7
<1> QED
  BY <1>1, <1>8 DEF Place, At

LEMMA NandInvKept ==
  ASSUME NandInv
  PROVE  ImageKept
<1>1. Stored
  <2>1. SUFFICES ASSUME Usual, NEW a \in Area, result[a] = "ok", NEW k \in 0 .. Img[a] - 1
                 PROVE  flash[Place(a, k)] = <<a, ver[a], k>>
    BY DEF Stored, Usual
  <2>2. PICK b \in Blocks : Found(a, k, b)
    BY <2>1 DEF NandInv, Progress
  <2>3. k \in Nat
    BY Areas
  <2> QED
    BY <2>2, <2>3, PlaceFound DEF Found
<1>2. LoadedIsImage
  BY DEF NandInv, Usual, LoadedIsImage
<1> QED
  BY <1>1, <1>2 DEF ImageKept

\* An image that ui_download reports as programmed is in flash where a reader
\* that skips the marked blocks looks for it, and is what flash_read_buf
\* delivers, whatever blocks fail and wherever the power is cut, as long as
\* the areas have blocks to spare and no block that was given up lacks a mark.
THEOREM ImageAlwaysKept == Spec => []ImageKept
<1>1. Init => NandInv
  BY NandInit
<1>2. NandInv /\ [Next]_vars => NandInv'
  BY NandStep
<1>3. NandInv => ImageKept
  BY NandInvKept
<1> QED
  BY <1>1, <1>2, <1>3, PTL DEF Spec
=============================================================================
