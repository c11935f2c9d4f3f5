-------------------------------- MODULE Ecc ---------------------------------
(***************************************************************************)
(* The software error correction of NAND pages, BOARD_SUPPORT_SOFTECC in    *)
(* src/bsp/flash/flash_nand.c: pagewrite stores three bytes of code for     *)
(* each piece of a page in its spare area, pageread checks each piece.      *)
(*                                                                         *)
(* A piece is the set of its bits that are 1, a bit being its address, digit *)
(* by digit: the number of its byte at the places of Line, its place in the *)
(* byte at those of Col.  A byte of code is the set of its bits that are 1:  *)
(* <<p, s>> is the parity of the bits whose address has s at place p.  The   *)
(* table _nand_ecc_precalc_table is what ByteParity says of each byte.      *)
(***************************************************************************)
EXTENDS Integers, Sequences, FiniteSets

CONSTANTS
  LineBits,   \* log2 of the bytes of a piece, 8 in the code
  ColBits,    \* log2 of the bits of a byte, 3
  Steps,      \* eccsteps: pieces of a page
  OobSel,     \* oobsel: where the bytes of code are in the spare area
  Pages,      \* bound: what a page may hold before it is written
  MaxFlips    \* bound: bits that change in the chip

Line  == 0 .. LineBits - 1
Col   == LineBits .. LineBits + ColBits - 1
Place == Line \cup Col
Bit   == [Place -> {0, 1}]

\* As in nand_oob_16 and nand_oob_64, the bytes of one piece follow each other
\* and no byte is used twice.
ASSUME EccAssumption ==
  /\ LineBits \in Nat \ {0} /\ LineBits % 2 = 0 /\ ColBits \in Nat \ {0}
  /\ Steps \in Nat \ {0} /\ MaxFlips \in Nat /\ Pages \subseteq SUBSET Bit
  /\ OobSel \in [1 .. 3 * Steps -> Nat]
  /\ \A i, j \in 1 .. 3 * Steps : OobSel[i] = OobSel[j] => i = j
  /\ \A i \in 1 .. 3 * Steps : i % 3 # 0 => OobSel[i + 1] = OobSel[i] + 1

Oob == {OobSel[i] : i \in DOMAIN OobSel}

VARIABLES
  page,     \* the pieces in the chip
  oob,      \* the spare area in the chip
  written,  \* history: what pagewrite was given
  flips,    \* history: the bits that have changed
  result    \* what pageread answers, and the page it hands out

eccVars == <<page, oob, written, flips, result>>

Parity(S) == Cardinality(S) % 2

\* The places each of the three bytes of code is about: upper line bits, lower
\* line bits, columns.
Upper == {p \in Line : 2 * p >= LineBits}
Lower == {p \in Line : 2 * p < LineBits}
About == <<Upper, Lower, Col>>

\* Column parity as the table gives it, line parity as the xor of the
\* addresses of the bytes with an odd number of ones; stored inverted.
ByteParity(ones, P) ==
  {b \in P \X {0, 1} : Parity({x \in ones : x[b[1]] = b[2]}) = 0}

Spare == {<<LineBits + ColBits, 0>>, <<LineBits + ColBits, 1>>}   \* | 0x03

\* _nand_page_ECC with _nand_trans_result
PageEcc(ones) ==
  <<ByteParity(ones, Upper), ByteParity(ones, Lower), ByteParity(ones, Col) \cup Spare>>

Differ(A, B) == (A \ B) \cup (B \ A)

\* The bits of code that disagree.
Wrong(calc, read) == UNION {Differ(calc[i], read[i]) : i \in 1 .. 3}

\* The address they point at.
Pointed(d) == [p \in Place |-> IF <<p, 1>> \in d THEN 1 ELSE 0]

\* A mutant of CorrectData: a bit is repaired whatever else disagrees.
CorrectData_Any(ones, read) ==
  LET d == Wrong(PageEcc(ones), read)
  IN  IF d = {} THEN [status |-> 0, ones |-> ones]
      ELSE [status |-> 1, ones |-> Differ(ones, {Pointed(d)})]

\* _nand_correct_data: the data bit all pairs point at, a single bit of the
\* code, or too much.
CorrectData(ones, read) ==
  LET d == Wrong(PageEcc(ones), read)
      pairs == \A p \in Place : <<p, 0>> \in d <=> <<p, 1>> \notin d
  IN  IF d = {} THEN [status |-> 0, ones |-> ones]
      ELSE IF pairs THEN [status |-> 1, ones |-> Differ(ones, {Pointed(d)})]
      ELSE IF \E b \in d : d = {b} THEN [status |-> 2, ones |-> ones]
      ELSE [status |-> -1, ones |-> ones]

Unread == [status |-> "none", page |-> <<>>]

EccInit ==
  /\ written \in [1 .. Steps -> Pages]
  /\ page = [i \in 1 .. Steps |-> Bit] /\ oob = [o \in Oob |-> {}]
  /\ flips = -1 /\ result = Unread

\* The piece that byte e of all the bytes of code belongs to, and which of its
\* three bytes it is.
PieceOf(e) == ((e - 1) \div 3) + 1
ByteOf(e)  == ((e - 1) % 3) + 1

\* pagewrite: byte i of the code of piece k goes to oobsel[3 * k + i].
PageWrite ==
  /\ flips = -1 /\ flips' = 0
  /\ page' = written
  /\ oob' = [o \in Oob |->
               LET e == CHOOSE i \in DOMAIN OobSel : OobSel[i] = o
               IN  PageEcc(written[PieceOf(e)])[ByteOf(e)]]
  /\ UNCHANGED <<written, result>>

\* A bit of the page or of its spare area changes.
Flip ==
  /\ flips \in 0 .. MaxFlips - 1 /\ result = Unread
  /\ flips' = flips + 1
  /\ \/ \E k \in 1 .. Steps, x \in Bit :
          page' = [page EXCEPT ![k] = Differ(@, {x})] /\ UNCHANGED oob
     \/ \E e \in DOMAIN OobSel : \E b \in About[ByteOf(e)] \X {0, 1} \cup Spare :
          /\ b \in Spare => ByteOf(e) = 3
          /\ oob' = [oob EXCEPT ![OobSel[e]] = Differ(@, {b})] /\ UNCHANGED page
  /\ UNCHANGED <<written, result>>

\* pageread: the three bytes from oobsel[3 * k] on.
PageRead ==
  /\ flips >= 0 /\ result = Unread
  /\ LET Code(k) == [i \in 1 .. 3 |-> oob[OobSel[3 * (k - 1) + 1] + i - 1]]
         R(k)    == CorrectData(page[k], Code(k))
     IN  result' = IF \E k \in 1 .. Steps : R(k).status = -1
                   THEN [status |-> "fail", page |-> <<>>]
                   ELSE [status |-> "ok", page |-> [k \in 1 .. Steps |-> R(k).ones]]
  /\ UNCHANGED <<page, oob, written, flips>>

EccNext == PageWrite \/ Flip \/ PageRead

EccSpec == EccInit /\ [][EccNext]_eccVars

-----------------------------------------------------------------------------
\* A page is handed out as it was written or not at all, while at most two
\* bits have changed in it and its spare area; with at most one it is handed
\* out (_nand_page_ECC, _nand_correct_data, and the layout of oobsel).
PageRestored ==
  result # Unread /\ flips <= 2 =>
    /\ result.status = "ok" => result.page = written
    /\ flips <= 1 => result.status = "ok"
=============================================================================
