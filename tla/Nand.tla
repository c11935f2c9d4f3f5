-------------------------------- MODULE Nand --------------------------------
(***************************************************************************)
(* Images in NAND flash: flash_nand_program (src/bsp/flash/flash_drv.c)     *)
(* writes one block after another, skips blocks that carry a bad-block mark *)
(* and marks the ones whose erasing or programming fails; flash_read_buf    *)
(* (src/bsp/flash/flash_nand.c) reads an image back and finds its blocks by *)
(* skipping the marked ones again.  ui_download (src/ui/ui_upgrade.c) calls *)
(* the writer until it reports no error, the loaders call the reader        *)
(* through sys_memcpy.                                                      *)
(*                                                                         *)
(* Flash is a function from units to what they hold; a page has PageUnits   *)
(* units, so that sizes need not be multiples of the page.  Unit k of the   *)
(* v-th image made for area a is <<a, v, k>>.  Erasing a block and writing  *)
(* a page are the steps a power failure can tear.                           *)
(***************************************************************************)
EXTENDS Integers, FiniteSets

CONSTANTS
  NBlocks,      \* flash_dev_info->block_count
  PageUnits,    \* flash_dev_info->page_size, in units
  BlockPages,   \* pages of a block
  Area,         \* the areas of the board's flash map
  Base,         \* Base[a]: where area a starts
  Bound,        \* Bound[a]: its size, max_size in ui_download
  Img,          \* Img[a]: the size of its image, erase_size in ui_download
  UPGRADE_RETRY_TIME,
  Settings      \* what may go wrong, see Init

BlockUnits == BlockPages * PageUnits
Blocks == 0 .. NBlocks - 1
Units == 0 .. NBlocks * BlockUnits - 1
BlockOf(x) == x \div BlockUnits
PageOf(x) == x \div PageUnits
InBlock(b) == {x \in Units : BlockOf(x) = b}
InPage(x) == {y \in Units : PageOf(y) = PageOf(x)}
Least(m, n) == IF m < n THEN m ELSE n
Most == CHOOSE n \in {Img[a] : a \in Area} : \A a \in Area : Img[a] <= n

\* A setting: the build; the blocks that are bad from the factory, those that
\* may wear out and how many of them do; how many images are made for an area;
\* whether the power may fail once.
Setups ==
  [indirect : BOOLEAN, factory : SUBSET Blocks, wearable : SUBSET Blocks,
   wear : Nat, upgrades : Nat, powerOff : BOOLEAN]

\* Areas start at a block and hold their image; they do not overlap.  A block
\* has the two pages that nand_block_markbad marks.
ASSUME NandAssumption ==
  /\ {NBlocks, PageUnits, BlockPages, UPGRADE_RETRY_TIME} \subseteq Nat \ {0}
  /\ BlockPages > 1 /\ Settings \subseteq Setups
  /\ Area \subseteq Nat \ {0}
  /\ \A a \in Area :
       /\ Base[a] \in Units /\ Base[a] % BlockUnits = 0
       /\ Bound[a] \in Nat /\ Bound[a] % BlockUnits = 0
       /\ Img[a] \in 1 .. Bound[a]
       /\ Base[a] + Bound[a] - 1 \in Units
  /\ \A a, c \in Area : a # c => \/ Base[a] + Bound[a] <= Base[c]
                                 \/ Base[c] + Bound[c] <= Base[a]

VARIABLES
  env,        \* what may go wrong: the setting chosen in Init
  flash,      \* flash[x]: what unit x holds
  marked,     \* the blocks with a bad-block mark in their spare bytes
  worn,       \* the blocks that may fail to erase or to program
  announced,  \* history: the blocks nand_block_markbad was called for
  ver,        \* ver[a]: how many images have been made for area a
  result,     \* result[a]: what the last upgrade of a reported
  op,         \* the upgrade under way
  rd,         \* the read under way
  buf         \* where flash_read_buf puts what it reads

vars == <<env, flash, marked, worn, announced, ver, result, op, rd, buf>>

ERASED  == <<>>          \* 0xff bytes
GARBAGE == <<0>>         \* neither erased nor what anyone wrote
Data == {<<a, v, k>> : a \in Area, v \in 1 .. env.upgrades, k \in 0 .. Most - 1}
Content == Data \cup {ERASED, GARBAGE}

OK == 0                  \* FLASH_ERR_OK
ERASE == 2               \* FLASH_ERR_ERASE
PROGRAM == 4             \* FLASH_ERR_PROGRAM
HWR == 8                 \* FLASH_ERR_HWR

Idle   == [pc |-> "idle"]
Offset == UNION {0 .. Img[a] - 1 : a \in Area}
Blank  == [k \in Offset |-> GARBAGE]

\* flash_info.init is set, every area is erased.
Init ==
  /\ env \in Settings
  /\ flash = [x \in Units |-> ERASED]
  /\ marked = env.factory
  /\ worn = {} /\ announced = {}
  /\ ver = [a \in Area |-> 0]
  /\ result = [a \in Area |-> "none"]
  /\ op = Idle /\ rd = Idle /\ buf = Blank
-----------------------------------------------------------------------------
(***************************************************************************)
(* flash_nand_program                                                       *)
(***************************************************************************)
VeffBad_Unchecked(x) == FALSE

\* VeffBad: the mark is looked for only at an address that starts a block.
VeffBad(x) == x % BlockUnits = 0 /\ BlockOf(x) \in marked

\* The part of the image that goes into one block.
Size == Least(Img[op.a] - op.data, BlockUnits)

\* A call of flash_nand_program, the n-th one for this upgrade.
Call(a, n) ==
  [pc |-> "block", a |-> a, addr |-> Base[a], data |-> 0, done |-> 0,
   stat |-> OK, tries |-> n]

Upgrade(a) ==
  /\ op = Idle /\ rd = Idle
  /\ ver[a] < env.upgrades
  /\ ver' = [ver EXCEPT ![a] = @ + 1]
  /\ result' = [result EXCEPT ![a] = "none"]
  /\ op' = Call(a, 1)
  /\ UNCHANGED <<env, flash, marked, worn, announced, rd, buf>>

\* Past the bound the call gives up, with the status it has at that point.
Skip ==
  /\ op.pc = "block" /\ VeffBad(op.addr)
  /\ LET next == op.addr + BlockUnits
         out  == next > Base[op.a] + Bound[op.a]
     IN  op' = [op EXCEPT !.addr = next, !.pc = IF out THEN "return" ELSE @]
  /\ UNCHANGED <<env, flash, marked, worn, announced, ver, result, rd, buf>>

\* flash_erase_block: the mark goes with the rest of the block.
Erase ==
  /\ op.pc = "block" /\ ~VeffBad(op.addr)
  /\ flash' = [x \in Units |->
                 IF BlockOf(x) = BlockOf(op.addr) THEN ERASED ELSE flash[x]]
  /\ marked' = marked \ {BlockOf(op.addr)}
  /\ op' = [op EXCEPT !.pc = "pages", !.stat = OK]
  /\ UNCHANGED <<env, worn, announced, ver, result, rd, buf>>

MarkBad_Lost(b) ==
  announced' = announced \cup {b} /\ UNCHANGED marked

\* nand_block_markbad.  Built for indirect access it clears the mark byte of
\* the first two pages.  Built for direct access it stores tmp_buf there,
\* what was last read of the chip: a page whose mark byte is blank.
MarkBad(b) ==
  /\ announced' = announced \cup {b}
  /\ marked' = IF env.indirect THEN marked \cup {b} ELSE marked

NextBlock_Twice == op.addr + 2 * BlockUnits

\* After a failure the same data go to the next block.
NextBlock == op.addr + BlockUnits

Failed_Again(status, lost) ==
  /\ BlockOf(op.addr) \in worn
  /\ op' = [op EXCEPT !.pc = "block", !.done = 0, !.stat = status]
  /\ UNCHANGED <<env, flash, marked, announced, worn, ver, result, rd, buf>>

\* Erasing or programming failed: mark the block, go on with the next one.
\* The bound is not looked at.
Failed(status, lost) ==
  /\ BlockOf(op.addr) \in worn
  /\ flash' = [x \in Units |-> IF x \in lost THEN GARBAGE ELSE flash[x]]
  /\ MarkBad(BlockOf(op.addr))
  /\ op' = [op EXCEPT !.pc = "block", !.addr = NextBlock, !.done = 0,
                      !.stat = status]
  /\ UNCHANGED <<env, worn, ver, result, rd, buf>>

EraseFailed ==
  /\ op.pc = "block" /\ ~VeffBad(op.addr)
  /\ Failed(ERASE, InBlock(BlockOf(op.addr)))

\* flash_program_buf, pagewrite: one page, the last one filled up with 0xff.
PageData(n) == [i \in 0 .. n - 1 |-> <<op.a, ver[op.a], op.data + op.done + i>>]
Chunk == Least(Size - op.done, PageUnits)

ProgramPage ==
  /\ op.pc = "pages"
  /\ LET at   == op.addr + op.done
         done == op.done + Chunk
         data == op.data + Size
     IN  /\ flash' = [x \in Units |->
                        IF x - at \in 0 .. Chunk - 1
                        THEN PageData(Chunk)[x - at] ELSE flash[x]]
         /\ op' = IF done < Size
                  THEN [op EXCEPT !.done = done]
                  ELSE [op EXCEPT !.done = 0, !.data = data, !.stat = OK,
                                  !.addr = @ + Size,
                                  !.pc = IF data < Img[op.a] THEN "block"
                                                             ELSE "return"]
  /\ UNCHANGED <<env, marked, worn, announced, ver, result, rd, buf>>

\* pagewrite reads the page back and finds that it differs.  Marking the
\* block stores into its first two pages, see MarkBad.
PageFailed ==
  /\ op.pc = "pages"
  /\ Failed(PROGRAM,
            InPage(op.addr + op.done) \cup
            (IF env.indirect THEN {} ELSE InPage(op.addr) \cup InPage(op.addr + PageUnits)))

\* ui_download calls flash_nand_program again until it reports no error.
Return ==
  /\ op.pc = "return"
  /\ LET again == op.stat # OK /\ op.tries < UPGRADE_RETRY_TIME
     IN  /\ op' = IF again THEN Call(op.a, op.tries + 1) ELSE Idle
         /\ result' = IF again THEN result
                      ELSE [result EXCEPT ![op.a] =
                              IF op.stat = OK THEN "ok" ELSE "failed"]
  /\ UNCHANGED <<env, flash, marked, worn, announced, ver, rd, buf>>
-----------------------------------------------------------------------------
(***************************************************************************)
(* flash_read_buf                                                           *)
(***************************************************************************)
\* A loader asks for the first n units of an image.
Load(a, n) ==
  /\ op = Idle /\ rd = Idle /\ n <= Img[a]
  /\ rd' = [pc |-> "read", a |-> a, addr |-> Base[a], at |-> 0, len |-> n,
            asked |-> n, stat |-> OK]
  /\ UNCHANGED <<env, flash, marked, worn, announced, ver, result, op, buf>>

RdSkip ==
  /\ rd.pc = "read" /\ VeffBad(rd.addr)
  /\ rd' = [rd EXCEPT !.addr = @ + BlockUnits]
  /\ UNCHANGED <<env, flash, marked, worn, announced, ver, result, op, buf>>

Advance_Strict(len) == IF len > PageUnits THEN PageUnits ELSE 0

\* One page.  len is reduced first and addr and pbuff then advance by what
\* is still to be read, at most a page; pageread starts at the page's start.
Advance(len) == Least(len, PageUnits)

RdPage ==
  /\ rd.pc = "read" /\ ~VeffBad(rd.addr)
  /\ LET n    == Least(rd.len, PageUnits)
         page == PageOf(rd.addr) * PageUnits
         left == rd.len - n
     IN  /\ buf' = [k \in Offset |->
                      IF k - rd.at \in 0 .. n - 1
                      THEN flash[page + k - rd.at] ELSE buf[k]]
         /\ rd' = [rd EXCEPT !.len = left,
                             !.addr = @ + Advance(left),
                             !.at = @ + Advance(left),
                             !.pc = IF left = 0 THEN "done" ELSE @]
  /\ UNCHANGED <<env, flash, marked, worn, announced, ver, result, op>>

\* pageread finds more wrong bits than it can correct.
RdFailed ==
  /\ rd.pc = "read" /\ ~VeffBad(rd.addr)
  /\ BlockOf(rd.addr) \in worn
  /\ rd' = [rd EXCEPT !.stat = HWR, !.pc = "done"]
  /\ UNCHANGED <<env, flash, marked, worn, announced, ver, result, op, buf>>

\* sys_memcpy ignores the status.
RdDone ==
  /\ rd.pc = "done"
  /\ rd' = Idle /\ buf' = Blank
  /\ UNCHANGED <<env, flash, marked, worn, announced, ver, result, op>>
-----------------------------------------------------------------------------
(***************************************************************************)
(* The chip and the power supply                                            *)
(***************************************************************************)
Wear(b) ==
  /\ b \in env.wearable \ worn /\ Cardinality(worn) < env.wear
  /\ worn' = worn \cup {b}
  /\ UNCHANGED <<env, flash, marked, announced, ver, result, op, rd, buf>>

\* The power fails, between two steps or in the middle of one.
PowerOff ==
  /\ env.powerOff
  /\ op.pc \in {"block", "pages"}
  /\ env' = [env EXCEPT !.powerOff = FALSE]
  /\ LET lost == IF op.pc = "block" THEN InBlock(BlockOf(op.addr))
                                    ELSE InPage(op.addr + op.done)
     IN  \/ UNCHANGED flash
         \/ /\ op.pc = "pages" \/ ~VeffBad(op.addr)
            /\ flash' = [x \in Units |-> IF x \in lost THEN GARBAGE ELSE flash[x]]
  /\ op' = Idle
  /\ UNCHANGED <<marked, worn, announced, ver, result, rd, buf>>

Driver ==
  \/ Skip \/ Erase \/ EraseFailed \/ ProgramPage \/ PageFailed \/ Return
  \/ RdSkip \/ RdPage \/ RdFailed \/ RdDone

Next ==
  \/ Driver
  \/ \E a \in Area : Upgrade(a) \/ \E n \in 1 .. Img[a] : Load(a, n)
  \/ \E b \in Blocks : Wear(b)
  \/ PowerOff

Spec == Init /\ [][Next]_vars

\* The processor runs the driver until its call returns.
FairSpec == Spec /\ WF_vars(Driver)
-----------------------------------------------------------------------------
(***************************************************************************)
(* Properties                                                               *)
(***************************************************************************)
Of(a) == {b \in Blocks : b * BlockUnits \in Base[a] .. Base[a] + Bound[a] - 1}
Needed(a) == (Img[a] + BlockUnits - 1) \div BlockUnits

\* The bad blocks of area a, the ones still to be found included, leave
\* enough of its blocks for the image.
Spared(a) == Cardinality(Of(a) \ (marked \cup worn)) >= Needed(a)

\* The i-th block without a mark, counted from the start of area a.
Good(a, i) ==
  CHOOSE b \in Blocks \ marked :
    /\ b >= BlockOf(Base[a])
    /\ Cardinality({c \in Blocks \ marked : BlockOf(Base[a]) <= c /\ c < b}) = i

\* Where unit k of area a's image is, for a reader that skips marked blocks.
Place(a, k) == Good(a, k \div BlockUnits) * BlockUnits + (k % BlockUnits)

Call_ == [pc : {"block", "pages", "return"}, a : Area, addr : Units \cup {NBlocks * BlockUnits},
          data : 0 .. Most, done : 0 .. BlockUnits - 1,
          stat : {OK, ERASE, PROGRAM}, tries : 1 .. UPGRADE_RETRY_TIME]
Read_ == [pc : {"read", "done"}, a : Area, addr : Units \cup {NBlocks * BlockUnits},
          at : 0 .. Most, len : 0 .. Most, asked : 1 .. Most, stat : {OK, HWR}]

\* Every unit of flash holds part of an image, blank or spoilt bytes: nothing
\* is ever stored from beyond the end of an image (flash_program_buf pads the
\* last page), and no address leaves the chip.
TypeOK ==
  /\ flash \in [Units -> Content]
  /\ buf \in [Offset -> Content]
  /\ marked \subseteq Blocks /\ worn \subseteq Blocks /\ announced \subseteq Blocks
  /\ ver \in [Area -> 0 .. env.upgrades]
  /\ result \in [Area -> {"none", "ok", "failed"}]
  /\ op \in Call_ \cup {Idle}
  /\ rd \in Read_ \cup {Idle}

\* An upgrade that ui_download reports as successful left the whole image in
\* flash where a reader looks for it, and no later upgrade of another area,
\* failure or power cut has touched it - as long as every area has blocks to
\* spare and marks are kept (the build for indirect access) or none was due.
Stored ==
  (\A a \in Area : Spared(a)) /\ (env.indirect \/ announced = {}) =>
    \A a \in Area : result[a] = "ok" =>
      \A k \in 0 .. Img[a] - 1 : flash[Place(a, k)] = <<a, ver[a], k>>

\* What flash_read_buf delivers with FLASH_ERR_OK is the start of the image,
\* when it is asked for whole pages or for less than one.
LoadedIsImage ==
  /\ rd.pc = "done" /\ rd.stat = OK /\ result[rd.a] = "ok"
  /\ \A a \in Area : Spared(a)
  /\ env.indirect \/ announced = {}
  /\ rd.asked % PageUnits = 0 \/ rd.asked < PageUnits
  => \A k \in 0 .. rd.asked - 1 : buf[k] = <<rd.a, ver[rd.a], k>>

\* An image programmed with success is in flash and is what flash_read_buf
\* brings back.
ImageKept == Stored /\ LoadedIsImage

\* flash_nand_program changes nothing outside the area it was called for
\* while that area has blocks to spare.
StaysInArea ==
  [][op.pc # "idle" /\ Spared(op.a) =>
       \A x \in Units : flash'[x] # flash[x] => BlockOf(x) \in Of(op.a)]_vars

\* A bad-block mark, the manufacturer's included, is never erased.
MarksKept == [][marked \subseteq marked']_vars

\* What is not the call's to write is left alone: the other areas, and the
\* bad-block marks (flash_nand_program).
OthersKept == StaysInArea /\ MarksKept

\* Every call returns: no sequence of failing blocks keeps
\* flash_nand_program, ui_download or flash_read_buf busy for ever.
CallsReturn == (op # Idle \/ rd # Idle) ~> (op = Idle /\ rd = Idle)

\* "nand markbad <block_addr> - mark bad block at <block_addr>", and the
\* driver prints "mark bad!" for a block it gives up: that block has a mark.
AnnouncedIsMarked == announced \subseteq marked
=============================================================================
