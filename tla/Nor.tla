-------------------------------- MODULE Nor ---------------------------------
(***************************************************************************)
(* The drivers of the flash chips that are not NAND: parallel NOR           *)
(* (src/bsp/flash/flash_amd.c) and serial flash (flash_m25p80.c), below     *)
(* flash_erase and flash_program of flash_drv.c.                           *)
(*                                                                         *)
(* A word is blank, holds one of the values written, or a mixture, since    *)
(* programming only clears bits.  A busy chip takes no command and answers  *)
(* every read with its status, which never equals blank or the word being   *)
(* programmed.  A NOR chip may fail, and then stays in its status until a   *)
(* reset; it ignores a command to a protected sector.  The serial driver    *)
(* knows neither: it waits without limit for a chip that works.            *)
(***************************************************************************)
EXTENDS Integers, FiniteSets

CONSTANTS
  BlockWords,   \* words of an erase block
  BootSectors,  \* bootblocks[]: sectors that make up block 0
  NorBlocks,    \* block_count
  Polls,        \* FLASH_POLLING_TIMEOUT
  Word          \* values programmed

ASSUME NorAssumption ==
  /\ {BlockWords, BootSectors, NorBlocks, Polls} \subseteq Nat \ {0}
  /\ BlockWords % BootSectors = 0

BLANK == "blank"
MIXED == "mixed"
Addr  == 0 .. NorBlocks * BlockWords - 1

VARIABLES
  part,     \* the chip: "amd" or "m25p"
  wpAddr,   \* flash_dev_info->wp_addr: the driver asks for protection
  prot,     \* words of protected sectors
  cells,    \* the words
  chipOp,   \* what the chip is doing, and where
  wel,      \* m25p: write enable latch
  call      \* the driver: its operation, where it is, and its result

norVars == <<part, wpAddr, prot, cells, chipOp, wel, call>>

\* The words erased together with word a: only NOR has a boot block.
SectorLen(a) == IF part = "amd" /\ a < BlockWords
                THEN BlockWords \div BootSectors ELSE BlockWords
SectorOf(a)  == {b \in Addr : /\ SectorLen(b) = SectorLen(a)
                              /\ b \div SectorLen(a) = a \div SectorLen(a)}

NoOp == [op |-> "none", pos |-> 0, v |-> BLANK]
NorRest == [at |-> "idle", op |-> "none", from |-> 0, pos |-> 0, end |-> 0,
            v |-> BLANK, polls |-> 0, res |-> "ok",
            clean |-> TRUE]    \* history: nothing in the way of a program

\* flash_amd_init or flash_sst_init has found the chip.
NorInit ==
  /\ part \in {"amd", "m25p"}
  /\ wpAddr \in IF part = "amd" THEN BOOLEAN ELSE {FALSE}
  /\ prot \in IF part = "amd" THEN {{}} \cup {SectorOf(a) : a \in Addr} ELSE {{}}
  /\ cells \in [Addr -> {BLANK, MIXED}]
  /\ chipOp = NoOp /\ wel = FALSE /\ call = NorRest

-----------------------------------------------------------------------------
(* The chip. *)

Cleared(old, v) == IF old \in {BLANK, v} THEN v ELSE MIXED

ChipDone ==
  /\ chipOp.op \in {"erase", "program"}
  /\ cells' = IF chipOp.op = "program"
              THEN [cells EXCEPT ![chipOp.pos] = Cleared(@, chipOp.v)]
              ELSE [a \in Addr |-> IF a \in SectorOf(chipOp.pos) THEN BLANK ELSE cells[a]]
  /\ chipOp' = NoOp /\ wel' = FALSE
  /\ UNCHANGED <<part, wpAddr, prot, call>>

ChipFails ==
  /\ part = "amd" /\ chipOp.op \in {"erase", "program"}
  /\ cells' = [cells EXCEPT ![chipOp.pos] = MIXED]
  /\ chipOp' = [chipOp EXCEPT !.op = "failed"]
  /\ UNCHANGED <<part, wpAddr, prot, wel, call>>

\* A command reaches the chip.
ChipCommand(op, a, v) ==
  chipOp' = IF chipOp.op = "none" /\ a \notin prot /\ (part = "m25p" => wel)
            THEN [op |-> op, pos |-> a, v |-> v] ELSE chipOp

\* FLASH_RESET ends a failure, not a running operation.
FlashReset == chipOp' = IF chipOp.op = "failed" THEN NoOp ELSE chipOp

ReadsAs(a, v) == chipOp.op = "none" /\ cells[a] = v

-----------------------------------------------------------------------------
(* The driver. *)

norChip == <<part, wpAddr, prot, cells, wel>>

Go(at)       == call' = [call EXCEPT !.at = at, !.polls = Polls]
NorReturn(r) == call' = [call EXCEPT !.at = "done", !.res = r]

\* The n words at a are blank, or hold v already.
Clean(a, n, v) == \A w \in a .. a + n - 1 : cells[w] \in {BLANK, v}

\* flash_info.erase_block and flash_info.program, within one block.
NorCall ==
  /\ call.at \in {"idle", "done"}
  /\ \E b \in 0 .. NorBlocks - 1 :
       \/ call' = [NorRest EXCEPT !.at = "command", !.op = "erase",
                     !.from = b * BlockWords, !.pos = b * BlockWords,
                     !.end = (b + 1) * BlockWords]
       \/ \E s, n \in 1 .. BlockWords, v \in Word :
            /\ s + n - 1 <= BlockWords
            /\ LET a == b * BlockWords + s - 1
               IN  call' = [NorRest EXCEPT !.at = "command", !.op = "program",
                              !.from = a, !.pos = a, !.end = a + n, !.v = v,
                              !.clean = Clean(a, n, v)]
  /\ UNCHANGED <<norChip, chipOp>>

\* flash_amd_erase_block: one sector.  A busy chip's status may look like a
\* protected sector or not.
AmdErase ==
  /\ part = "amd" /\ call.at = "command" /\ call.op = "erase"
  /\ \/ /\ wpAddr /\ (call.pos \in prot \/ chipOp.op # "none")
        /\ FlashReset /\ NorReturn("protect")
     \/ /\ wpAddr => call.pos \notin prot \/ chipOp.op # "none"
        /\ ChipCommand("erase", call.pos, BLANK) /\ Go("timer")
  /\ UNCHANGED norChip

\* A poll that has not seen what it waits for.
PollAgain ==
  IF call.polls = 1 THEN FlashReset /\ NorReturn("timeout")
  ELSE call' = [call EXCEPT !.polls = @ - 1] /\ UNCHANGED chipOp

\* FLASH_SECTOR_ERASE_TIMER: a bit of the status, or of the word.
AmdTimer ==
  /\ call.at = "timer"
  /\ \/ Go("blank") /\ UNCHANGED chipOp
     \/ ~ReadsAs(call.pos, BLANK) /\ PollAgain
  /\ UNCHANGED norChip

AmdBlank ==
  /\ call.at = "blank"
  /\ IF ReadsAs(call.pos, BLANK) THEN Go("verify") /\ UNCHANGED chipOp ELSE PollAgain
  /\ UNCHANGED norChip

\* Every word of the sector; then the next sector of a boot block.
AmdVerify ==
  /\ call.at = "verify"
  /\ LET next == call.pos + SectorLen(call.pos)
     IN  IF \E a \in SectorOf(call.pos) : ~ReadsAs(a, BLANK) THEN NorReturn("verify")
         ELSE IF next < call.end
              THEN call' = [call EXCEPT !.at = "command", !.pos = next]
              ELSE NorReturn("ok")
  /\ UNCHANGED <<norChip, chipOp>>

\* flash_amd_program: one word.
AmdProgram ==
  /\ part = "amd" /\ call.at = "command" /\ call.op = "program"
  /\ ChipCommand("program", call.pos, call.v) /\ Go("poll")
  /\ UNCHANGED norChip

\* A mutant of AmdPoll: the polls run out without an error.
AmdPoll_Trust ==
  /\ call.at = "poll"
  /\ \/ call.polls > 1 /\ ~ReadsAs(call.pos, call.v) /\ PollAgain
     \/ /\ call.polls = 1 \/ ReadsAs(call.pos, call.v)
        /\ IF call.pos + 1 < call.end
           THEN call' = [call EXCEPT !.at = "command", !.pos = @ + 1]
           ELSE NorReturn("ok")
        /\ UNCHANGED chipOp
  /\ UNCHANGED norChip

\* Until the word reads back; then the next one.
AmdPoll ==
  /\ call.at = "poll"
  /\ IF ~ReadsAs(call.pos, call.v) THEN PollAgain
     ELSE /\ IF call.pos + 1 < call.end
             THEN call' = [call EXCEPT !.at = "command", !.pos = @ + 1]
             ELSE NorReturn("ok")
          /\ UNCHANGED chipOp
  /\ UNCHANGED norChip

\* m25p20_write_cmd(M25P20_WRITE_ENABLE), until the latch shows.
WriteEnable ==
  /\ part = "m25p" /\ call.at = "command"
  /\ chipOp.op = "none" /\ wel' = TRUE
  /\ Go("enabled")
  /\ UNCHANGED <<part, wpAddr, prot, cells, chipOp>>

\* m25p20_sector_erase, m25p20_page_program of one byte.
SerialCommand ==
  /\ call.at = "enabled"
  /\ ChipCommand(call.op, call.pos, call.v) /\ Go("wip")
  /\ UNCHANGED norChip

\* Until the chip is no longer busy; a latch still set is cleared.
SerialWait ==
  /\ call.at = "wip" /\ chipOp.op = "none"
  /\ wel' = FALSE
  /\ IF call.op = "program" /\ call.pos + 1 < call.end
     THEN call' = [call EXCEPT !.at = "command", !.pos = @ + 1]
     ELSE NorReturn("ok")
  /\ UNCHANGED <<part, wpAddr, prot, cells, chipOp>>

NorNext ==
  \/ ChipDone \/ ChipFails \/ NorCall
  \/ AmdErase \/ AmdTimer \/ AmdBlank \/ AmdVerify \/ AmdProgram \/ AmdPoll
  \/ WriteEnable \/ SerialCommand \/ SerialWait

NorSpec == NorInit /\ [][NorNext]_norVars

-----------------------------------------------------------------------------
\* An erase that reports success has left the block blank, a program every
\* word as it was asked for, whatever failed, timed out or was still running
\* before; but the serial driver does not read back, and reports success also
\* for words that were not blank (flash_amd_erase_block, flash_amd_program,
\* m25p20_program).
OkIsDone ==
  call.at = "done" /\ call.res = "ok" /\ (part = "m25p" => call.clean) =>
    \A a \in call.from .. call.end - 1 : cells[a] = call.v
=============================================================================
