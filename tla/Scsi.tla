-------------------------------- MODULE Scsi --------------------------------
(***************************************************************************)
(* SCSI commands of the USB host carried out on the ATA disk,               *)
(* src/ide/libata-scsi.c with USB_SPEED_UP.                                *)
(*                                                                         *)
(* The data of a long write are still arriving while it is carried out:     *)
(* the last word of each pipe-sized piece holds CHECK_PATTERN1 until the    *)
(* USB engine has stored that piece, and pieces come in order.  The engine  *)
(* and the USB side of the device are external; data equal to the pattern   *)
(* are left out (the program would wait for ever).  Bytes of a command are  *)
(* digits of base Byte.                                                    *)
(***************************************************************************)
EXTENDS Integers, Sequences, FiniteSets

CONSTANTS
  Byte,        \* values of a byte of a command
  Chunk,       \* SW_PIPE_SIZE in sectors
  DevSectors,  \* dev_sectors
  LenMax,      \* n_block beyond this is out of range (65536)
  Data0        \* blocks that length 0 of a 6-byte command means (256)

ASSUME ScsiAssumption ==
  /\ Byte \in Nat \ {0, 1} /\ Chunk \in Nat \ {0}
  /\ DevSectors \in Nat \ {0} /\ LenMax \in Nat \ {0} /\ Data0 \in Nat \ {0}

VARIABLES
  cdb,      \* the command, None between commands
  asked,    \* history: what the host meant by it
  arrived,  \* sectors of its data in u8VirtOTGMemory
  pipe,     \* ata_scsi_rw_xlat: at, block, n, and its i, j, bulk_no
  wrote,    \* history: the (disk sector, sector of the data) pairs written
  reply     \* what u8VirtOTGMemory and u32DataResidue say

scsiVars == <<cdb, asked, arrived, pipe, wrote, reply>>

NoCmd  == [op |-> "none"]
NoPipe == [at |-> "no", block |-> 0, n |-> 0, i |-> 0, j |-> 0, bulk |-> 0]

ScsiInit ==
  /\ cdb = NoCmd /\ asked = [lba |-> 0, len |-> 0]
  /\ arrived = 0 /\ pipe = NoPipe /\ wrote = <<>> /\ reply = "none"

-----------------------------------------------------------------------------
(* Commands as the host writes them, and as they are read. *)

Power(k) == LET f[i \in 0 .. k] == IF i = 0 THEN 1 ELSE Byte * f[i - 1] IN f[k]

\* x as k bytes, the most significant one first
Digits(x, k) == [i \in 1 .. k |-> (x \div Power(k - i)) % Byte]

Weigh(b) ==
  LET f[i \in 0 .. Len(b)] == IF i = 0 THEN 0 ELSE Byte * f[i - 1] + b[i]
  IN  f[Len(b)]

Scsi6  == {"READ_6", "WRITE_6"}
Scsi10 == {"READ_10", "WRITE_10", "VERIFY"}
Scsi16 == {"READ_16", "WRITE_16", "VERIFY_16"}
Writes == {"WRITE_6", "WRITE_10", "WRITE_16"}

\* scsi_6_lba_len: byte 1, with the five upper bits of the address, is not
\* read; length 0 means Data0.
Lba6(c) == Weigh(SubSeq(c.lba, 2, 3))
Len6(c) == IF c.len[1] = 0 THEN Data0 ELSE c.len[1]

\* scsi_10_lba_len and scsi_16_lba_len
LbaLong(c) == Weigh(c.lba)
LenLong(c) == Weigh(c.len)

LbaLen(c) ==
  IF c.op \in Scsi6 THEN [lba |-> Lba6(c), len |-> Len6(c)]
  ELSE [lba |-> LbaLong(c), len |-> LenLong(c)]

\* A host whose 6-byte commands stay below the address limit of two bytes.
Encode(op, lba, len) ==
  IF op \in Scsi6 THEN [op |-> op, lba |-> Digits(lba, 3), len |-> Digits(len, 1)]
  ELSE IF op \in Scsi10
  THEN [op |-> op, lba |-> Digits(lba, 4), len |-> Digits(len, 2)]
  ELSE [op |-> op, lba |-> Digits(lba, 8), len |-> Digits(len, 4)]

Host ==
  /\ cdb = NoCmd
  /\ \E op \in Scsi6 \cup Scsi10 \cup Scsi16,
        lba \in {0, 1, DevSectors - 1}, len \in 0 .. LenMax + 1 :
       /\ len < Power(IF op \in Scsi6 THEN 1 ELSE IF op \in Scsi10 THEN 2 ELSE 4)
       /\ lba < Power(2)
       /\ cdb' = Encode(op, lba, len)
       /\ asked' = [lba |-> lba, len |-> IF op \in Scsi6 /\ len = 0 THEN Data0 ELSE len]
  /\ arrived' = 0 /\ wrote' = <<>> /\ reply' = "none"
  /\ UNCHANGED pipe

\* The USB engine stores the next sector of a write.
Arrive ==
  /\ cdb.op \in Writes /\ arrived < asked.len
  /\ arrived' = arrived + 1
  /\ UNCHANGED <<cdb, asked, pipe, wrote, reply>>

-----------------------------------------------------------------------------
(* ata_scsi_rw_xlat *)

Finish(r) == cdb' = NoCmd /\ pipe' = NoPipe /\ reply' = r

\* ata_scsi_set_sense
Sense == Finish("sense")

\* first_disk->write_dma: its result is not looked at.
WriteDma(block, from, n) ==
  wrote' = wrote \o [k \in 1 .. n |-> <<block + k - 1, from + k - 1>>]

Pieces == pipe.n \div Chunk
Rest   == pipe.n % Chunk

\* The last word of the first n sectors is no longer the pattern.
Seen(n) == arrived >= n

RwXlat ==
  /\ cdb.op \in Scsi6 \cup (Scsi10 \ {"VERIFY"}) \cup (Scsi16 \ {"VERIFY_16"})
  /\ pipe.at = "no"
  /\ LET r == LbaLen(cdb)
     IN  \/ /\ r.len = 0 /\ Finish("none") /\ UNCHANGED wrote
         \/ /\ r.len > LenMax /\ Sense /\ UNCHANGED wrote
         \/ /\ r.len \in 1 .. LenMax /\ cdb.op \notin Writes
            /\ Finish("data") /\ UNCHANGED wrote
         \/ /\ r.len \in 1 .. LenMax /\ cdb.op \in Writes /\ r.len >= Chunk
            /\ pipe' = [NoPipe EXCEPT !.at = "wait", !.block = r.lba, !.n = r.len]
            /\ UNCHANGED <<cdb, reply, wrote>>
         \/ /\ r.len \in 1 .. LenMax /\ cdb.op \in Writes /\ r.len < Chunk
            /\ Seen(r.len)        \* the device calls when a short one is there
            /\ WriteDma(r.lba, 0, r.len) /\ Finish("done")
  /\ UNCHANGED <<asked, arrived>>

\* Waiting for piece i.
PipeWait ==
  /\ pipe.at = "wait" /\ pipe.i < Pieces /\ Seen((pipe.i + 1) * Chunk)
  /\ pipe' = [pipe EXCEPT !.at = "look", !.bulk = 1, !.j = pipe.i + 1]
  /\ UNCHANGED <<cdb, asked, arrived, wrote, reply>>

\* A mutant of PipeLook: all later pieces are taken as arrived.
PipeLook_All ==
  /\ pipe.at = "look"
  /\ pipe' = [pipe EXCEPT !.bulk = Pieces - pipe.i, !.at = "write"]
  /\ UNCHANGED <<cdb, asked, arrived, wrote, reply>>

\* One look at each later piece; they may arrive meanwhile.
PipeLook ==
  /\ pipe.at = "look"
  /\ pipe' = IF pipe.j = Pieces THEN [pipe EXCEPT !.at = "write"]
             ELSE [pipe EXCEPT !.j = @ + 1,
                               !.bulk = @ + (IF Seen((pipe.j + 1) * Chunk)
                                             THEN 1 ELSE 0)]
  /\ UNCHANGED <<cdb, asked, arrived, wrote, reply>>

PipeWrite ==
  /\ pipe.at = "write"
  /\ WriteDma(pipe.block + pipe.i * Chunk, pipe.i * Chunk, pipe.bulk * Chunk)
  /\ pipe' = [pipe EXCEPT !.at = "wait", !.i = @ + pipe.bulk]
  /\ UNCHANGED <<cdb, asked, arrived, reply>>

\* What is left after the last whole piece.
PipeRest ==
  /\ pipe.at = "wait" /\ pipe.i = Pieces
  /\ \/ Rest = 0 /\ UNCHANGED wrote
     \/ /\ Rest # 0 /\ Seen(pipe.i * Chunk + Rest)
        /\ WriteDma(pipe.block + pipe.i * Chunk, pipe.i * Chunk, Rest)
  /\ Finish("done")
  /\ UNCHANGED <<asked, arrived>>

-----------------------------------------------------------------------------
(* The other commands *)

\* ata_scsi_verify_xlat; the verification itself is not done.
Verify ==
  /\ cdb.op \in {"VERIFY", "VERIFY_16"}
  /\ LET r == LbaLen(cdb)
     IN  IF r.len # 0 /\ (\/ r.lba >= DevSectors \/ r.lba + r.len > DevSectors
                          \/ r.len > LenMax)
         THEN Sense ELSE Finish("none")
  /\ UNCHANGED <<asked, arrived, wrote>>

\* ata_scsi_start_stop_xlat: nothing is sent to the disk; LOEJ and power
\* conditions are refused.
StartStop ==
  /\ cdb = NoCmd
  /\ \E refused \in BOOLEAN : IF refused THEN Sense ELSE Finish("none")
  /\ UNCHANGED <<asked, arrived, wrote>>

\* ata_scsiop_inq_std, inq_00, inq_80 and inq_83, when CmdDt is clear and the
\* page is one of these.
Inquiry == {"inquiry", "sense"}

\* ata_scsiop_mode_sense supports no page; the sense of the 6-byte form is a
\* buffer of zeros.
ModeSense   == {"zero"}
ModeSense10 == {"sense"}

\* ata_scsiop_read_cap; ata_scsiop_read_cap_16, when the service action is
\* that one; ata_scsiop_report_luns.
ReadCap    == {"capacity"}
ReadCap16  == {"capacity", "sense"}
ReportLuns == {"luns"}

\* ata_scsi_simulate: what each command it knows may answer.
Answers ==
  [INQUIRY |-> Inquiry, MODE_SENSE |-> ModeSense, MODE_SENSE_10 |-> ModeSense10,
   MODE_SELECT |-> {"sense"}, READ_CAPACITY |-> ReadCap,
   SERVICE_ACTION_IN |-> ReadCap16, REPORT_LUNS |-> ReportLuns,
   REQUEST_SENSE |-> {"sense"}, TEST_UNIT_READY |-> {"zero"},
   NOT_LISTED |-> {"zero"}]

Simulate ==
  /\ cdb = NoCmd
  /\ \E op \in DOMAIN Answers : \E a \in Answers[op] : Finish(a)
  /\ UNCHANGED <<asked, arrived, wrote>>

ScsiNext ==
  Host \/ Arrive \/ RwXlat \/ PipeWait \/ PipeLook \/ PipeWrite \/ PipeRest
    \/ Verify \/ StartStop \/ Simulate

ScsiSpec == ScsiInit /\ [][ScsiNext]_scsiVars

-----------------------------------------------------------------------------
\* Although ata_scsi_rw_xlat carries out a write while its data arrive, nothing
\* is sent to the disk before it is there, and when the command is reported done every
\* sector has been written once, in order, where the host wanted it.
WriteWhole ==
  /\ \A k \in DOMAIN wrote : wrote[k] = <<asked.lba + k - 1, k - 1>>
  /\ Len(wrote) <= arrived
  /\ reply = "done" => Len(wrote) = asked.len
=============================================================================
