-------------------------------- MODULE Disk --------------------------------
(***************************************************************************)
(* The ATA driver, src/ide/ide.c: looking for disks and partitions, PIO     *)
(* and DMA transfers.                                                      *)
(*                                                                         *)
(* Three actors: the program, the drive and the interrupt handler, which    *)
(* runs between any two register accesses.  A read of the status register   *)
(* also clears the drive's interrupt.  Addresses stay below 2^32 (of the    *)
(* 48-bit address ide_disk_write_dma sets the upper 16 bits to 0).          *)
(* One disk per controller (IDE_MAX_DISKS is 1).                            *)
(***************************************************************************)
EXTENDS Integers, Sequences, FiniteSets

CONSTANTS
  CtlNum,       \* IDE_CONTROLLERS
  RAID,         \* BOARD_SUPPORT_RAID
  DetectTime,   \* IDE_DETECT_TIME
  Count8,       \* what the 8-bit sector count of LBA28 wraps at
  PrdMax,       \* sectors in one PRD entry (64 Kbyte)
  Pipe,         \* SW_PIPE_SIZE in sectors (USB_SPEED_UP)
  MaxReq        \* bound: sectors of a request

ASSUME DiskAssumption ==
  /\ CtlNum \in Nat \ {0}
  /\ RAID \in BOOLEAN /\ DetectTime \in Nat \ {0}
  /\ Count8 \in Nat \ {0, 1} /\ PrdMax \in Nat \ {0} /\ Pipe \in Nat \ {0}
  /\ MaxReq \in 1 .. Count8

Ctl    == 0 .. CtlNum - 1
PartId == {0, 1}                 \* entries of an MBR
None   == -1
Udma   == {5}                    \* UDMA modes of the drives

VARIABLES
  drive,    \* of each controller: its disk, or "no"; lba48; mbr; busy, err, irq
  ide,      \* ide_info: present, irq_expect, and the mode set_xfer_mode chose
  parts,    \* ide_partitions[0 .. ide_part_num - 1]
  inited,   \* ide_initialized
  scan,     \* ide_init in progress: controller and round
  req       \* the transfer in progress: at, ctl, write, n, moved, res

diskVars == <<drive, ide, parts, inited, scan, req>>

NoScan == [at |-> "no", ctl |-> 0, round |-> 0, total |-> 0]
NoReq  == [at |-> "no", ctl |-> 0, write |-> FALSE, n |-> 0, prd |-> FALSE,
           moved |-> 0, res |-> None]

\* Disks that are slow to spin up, absent, or have no (Linux) partition.
Drives ==
  {[disk |-> d, lba48 |-> l, mbr |-> m, busy |-> FALSE, err |-> FALSE,
    irq |-> FALSE, count |-> 0] : d, l \in BOOLEAN, m \in {{}, PartId}}

DiskInit ==
  /\ drive \in [Ctl -> Drives]
  /\ \A c \in Ctl : /\ drive[c].lba48 => drive[c].disk /\ drive[c].mbr = {}
                    /\ drive[c].mbr # {} => drive[c].disk
  /\ ide = [c \in Ctl |-> [present |-> FALSE, expect |-> FALSE, mode |-> None]]
  /\ parts = <<>> /\ inited = 0 /\ scan = NoScan /\ req = NoReq

-----------------------------------------------------------------------------
(* ide_init *)

\* ide_detect: the registers answer, and it is not a CD-ROM.
Detect(c) == IF drive[c].disk THEN {TRUE, FALSE} ELSE {FALSE}

\* ide_reset: not busy in time, or too late (which is ignored), or the key.
Reset == {"ready", "late", "abort"}

\* ide_ident: DRQ came in time, and brought the UDMA modes.
Ident(c) == IF drive[c].disk THEN {[ok |-> o, udma |-> u] :
                                   o \in BOOLEAN, u \in SUBSET Udma}
            ELSE {[ok |-> FALSE, udma |-> {}]}

\* set_xfer_mode: the fastest mode for chip and drive; none is "mode 0".
\* That the drive refuses it is not looked at.
SetXferMode(udma) ==
  IF udma = {} THEN None ELSE CHOOSE m \in udma : \A k \in udma : k <= m

\* ide_find_partitions: the entries are appended while there is room; no
\* entry when the MBR cannot be read.
FindPartitions(c, found) ==
  LET new == [i \in 1 .. Cardinality(found) |->
                [ctl |-> c, id |-> CHOOSE p \in found :
                   Cardinality({q \in found : q < p}) = i - 1]]
      all == parts \o new
      max == Cardinality(PartId) * CtlNum
  IN  SubSeq(all, 1, IF Len(all) < max THEN Len(all) ELSE max)

\* ide_init starts: the table is cleared, ide_present is not.
IdeInit ==
  /\ scan.at = "no" /\ req.at = "no" /\ inited = 0
  /\ parts' = <<>>
  /\ scan' = [at |-> "ctl", ctl |-> 0, round |-> 1, total |-> 0]
  /\ UNCHANGED <<drive, ide, inited, req>>

\* One more controller, the next round, or the end: at most DetectTime
\* rounds, one with RAID.
NextCtl(t, stop) ==
  IF ~stop /\ scan.ctl + 1 \in Ctl
  THEN [scan EXCEPT !.ctl = @ + 1, !.total = t]
  ELSE IF t = 0 /\ ~RAID /\ scan.round < DetectTime
       THEN [scan EXCEPT !.ctl = 0, !.round = @ + 1]
       ELSE NoScan

\* ide_init_disks of one controller; without RAID the first disk ends it.
InitDisks(c) ==
  \E d \in Detect(c), id \in Ident(c) :
    IF d /\ id.ok
    THEN /\ scan' = NextCtl(scan.total + 1, ~RAID)
         /\ ide' = [ide EXCEPT ![c].present = TRUE,
                               ![c].mode = SetXferMode(id.udma)]
         /\ inited' = IF scan' = NoScan THEN scan.total + 1 ELSE inited
         /\ \E found \in {{}, drive[c].mbr} : parts' = FindPartitions(c, found)
    ELSE /\ scan' = NextCtl(scan.total, FALSE)
         /\ ide' = [ide EXCEPT ![c].present = FALSE]
         /\ inited' = IF scan' = NoScan THEN scan.total ELSE inited
         /\ UNCHANGED parts

ScanCtl ==
  /\ scan.at = "ctl"
  /\ \E r \in Reset :
       IF r = "abort"
       THEN scan' = NoScan /\ UNCHANGED <<ide, parts, inited>>
       ELSE InitDisks(scan.ctl)
  /\ UNCHANGED <<drive, req>>

-----------------------------------------------------------------------------
(* Transfers *)

Return(r) == req' = [req EXCEPT !.at = "no", !.res = r]

\* ide_wait_busy: it reads the status, which also clears the interrupt.
WaitBusy(c, next) ==
  \/ /\ ~drive[c].busy
     /\ req' = next
     /\ drive' = [drive EXCEPT ![c].irq = FALSE]
  \/ /\ drive[c].busy
     /\ req' = [next EXCEPT !.at = "no", !.res = 0]
     /\ UNCHANGED drive

\* What the task file asks of the drive: 0 means the whole range.
TaskCount(c, n) ==
  IF drive[c].lba48 THEN n ELSE IF n % Count8 = 0 THEN Count8 ELSE n % Count8

\* ide_build_prd: entries of PrdMax, the last one with the rest; 0 stands
\* for PrdMax.
Prd(n) ==
  LET k == (n + PrdMax - 1) \div PrdMax
  IN  [i \in 1 .. k |-> (IF i < k THEN 0 ELSE n - (k - 1) * PrdMax) % PrdMax]

PrdSum(t) ==
  LET sum[i \in 0 .. Len(t)] ==
        IF i = 0 THEN 0
        ELSE sum[i - 1] + (IF t[i] = 0 THEN PrdMax ELSE t[i])
  IN  sum[Len(t)]

\* ide_disk_read_dma and ide_disk_write_dma, up to the command.
StartDma ==
  /\ scan.at = "no" /\ req.at = "no"
  /\ \E c \in Ctl, n \in 1 .. MaxReq, w \in BOOLEAN :
       /\ ide[c].present /\ inited # 0
       /\ WaitBusy(c, [at |-> "command", ctl |-> c, write |-> w, n |-> n,
                       prd |-> FALSE, moved |-> 0, res |-> None])
  /\ UNCHANGED <<ide, parts, inited, scan>>

Command ==
  /\ req.at = "command"
  /\ drive' = [drive EXCEPT ![req.ctl].busy = TRUE, ![req.ctl].err = FALSE,
                            ![req.ctl].count = TaskCount(req.ctl, req.n)]
  /\ req' = [req EXCEPT !.at = "expect"]
  /\ UNCHANGED <<ide, parts, inited, scan>>

\* A mutant of Expect: irq_expect is left as the last command left it.
Expect_Keep ==
  /\ req.at = "expect"
  /\ req' = [req EXCEPT !.at = "start"]
  /\ UNCHANGED <<drive, ide, parts, inited, scan>>

\* irq_expect is cleared only after the command has gone out.
Expect ==
  /\ req.at = "expect"
  /\ ide' = [ide EXCEPT ![req.ctl].expect = FALSE]
  /\ req' = [req EXCEPT !.at = "start"]
  /\ UNCHANGED <<drive, parts, inited, scan>>

\* A long read does not wait: the USB side looks for its data in memory.
Piped == ~req.write /\ req.n >= Pipe

Start ==
  /\ req.at = "start"
  /\ req' = IF Piped THEN [req EXCEPT !.at = "no", !.prd = TRUE, !.res = 1]
            ELSE [req EXCEPT !.at = "wait", !.prd = TRUE]
  /\ UNCHANGED <<drive, ide, parts, inited, scan>>

\* ide_wait_interrupt ended, or "INT lost".
WaitInterrupt ==
  /\ req.at = "wait"
  /\ \/ /\ ide[req.ctl].expect
        /\ Return(IF drive[req.ctl].err THEN 0 ELSE 1)
        /\ drive' = [drive EXCEPT ![req.ctl].irq = FALSE]
     \/ /\ ~ide[req.ctl].expect
        /\ Return(0) /\ UNCHANGED drive
  /\ UNCHANGED <<ide, parts, inited, scan>>

\* ide_disk_read_sectors: DRQ for each sector, or it gives up.
ReadSectors ==
  /\ scan.at = "no" /\ req.at = "no"
  /\ \E c \in Ctl, n \in 1 .. MaxReq :
       /\ ide[c].present /\ inited # 0
       /\ \E m \in 0 .. TaskCount(c, n) :
            WaitBusy(c, [NoReq EXCEPT !.ctl = c, !.n = n, !.moved = m,
                                      !.res = IF m = n THEN 1 ELSE 0])
  /\ UNCHANGED <<ide, parts, inited, scan>>

\* ide_disk_write_sectors: one sector; without DRQ it gives up.  It returns
\* when the drive has the data, which is then busy with it.
WriteSectors ==
  /\ scan.at = "no" /\ req.at = "no"
  /\ \E c \in Ctl, drq \in BOOLEAN :
       /\ ide[c].present /\ inited # 0
       /\ drive[c].busy => ~drq
       /\ req' = [NoReq EXCEPT !.ctl = c, !.write = TRUE, !.n = 1,
                               !.moved = IF drq THEN 1 ELSE 0,
                               !.res = IF drq THEN 1 ELSE 0]
       /\ drive' = IF drive[c].busy THEN drive
                   ELSE [drive EXCEPT ![c].irq = FALSE, ![c].busy = drq]
  /\ UNCHANGED <<ide, parts, inited, scan>>

-----------------------------------------------------------------------------
(* The drive and the handler *)

\* The sector of a PIO write is on the medium.
DriveStored ==
  \E c \in Ctl :
    /\ drive[c].busy /\ drive[c].count = 0
    /\ drive' = [drive EXCEPT ![c].busy = FALSE, ![c].irq = TRUE]
    /\ UNCHANGED <<ide, parts, inited, scan, req>>

\* All sectors moved; the bus master has been started for this command.
DriveDone ==
  \E c \in Ctl :
    /\ drive[c].busy /\ drive[c].count > 0 /\ req.ctl = c /\ req.prd
    /\ req' = [req EXCEPT !.moved =
                 IF drive[c].count < PrdSum(Prd(req.n)) THEN drive[c].count
                 ELSE PrdSum(Prd(req.n))]
    /\ drive' = [drive EXCEPT ![c].busy = FALSE, ![c].irq = TRUE,
                              ![c].count = 0]
    /\ UNCHANGED <<ide, parts, inited, scan>>

\* The command fails, at any time after it has been written; also the drive
\* gives up a transfer nobody waits for any more.
DriveFails ==
  \E c \in Ctl :
    /\ drive[c].busy
    /\ drive' = [drive EXCEPT ![c].busy = FALSE, ![c].irq = TRUE, ![c].err = TRUE,
                              ![c].count = 0]
    /\ UNCHANGED <<ide, parts, inited, scan, req>>

\* ide_interrupt, ide_interrupt2
Interrupt ==
  \E c \in Ctl :
    /\ drive[c].irq
    /\ ide' = [ide EXCEPT ![c].expect = TRUE]
    /\ drive' = [drive EXCEPT ![c].irq = FALSE]
    /\ UNCHANGED <<parts, inited, scan, req>>

DiskNext ==
  IdeInit \/ ScanCtl \/ StartDma \/ Command \/ Expect \/ Start
    \/ WaitInterrupt \/ ReadSectors \/ WriteSectors
    \/ DriveStored \/ DriveDone \/ DriveFails \/ Interrupt

DiskSpec == DiskInit /\ [][DiskNext]_diskVars

-----------------------------------------------------------------------------
\* A transfer that is reported as done has moved every sector: no interrupt
\* of an earlier command, and no failure, passes for its end
\* (ide_disk_read_dma, ide_disk_write_dma, ide_interrupt).  A long read of the
\* USB pipe returns while it runs and is left out.
DoneIsMoved == req.res = 1 /\ ~(req.prd /\ Piped) => req.moved = req.n
=============================================================================
