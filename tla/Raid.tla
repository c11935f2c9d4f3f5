-------------------------------- MODULE Raid --------------------------------
(***************************************************************************)
(* The software RAID of BOARD_SUPPORT_RAID, src/raid/raid.c: raid_init puts *)
(* two partitions together by their superblocks, and the USB side reads and *)
(* writes the array as one disk.                                           *)
(*                                                                         *)
(* A sector holds the number of the write that stored it.  Power may fail   *)
(* between any two writes to the disks, and one of the disks, flaky, may be *)
(* missing at a boot and come back at a later one.  Both partitions are     *)
(* usable: they carry a superblock of the array, and are neither faulty nor *)
(* too small to run alone.                                                 *)
(***************************************************************************)
EXTENDS Integers, Sequences

CONSTANTS
  Number,      \* this_disk.number in the superblock of the disk at each port
  Blocks,      \* rdev_size: Kbytes of a member
  Unaligned,   \* requests may start or end in the middle of a Kbyte
  MaxWrites    \* bound: write requests

ASSUME RaidAssumption ==
  /\ Number \in {<<0, 1>>, <<1, 0>>}
  /\ Blocks \in Nat \ {0} /\ Unaligned \in BOOLEAN /\ MaxWrites \in Nat

Port   == {1, 2}
Sector == 0 .. 2 * Blocks - 1

VARIABLES
  level,    \* sb->level: "RAID1" or "LINEAR"
  flaky,    \* the disk that may be missing
  disk,     \* what is on each disk: events, and its sectors
  there,    \* the disks ide_init found
  array,    \* md[0].disk[0 .. disk_no - 1], empty before raid_init
  sbUpdate, \* sb_update
  mbr,      \* md_mbr: the write that last stored it
  todo,     \* the disk writes left of the request in progress
  count,    \* history: requests so far
  last      \* history: for each sector of the array, the writes it may hold

raidVars == <<level, flaky, disk, there, array, sbUpdate, mbr, todo, count, last>>

Address(l) == IF l = "RAID1" THEN Sector ELSE 0 .. 4 * Blocks - 1

RaidInit ==
  /\ level \in {"RAID1", "LINEAR"} /\ flaky \in Port
  /\ disk = [d \in Port |-> [events |-> 0, data |-> [s \in Sector |-> 0]]]
  /\ there = {} /\ array = <<>> /\ sbUpdate = FALSE /\ mbr = 0
  /\ todo = <<>> /\ count = 0
  /\ last = [s \in Address(level) |-> {0}]

-----------------------------------------------------------------------------
(* raid_init *)

\* A mutant of Import: one that is behind is not dropped.
Import_Both(d, e) ==
  IF Number[d] < Number[e] THEN <<d, e>> ELSE <<e, d>>

\* md_import_device of two partitions: the lower number first, and one that
\* is behind is dropped: disk[1] when the second partition is behind.
Import(d, e) ==
  LET order == IF Number[d] < Number[e] THEN <<d, e>> ELSE <<e, d>>
  IN  IF disk[d].events > disk[e].events THEN <<order[1]>>
      ELSE IF disk[d].events < disk[e].events THEN <<e>>
      ELSE order

\* The scan over the partitions: RAID1 also runs with one alone.
Assemble(S) ==
  IF S = Port THEN Import(1, 2)
  ELSE IF level = "RAID1" THEN <<CHOOSE d \in S : TRUE>> ELSE <<>>

RaidBoot(S) ==
  /\ there' = S /\ array' = Assemble(S)
  /\ sbUpdate' = FALSE /\ mbr' = 0 /\ todo' = <<>>
  /\ UNCHANGED <<level, flaky, disk, count, last>>

-----------------------------------------------------------------------------
(* md_read and md_write *)

\* First sector and number of sectors.
Request == {r \in Address(level) \X (1 .. 4 * Blocks) :
              /\ r[1] + r[2] - 1 \in Address(level)
              /\ Unaligned \/ (r[1] % 2 = 0 /\ r[2] % 2 = 0)}

\* A write of n sectors at s of disk d, or of its superblock.
Part(d, s, n)  == [disk |-> d, at |-> s, n |-> n]
Super(d)       == [disk |-> d, at |-> 0, n |-> 0]

\* linear_read and linear_write: all on the first disk, all on the second,
\* or a piece on each.
Linear(s, n) ==
  IF (s \div 2) + (n \div 2) <= Blocks THEN <<Part(array[1], s, n)>>
  ELSE IF s \div 2 >= Blocks THEN <<Part(array[2], s - 2 * Blocks, n)>>
  ELSE LET c == 2 * Blocks - s
       IN  <<Part(array[1], s, c), Part(array[2], 0, n - c)>>

\* raid1_write: alone, the first write of a boot also makes the superblock
\* newer than that of the missing partner.
Raid1Write(s, n) ==
  (IF ~sbUpdate /\ Len(array) = 1 THEN <<Super(array[1])>> ELSE <<>>)
    \o [i \in DOMAIN array |-> Part(array[i], s, n)]

\* raid1_read: always the first.
Raid1Read(s, n) == <<Part(array[1], s, n)>>

MdWrite ==
  /\ array # <<>> /\ todo = <<>> /\ count < MaxWrites
  /\ \E r \in Request :
       /\ todo' = IF level = "RAID1" THEN Raid1Write(r[1], r[2])
                  ELSE Linear(r[1], r[2])
       /\ last' = [s \in DOMAIN last |->
                     IF s \in r[1] .. r[1] + r[2] - 1
                     THEN last[s] \cup {count + 1} ELSE last[s]]
  /\ count' = count + 1 /\ sbUpdate' = (sbUpdate \/ level = "RAID1")
  /\ UNCHANGED <<level, flaky, disk, there, array, mbr>>

\* A write of sector 0 stays in memory.
MbrWrite ==
  /\ array # <<>> /\ todo = <<>> /\ count < MaxWrites
  /\ mbr' = count + 1 /\ count' = count + 1
  /\ UNCHANGED <<level, flaky, disk, there, array, sbUpdate, todo, last>>

\* One write to a disk; the last one ends the request.
DiskWrite ==
  /\ todo # <<>>
  /\ LET w == todo[1]
     IN  disk' = IF w.n = 0 THEN [disk EXCEPT ![w.disk].events = @ + 2]
                 ELSE [disk EXCEPT ![w.disk].data = [s \in Sector |->
                        IF s \in w.at .. w.at + w.n - 1 THEN count ELSE @[s]]]
  /\ todo' = Tail(todo)
  /\ last' = IF Len(todo) > 1 THEN last
             ELSE [s \in DOMAIN last |->
                     IF count \in last[s] THEN {count} ELSE last[s]]
  /\ UNCHANGED <<level, flaky, there, array, sbUpdate, mbr, count>>

\* Power fails, or the system restarts.
Reboot == \E S \in {Port, Port \ {flaky}} : RaidBoot(S)

\* The kernel copies the newer member to the one that is behind.
Resync ==
  /\ level = "RAID1" /\ there = Port /\ todo = <<>>
  /\ disk[1].events # disk[2].events
  /\ LET new == IF disk[1].events > disk[2].events THEN 1 ELSE 2
     IN  disk' = [d \in Port |-> disk[new]]
  /\ there' = {} /\ array' = <<>>
  /\ UNCHANGED <<level, flaky, sbUpdate, mbr, todo, count, last>>

RaidNext == MdWrite \/ MbrWrite \/ DiskWrite \/ Reboot \/ Resync

RaidSpec == RaidInit /\ [][RaidNext]_raidVars

-----------------------------------------------------------------------------
\* What sector s of the array reads as, by raid1_read or by linear_read of its
\* Kbyte.
Reads(s) ==
  LET p == IF level = "RAID1" THEN Raid1Read(s, 1)[1]
           ELSE Linear(s - (s % 2), 2)[1]
  IN  disk[p.disk].data[IF level = "RAID1" THEN p.at ELSE p.at + (s % 2)]

\* Whatever disk was missing at earlier boots, and wherever power failed,
\* the array reads as the last write that finished, or as one that was cut
\* short after it (raid_init, raid1_write, linear_write).
ReadsLast ==
  array # <<>> => \A s \in DOMAIN last : Reads(s) \in last[s]
=============================================================================
