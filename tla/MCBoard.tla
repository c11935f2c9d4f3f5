------------------------------ MODULE MCBoard -------------------------------
(***************************************************************************)
(* Storage, settings, console and boot, components that share no state,     *)
(* checked side by side: a behaviour chooses one of them and runs it alone. *)
(***************************************************************************)
EXTENDS Disk, Ext2, Raid, Scsi, Vctl, Console, Boot, Nor, Ecc

VARIABLE job      \* the component that runs

\* An initrd of nine blocks, with a hole, that needs all three levels of
\* block numbers, and a kernel of three.
MCImage == <<"initrd", "kernel">>
MCSize  == <<17, 5>>
MCHome  == <<[k \in 0 .. 8 |-> IF k = 4 THEN 0 ELSE 10 + k],
             [k \in 0 .. 2 |-> 20 + k]>>
Two(a, b) == [i \in 0 .. 1 |-> IF i = 0 THEN a ELSE b]
MCTable == <<Two(11, 12), Two(3, 4), Two(13, 0), Two(15, 16), Two(6, 0),
             Two(7, 0), Two(17, 18), Two(21, 22)>>
MCRoot  == <<[i \in 0 .. 3 |-> <<10, 1, 2, 5>>[i + 1]],
             [i \in 0 .. 3 |-> <<20, 8, 0, 0>>[i + 1]]>>

\* The member numbers in the order of the ports.
MCNumber == <<0, 1>>

\* nand_oob_16 of flash_nand.c, six bytes of code; pages with no, one and
\* three bits set in a piece.
MCOobSel == <<8, 9, 10, 13, 14, 15>>
\* The digits of byte l and bit c of a piece.
MCBit(l, c) ==
  [p \in 0 .. 3 |-> IF p < 2 THEN (l \div 2 ^ p) % 2 ELSE (c \div 2 ^ (p - 2)) % 2]
MCPages  == {{}, {MCBit(0, 0)}, {MCBit(1, 1), MCBit(3, 2), MCBit(2, 1)}}

Init ==
  /\ job \in {"disk", "ext2", "raid", "scsi", "vctl", "console", "boot",
              "nor", "ecc"}
  /\ Ext2Init /\ ScsiInit /\ VctlInit /\ ConsoleInit
  /\ DiskInit /\ (job # "disk" => \A c \in Ctl : ~drive[c].disk /\ drive[c].mbr = {})
               /\ \A c \in Ctl \ {0} : drive[c].disk => drive[c].lba48
  /\ RaidInit /\ (job # "raid" => level = "RAID1" /\ flaky = 1)
  /\ BootInit /\ (job # "boot" => ~nand /\ rs485 /\ \A i \in 1 .. DirSize : dir[i] = "free")
  /\ NorInit  /\ (job # "nor" => part = "m25p" /\ \A a \in Addr : cells[a] = BLANK)
  /\ EccInit  /\ (job # "ecc" => \A k \in 1 .. Steps : written[k] = {})

Next ==
  /\ UNCHANGED job
  /\ \/ /\ job = "disk" /\ DiskNext
        /\ UNCHANGED <<ext2Vars, raidVars, scsiVars, vctlVars, consoleVars, bootVars, norVars, eccVars>>
     \/ /\ job = "ext2" /\ Ext2Next
        /\ UNCHANGED <<diskVars, raidVars, scsiVars, vctlVars, consoleVars, bootVars, norVars, eccVars>>
     \/ /\ job = "raid" /\ RaidNext
        /\ UNCHANGED <<diskVars, ext2Vars, scsiVars, vctlVars, consoleVars, bootVars, norVars, eccVars>>
     \/ /\ job = "scsi" /\ ScsiNext
        /\ UNCHANGED <<diskVars, ext2Vars, raidVars, vctlVars, consoleVars, bootVars, norVars, eccVars>>
     \/ /\ job = "vctl" /\ VctlNext
        /\ UNCHANGED <<diskVars, ext2Vars, raidVars, scsiVars, consoleVars, bootVars, norVars, eccVars>>
     \/ /\ job = "console" /\ ConsoleNext
        /\ UNCHANGED <<diskVars, ext2Vars, raidVars, scsiVars, vctlVars, bootVars, norVars, eccVars>>
     \/ /\ job = "boot" /\ BootNext
        /\ UNCHANGED <<diskVars, ext2Vars, raidVars, scsiVars, vctlVars, consoleVars, norVars, eccVars>>
     \/ /\ job = "nor" /\ NorNext
        /\ UNCHANGED <<diskVars, ext2Vars, raidVars, scsiVars, vctlVars, consoleVars, bootVars, eccVars>>
     \/ /\ job = "ecc" /\ EccNext
        /\ UNCHANGED <<diskVars, ext2Vars, raidVars, scsiVars, vctlVars, consoleVars, bootVars, norVars>>

Spec ==
  Init /\ [][Next]_<<job, diskVars, ext2Vars, raidVars, scsiVars, vctlVars,
                     consoleVars, bootVars, norVars, eccVars>>
=============================================================================
