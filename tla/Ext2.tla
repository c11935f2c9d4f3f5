-------------------------------- MODULE Ext2 --------------------------------
(***************************************************************************)
(* Loading kernel and initrd from an ext2 file system: src/ide/ext2fs.c and *)
(* sys_load_kernel_from_ide of src/sys/sys_main.c.                          *)
(*                                                                         *)
(* All of ext2fs.c shares one block buffer and one cache of group           *)
(* descriptors.  Any read of the disk may fail.  A file is the sequence of  *)
(* its bytes, each named by its block and its place in it; block 0 stands   *)
(* for a hole.  The names of the path, one directory deep, are found or     *)
(* not; links are followed before (a link costs more reads of the same      *)
(* kind).                                                                  *)
(***************************************************************************)
EXTENDS Integers, Sequences, FiniteSets

CONSTANTS
  Image,       \* the files: initrd, then kernel, of CPU 0 and then of CPU 1
  Tries,       \* cnt
  MaxFiles,    \* MAX_FILES
  BlockSize,   \* blocksize, in bytes
  PerBlock,    \* nr_ind_blocks: block numbers in a block
  Direct,      \* EXT2_NR_DIR_BLOCKS
  Home,        \* of each image: where the file system keeps each of its blocks
  Size,        \* of each image: its size in bytes
  Table,       \* the blocks of block numbers
  Root         \* of each image: inode->block

ASSUME Ext2Assumption ==
  /\ Image \in {<<"initrd", "kernel">>,
                <<"initrd", "kernel", "initrd1", "kernel1">>}
  /\ Tries \in Nat \ {0} /\ MaxFiles \in Nat \ {0}
  /\ BlockSize \in Nat \ {0} /\ PerBlock \in Nat \ {0} /\ Direct \in Nat \ {0}

Junk == -1               \* what a failed read leaves in the buffer
Unset == -2

VARIABLES
  opened,   \* file_info[i].opened
  gdesc,    \* the group the descriptor cache holds, as gdesc_first says
  cached,   \* the group it really holds
  buf,      \* blockbuf: the number of the block in it
  file,     \* the open file: image, handle, file_pos
  rd,       \* ext2fs_read in progress: bytes wanted and read so far
  mem,      \* what has been loaded for each image
  ld        \* sys_load_kernel_from_ide: at, image, tries left, err

ext2Vars == <<opened, gdesc, cached, buf, file, rd, mem, ld>>

Handle == 0 .. MaxFiles - 1
NoFile == [img |-> 0, h |-> 0, pos |-> 0]
NoRead == [on |-> FALSE, want |-> 0, done |-> 0]

\* ext2fs_init of the partition with both files: it has opened and closed
\* them.
Ext2Init ==
  /\ opened = [h \in Handle |-> FALSE]
  /\ gdesc = 0 /\ cached = 0 /\ buf = Unset
  /\ file = NoFile /\ rd = NoRead
  /\ mem = [i \in DOMAIN Image |-> <<>>]
  /\ ld = [at |-> "open", img |-> 1, cnt |-> Tries, err |-> TRUE]

-----------------------------------------------------------------------------
\* ext2fs_get_gdesc for group g: on a miss the sector is read (by PIO: all or
\* nothing), and gdesc_first follows when that worked.
GetGdesc(g, ok) ==
  IF g = gdesc THEN UNCHANGED <<gdesc, cached>>
  ELSE /\ cached' = IF ok THEN g ELSE cached
       /\ gdesc' = IF ok THEN g ELSE gdesc

\* ext2fs_get_inode: the inode of the image, or, with the descriptor of
\* another group, some other inode.
GetInode(img, g) == IF cached' = g THEN img ELSE (img % Len(Image)) + 1

\* ext2fs_inode_block: where block b of the image is.
Indirect(t, i) == Table[t][i]

InodeBlock(img, b) ==
  LET ind  == b - Direct
      dind == ind - PerBlock
      tind == dind - PerBlock * PerBlock
      r    == Root[img]
  IN  IF ind < 0 THEN r[b]
      ELSE IF dind < 0 THEN Indirect(r[Direct], ind)
      ELSE IF tind < 0
      THEN Indirect(Indirect(r[Direct + 1], dind \div PerBlock), dind % PerBlock)
      ELSE LET m == tind % (PerBlock * PerBlock)
           IN  Indirect(Indirect(Indirect(r[Direct + 2],
                                          tind \div (PerBlock * PerBlock)),
                                 m \div PerBlock),
                        m % PerBlock)

\* The file system is sound: the inodes and the blocks of block numbers say
\* where the blocks of the images are.
ASSUME FileSystemAssumption ==
  \A i \in DOMAIN Image :
    /\ Size[i] \in Nat
    /\ \A b \in 0 .. Size[i] - 1 : b * BlockSize < Size[i] => InodeBlock(i, b) = Home[i][b]

\* The bytes a .. b - 1 of the block in the buffer.
Bytes(blk, a, b) == [i \in 1 .. b - a |-> <<blk, a + i - 1>>]

-----------------------------------------------------------------------------
(* ext2fs_open, ext2fs_read, ext2fs_close *)

Unopened == {h \in Handle : ~opened[h]}
LowestHandle == CHOOSE h \in Unopened : \A k \in Unopened : h <= k

\* ext2fs_dir_lookup: the blocks of a directory are read in turn and searched
\* for the name.
DirLookup == BOOLEAN

\* ext2fs_inode_lookup: one directory after the other, and the links on the
\* way.
InodeLookup == DirLookup

\* ext2fs_inode_lookup and ext2fs_get_inode.  A failure keeps the handle.
Open(img, group) ==
  IF Unopened = {}
  THEN /\ file' = NoFile
       /\ UNCHANGED <<opened, gdesc, cached, buf>>
  ELSE \E ok \in InodeLookup :
         /\ opened' = [opened EXCEPT ![LowestHandle] = TRUE]
         /\ GetGdesc(group, ok)
         /\ buf' = IF ok THEN Unset ELSE Junk
         /\ file' = IF ok THEN [img |-> GetInode(img, group),
                                h |-> LowestHandle, pos |-> 0] ELSE NoFile

Min2(a, b) == IF a < b THEN a ELSE b

\* ext2fs_read: what the last call left of its last block comes from the
\* buffer.
ReadBegin(n) ==
  LET want == Min2(n, Size[file.img] - file.pos)
      off  == file.pos % BlockSize
      rem  == IF off = 0 THEN 0 ELSE Min2(BlockSize - off, want)
  IN  /\ mem' = [mem EXCEPT ![ld.img] = @ \o Bytes(buf, off, off + rem)]
      /\ file' = [file EXCEPT !.pos = @ + rem]
      /\ rd' = [on |-> TRUE, want |-> want, done |-> rem]

\* A mutant of ReadBlock: the result of the disk read is not looked at.
ReadBlock_Unchecked(ok) ==
  LET b == InodeBlock(file.img, file.pos \div BlockSize)
      n == Min2(BlockSize, rd.want - rd.done)
  IN  /\ buf' = IF ok THEN b ELSE Junk
      /\ mem' = [mem EXCEPT ![ld.img] = @ \o Bytes(buf', 0, n)]
      /\ file' = [file EXCEPT !.pos = @ + n]
      /\ rd' = [rd EXCEPT !.done = @ + n]

\* One round of its loop: the block numbers, then the block, or a hole.
ReadBlock(ok) ==
  LET b == InodeBlock(file.img, file.pos \div BlockSize)
      n == Min2(BlockSize, rd.want - rd.done)
  IN  IF ok
      THEN /\ buf' = b
           /\ mem' = [mem EXCEPT ![ld.img] = @ \o Bytes(b, 0, n)]
           /\ file' = [file EXCEPT !.pos = @ + n]
           /\ rd' = [rd EXCEPT !.done = @ + n]
      ELSE buf' = Junk /\ rd' = NoRead /\ UNCHANGED <<mem, file>>

Close == opened' = [opened EXCEPT ![file.h] = FALSE]

-----------------------------------------------------------------------------
(* sys_load_kernel_from_ide *)

\* Images come in pairs; where the pair after the one of image i begins.
NextPair(i) == 2 * ((i + 1) \div 2) + 1

\* One try has failed: again, or on with err set.  The second image of a pair
\* is not tried without the first.
Again(l) ==
  IF l.cnt > 1 THEN [l EXCEPT !.at = "open", !.cnt = @ - 1]
  ELSE IF NextPair(l.img) <= Len(Image)
       THEN [at |-> "open", img |-> NextPair(l.img), cnt |-> Tries, err |-> TRUE]
       ELSE [l EXCEPT !.at = "end", !.err = TRUE]

Loaded(l) ==
  IF l.img < Len(Image)
  THEN [at |-> "open", img |-> l.img + 1, cnt |-> Tries, err |-> TRUE]
  ELSE [l EXCEPT !.at = "run", !.err = FALSE]

LoadOpen ==
  /\ ld.at = "open"
  /\ \E group \in {0, 1} : Open(ld.img, group)
  /\ mem' = [mem EXCEPT ![ld.img] = <<>>]
  /\ ld' = IF file'.img = 0 THEN Again(ld) ELSE [ld EXCEPT !.at = "read"]
  /\ UNCHANGED rd

\* The whole file in one call.
LoadRead ==
  /\ ld.at = "read" /\ ~rd.on
  /\ ReadBegin(Size[file.img])
  /\ UNCHANGED <<opened, gdesc, cached, buf, ld>>

LoadBlock ==
  /\ ld.at = "read" /\ rd.on /\ rd.done < rd.want
  /\ \E ok \in BOOLEAN :
       /\ ReadBlock(ok)
       /\ IF rd'.on THEN UNCHANGED <<ld, opened>>
          ELSE Close /\ ld' = Again(ld)
  /\ UNCHANGED <<gdesc, cached>>

\* The read came back; the file stays open once it is all there, until all
\* images are loaded and no more file is opened.
LoadDone ==
  /\ ld.at = "read" /\ rd.on /\ rd.done = rd.want
  /\ rd' = NoRead
  /\ ld' = IF file.pos = Size[file.img] THEN Loaded(ld) ELSE ld
  /\ UNCHANGED <<opened, gdesc, cached, buf, file, mem>>

Ext2Next == LoadOpen \/ LoadRead \/ LoadBlock \/ LoadDone

Ext2Spec == Ext2Init /\ [][Ext2Next]_ext2Vars

-----------------------------------------------------------------------------
Content(i) ==
  [k \in 1 .. Size[i] |-> <<Home[i][(k - 1) \div BlockSize], (k - 1) % BlockSize>>]

\* The kernel is started only when every image in memory is its file, byte
\* for byte, whatever failed on the way (sys_load_kernel_from_ide,
\* ext2fs_read).
RunsLoaded == ld.at = "run" => \A i \in DOMAIN Image : mem[i] = Content(i)
=============================================================================
