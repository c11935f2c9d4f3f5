# A verification project for the SL2312/Lepus boot loader

The repository is a boot loader for Storlink (Cortina) SL2312 and Lepus boards.
It starts from NAND, parallel or serial flash, offers a console menu, keeps a
directory of images in flash (FIS), upgrades images over the serial line
(XMODEM) or the network (TFTP, optionally HTTP), and loads a kernel and a RAM
disk from flash, from an IDE disk, from a RAID member or by TFTP.

There is one thread.  Interrupts only count ticks (`hal_sl2312.c:312-375`);
everything else is polled, so that concurrency comes from three places: the
other end of a line or a network, power that may fail at any moment while
flash is being written, and *recursion*, since code that waits calls
`enet_poll`, which runs handlers, which may wait in turn.

Paths below are relative to `src/` of the repository.

## 1. Inventory

| Part | State | Operations | Hard because |
|---|---|---|---|
| Heap `sys/sys_malloc.c` | arena of blocks, chained headers with tag, next, prev, size, used_cnt | sys_init_memory, sys_malloc, sys_free, sys_mem_garbage_collect | long call sequences, stale pointers, off-by-one |
| Network buffers `net/net_buf.c`, `net/enet.c` | two linked queues | alloc, free, put_rcvq, get_rcvq, enet_input, enet_poll, enet_send | nested polls, exhaustion |
| XMODEM `Xmodem/Xmodem.c` | retry counters, next block, pending ACK | open, get_header, read, terminate | lost and garbled characters, wrap at 256 |
| TFTP get and UDP `net/tftp_client.c`, `net/udp.c` | one socket with a byte ring, last_good_block, time-outs | tftpc_get, udp_socket, udp_input, udp_recvfrom, udp_close | loss, repetition, late datagrams, wrap at 65536 |
| TFTP put `net/tftp_client.c`, `ui/ui_tftp.c` | block counter | tftpc_put | the same |
| ARP `net/arp.c` | cache of four, pending request | arp_input, arp_request, arp_lookup | a full cache, recursion |
| IP, ICMP `net/ip.c`, `net/icmp.c` | ping counters | ip_input, ip_output, icmp_ping | late replies |
| TCP, HTTP `net/tcp.c`, `net/http.c` (optional) | sockets, one global request | tcp_input, tcp_sendto, rx_http_packet | recursion into itself, time-outs from the interrupt |
| FIS `sys/sys_fis.c` | directory in RAM and in flash | init, find, create, delete, write_flash | power failure, web upgrades during prompts |
| Upgrade `ui/ui_upgrade.c` | download buffer | ui_upgrade, ui_download, web_upgrade, web_program, verify_image_file | partial failure, retries, nesting |
| Vendor data `sys/sys_vctl.c` | one flash sector of entries | get, save, recover, the settings of `sys/sys_cfg.c` | power failure |
| Flash driver `bsp/flash/flash_drv.c`, chips | bad-block marks, contents | erase, program, NAND program | bad blocks, bounds |
| First-stage loader `boot/boot_main.c` | NAND blocks with tags | sl_main | bad blocks, underflow |
| Boot sequence `sys/sys_main.c` | boot source, retries | sl_main, load_from_flash, load_from_ide | order of fall-backs |
| Console `bsp/uart/uart_drv.c`, `ui/ui_lib.c`, `ui/ui_cli_main.c` | receive ring, keys, line, history | polling, getc, line editing | ring boundaries, keys of several characters |
| Ethernet `bsp/emac/` | descriptor rings shared with a DMA engine; PHY registers behind two pins | deliver, send, mii_read, mii_write | the engine runs between any two accesses |
| ATA `ide/ide.c` | one request, interrupt flag | detection, PIO, DMA | interrupts of commands given up |
| ext2 `ide/ext2fs.c` | one block buffer, descriptor cache, file handles | open, read, close | any read may fail |
| SCSI over USB `ide/libata-scsi.c` | command, pipe | reads, writes, inquiries | data arrive during the write |
| RAID `raid/raid.c` | two members with event counters | init, read, write | members that come back, power failure |
| AoE, PCI, CIR, HAL | registers | | hardware |

How the parts meet: the upgrade calls XMODEM or TFTP with a buffer from the
heap, then the flash driver, then the FIS; TFTP calls UDP, which calls ARP,
which polls the network buffers, from which the handlers call UDP back; FIS and
vendor data use the flash driver; the boot sequence reads all of them, and the
kernel also comes from ext2 over ATA, or from a RAID member.  The web server
upgrades images from inside `enet_poll`.

What makes each part correct: blocks handed out never overlap; a buffer has one
owner; a download that reports success has the whole file, ends, and survives
what its retries are for; flash holds what was written to it, and what a power
failure leaves is recognised for what it is.  `PROJECT.json` lists the hazards
at their lines, with the properties that watch them.

## 2. Modules

| Module | Models | Composition |
|---|---|---|
| `Heap` | sys_malloc.c | |
| `NetBuf` | net_buf.c, enet.c, and what the handlers in ip.c, icmp.c, arp.c, udp.c, tcp.c do with buffers | |
| `Xmodem` | Xmodem.c and do_xmodem_download, with an external sender and line | |
| `TftpGet` | tftpc_get, the UDP socket, do_tftp_download, with an external server and network | |
| `Nand` | flash_nand_program, the page and block routines of flash_nand.c, the retries of ui_download, with an external chip that wears and power that fails | |
| `Fis` | sys_fis.c and ui_upgrade.c for parallel flash, with an external chip and power that fails | |
| `Web` | tcp.c, http.c, with external browsers | |
| `Ping` | arp.c, icmp.c, ui_ping.c, with external hosts | |
| `TftpPut` | tftpc_put, ui_tftp.c, with an external server | |
| `Gmac` | sl_lepus_gmac.c and the link state of lepus_gmac_phy.c | |
| `Emac` | emac_sl2312.c and gmac_sl2312.c | |
| `Mii` | mii_read and mii_write of lepus_gmac_phy.c, gmac_phy.c, emac_phy.c, with external PHYs | |
| `Disk` | ide.c with an external drive | |
| `Ext2` | ext2fs.c and sys_load_kernel_from_ide | |
| `Scsi` | libata-scsi.c with the external USB engine | |
| `Raid` | raid.c with power that fails and a disk that goes and comes | |
| `Settings` | what the vendor data promise: an abstract store | |
| `Vctl` | sys_vctl.c, sys_cfg.c and the menu that changes settings | implements `Settings` |
| `Console` | uart_drv.c, ui_lib.c, ui_cli_main.c | |
| `Boot` | boot_main.c, sl_main of sys_main.c, fis_load_images, the menu's start | |
| `Nor` | flash_amd.c, flash_m25p80.c with external chips | |
| `Ecc` | the software ECC of flash_nand.c | |
| `HeapProof`, `NetBufProof`, `XmodemProof`, `TftpGetProof`, `NandProof`, `FisProof` | theorems about `Heap`, `NetBuf`, `Xmodem`, `TftpGet`, `Nand`, `Fis` | each extends its module |
| `NetProof` | theorems about `Emac`, `Gmac`, `Mii`, `Ping`, `TftpPut`, `Web` | extends the six |
| `BoardProof` | theorems about `Console`, `Boot`, `Nor`, `Raid`, `Vctl`, `Disk`, `Scsi`, `Ext2`, `Ecc` | extends the nine |
| `MCHeap` ... `MCFis` | instances for TLC | each extends its module |
| `MCNet` | Web, Gmac, Emac, Mii, Ping, TftpPut side by side | extends the six |
| `MCBoard` | Disk, Ext2, Raid, Scsi, Vctl, Console, Boot, Nor, Ecc side by side | extends the nine |

### Heap

Addresses are offsets from `start_ptr` in units of 16 bytes, the alignment of
every block.  Each header field is a function of the address; `size[a] = JUNK`
says that the bytes at `a` are not a header, or are none any more.  The history
variable `chain` is the set of headers on the list from `start_ptr`; `held` and
`asked` record what clients were given.  Every iteration of the loops in
`sys_malloc` (Walk...) and `sys_mem_garbage_collect` (Gc...) is a step.
`ClientWrite` lets a client store into its block, which destroys old headers
that lie there, and `FreeWild` is a `sys_free` whose `prev` pointer leads to
such bytes: they may read as anything.

### NetBuf

`next`, `first`, `tail` and `total` are the pointers and counters of the code;
`order` is the history of what was put into a queue.  `calls` is the stack of
`enet_poll` calls in progress: `ArpTry` sends a request from inside a handler,
`Poll` then enters `enet_poll` again.  A frame is abstracted to what its handler
does with the buffer: free it (or answer in it, which frees it too), send
another one, wait for ARP, or forget it (`HandleLose`: `ip.c:74-76` returns for
TCP packets while the web server is off, `tcp.c:455-456` for segments without
ACK).

### Xmodem

The line carries whole items (a block, EOT, CAN, a stray character) and answers
(ACK, NAK, C, CAN).  `Xmodem_get_header` is entered (`HdrEnter`, which sends the
ACK that is due), skips characters (`HdrSkip`), and ends with a status
(`HdrItem`, `HdrTimeout`) on which `OpenStat` or `ReadStat` acts, as the retry
loops of `Xmodem_open` and `Xmodem_read` do.  A block is its index, and carries
the index modulo `BlkMod`.  `Copy` is the memcpy; when it fills the buffer,
`Xmodem_read` returns without setting `err`, so that `do_xmodem_download`
succeeds or fails by chance.  `cut` records the blocks whose trailing ^Z bytes
were stripped.  The sender and the line are external; `Settings` says what they
may do, and a behaviour begins by choosing one.

### TftpGet

Data is counted in units, a block of `TFTP_BUF_SIZE` of them and a header of one.
The socket's ring is a sequence of units and, like the code's, does not keep
datagrams apart: `Receive` takes up to a block and a header of what is there,
and when a unit of file data stands where a header should, it may read as
anything (`Readings`).  `Deliver` is `udp_input`; `Start`, `TimedOut`,
`Overflowed` and `Receive` are `tftpc_get`.  `udp_sendto` ends without a return
statement, which `SendFailed` models as a result that may be negative whether
or not the datagram went out.  Downloads follow one another, each from its own
port, and datagrams of an earlier one may still be under way.

### Nand

A block has `BlockPages` pages of `PageUnits` units; an area of the flash map
begins at a block and has a bound, which is the third argument of
`flash_nand_program`.  `Call` and `Upgrade` enter it, `Skip` passes a block that
`VeffBad` finds marked, `Erase`, `ProgramPage` and their failures follow
flash_erase_block, flash_program_buf and pagewrite, and `MarkBad` the marking of
a block that has failed, after which the area is begun again (`Failed`).  `Load`,
`RdSkip` and `RdPage` are flash_read_buf.  `env.indirect` chooses between the
builds with and without BOARD_SUPPORT_NAND_INDIRECT, whose buffers differ.  `Wear`
is the chip: a block begins to fail; `PowerOff` stops the program in the middle.

Two things the code does are exceptions in the properties.  An area without
enough good blocks is reported as programmed though its end is not written
(`flash_drv.c:326-327` leaves the loop with a good status; the bound is only
compared for marked blocks, and with `>`).  A read of more than a page that is
not a whole number of pages ends with a page that is read again
(`flash_nand.c:672-674` reduces `len` before using it).

### Fis

Flash is a row of cells (erase blocks), one of which is the directory's.  An
entry is its name, base, size and length, whether it can be run, and whether its
checksum fits.  `fis` is the directory in RAM, `rom` the one in flash.
`WriteErase`, `WriteEntry`, `WriteDone` and `WriteFails` are fis_write_flash; the
bytes of an entry are programmed in order with the checksum last, so that a power
cut leaves one of the forms `Torn` gives.  `Boot` is sys_fis_init.  `Create`
covers fis_ui_create_image up to ui_download, `Tail` what follows it.  `Upgrade`
and `Web` are the two ways to upgrade an image: `Accept` is the part before the
flash is touched, `EraseCell`, `ProgramCell`, `AreaFails` and `Again` the loop of
tries, `Update` the change of the directory.  `ui_getc` and the TFTP client poll
the network, so `Web` may also happen in the state `download`: it runs to its end
and the interrupted operation, kept in `outer`, goes on with what it had looked
up before.  What is in a file is its number and the position, with or without the
header; `File` records in `MCFis` say how long it is, whether a header is good,
bad or missing, and whether it is a directory.

The code's behaviour makes these exceptions necessary, each of which the run
reaches: an upgrade gives every entry with its address a valid checksum, a
damaged one too, which may give a name twice (`ui_upgrade.c:639-647`, `revived`);
a directory image is taken over unread (`sys_fis.c:805-814`, `loaded`); after
`fis_ui_create_image` has failed the entries of that address have size 0, and an
upgrade of a size 0 has no limit; `web_program` programs a loader with the header
in front (`ui_upgrade.c:931`, where `bufp` is computed and `filep` used), and
leaves the MAC off when a file is too large (`ui_upgrade.c:884-892`), where it
also frees a pointer that is not set.

### Web

A socket has a state, a peer and the flags of `tcp_socks`.  `TcpInput` is one
segment: it looks the socket up as `tcp_input` does and ends either in a change
or in an answer.  Answers go through `tcp_sendto`; while the peer's hardware
address is not cached, what follows the call waits on `pend` and other segments
are handled first.  Any run of the browser's stream may arrive at any time, which
covers loss, repetition, reordering and other segment boundaries.  An upload is a
sequence of the marks that `strstr` looks for and of pieces of the file; `Judge`,
`PostFirst`, `PostNext` and `Upgrade` are the cases of `rx_http_packet` and
`image_upgrade`.  Facts that the model shows and the property leaves out: the
"unknown case" of image_upgrade programs what is there, and a new POST during the
answer to the last one overwrites the buffer (`again`).  `tcp_close` only frees
socket 0 (`tcp.c:781-807`).

### Ping

The ARP cache with its counter, the stack of `arp_request` calls, and `icmp_ping`
with its echoes.  Answers to earlier echoes may arrive at any time.  The ident of
a reply has 16 bits (`IdentMod`) and is compared with the int `icmp_ident`; after
65535 echoes every reply counts as an error, so `PingHonest` only speaks of
replies that count.  A failed lookup goes on with a null entry
(`icmp.c:205`).

### TftpPut

As `TftpGet`, from the other side: `PutReceive` acts on an ACK or an ERROR,
`PutTimeout` sends again, `PutFails` covers the other ways out.  The server stores
the block it expects.  `th_block` has 16 bits, `last_good_block` is an int.

### Gmac, Emac and Mii

`Gmac` has the read and write pointers of the free queue, the default receive queue
and the transmit queue; `Receive` and `Transmit` are the DMA engine, which runs
between any two register accesses of `toe_gmac_deliver` (`Deliver`, `Copy`,
`SetRptr`, `SetWptr`).  The driver's `can_send` reads another register block than
the one of this queue, so `Send` may meet a full queue and stops there for good
(`sl_lepus_gmac.c:1194`).  `Emac` has a ring of owned descriptors for each
direction; `rd_busy` is tested without having been set (`gmac_sl2312.c:671-673`,
`emac_sl2312.c:264`), which is a nondeterministic choice in `Restart`.  In `Mii` each
bit that is clocked is a step; the PHYs see the edges and answer.  `emac_phy.c:305`
leaves MDIO an output while it reads, so that either level may be seen.

### Disk, Ext2, Scsi and Raid

`Disk`: `ScanCtl` is one controller's detection with its partitions; `StartDma`,
`Command`, `Expect`, `Start` and `WaitInterrupt` are a DMA request up to its end
or time-out, `ReadSectors` and `WriteSectors` a PIO one.  The drive may finish,
fail or store at any time and raises its interrupt, which `Interrupt` takes.
`Ext2` reads a file block by block (`LoadBlock`) through the tables of block
numbers, all in one buffer; each read may fail.  `Scsi` decodes the command's
digits, waits for the pieces of a write (`PipeWait`, `PipeLook`), writes them
(`PipeWrite`) and the rest (`PipeRest`).  `Raid` chooses the members at each
start (`Reboot`) from their event counters and carries out a request one disk
write at a time (`DiskWrite`), so that power can fail in between.

### Vctl and Settings

`area` is the sector, `datap` the copy in memory from which lookups and saves
start.  `SetIp`, `SetMac` and `UpdateBootFile` change a setting and begin a save,
of which `Erase`, each `Program` and `SaveDone` are steps; `FlashFails` ends one,
and `VctlBoot` is a restart at any point, with the defaults saved when the area
has no magic.  `Settings` is the store a user expects: one value per type, saves
that happen at once, and a restart that loses values only if the last save did not
end well and never brings an older value back.  `Vctl` implements it with the
lookups in `datap` as the store (`StoreSpec`).  A dialogue that an illegal value
ends leaves the values before it in memory and unsaved.  The module has the NAND
build too (`NAND`); there `datap` is not read back after a save (the function
returns at `sys_vctl.c:291-303`), so that the next save writes the old entries
back, and the run is for the NOR build.

### Console, Boot, Nor and Ecc

`Console` moves characters from the chip's FIFO to the ring and to the keys, of
which an arrow is three characters with a time-out; the keys edit a line, walk the
history or fill an input field.  A space is stored without a test of the length
(`ui_cli_main.c:78`).  `Boot` finds and copies BOOT-2 page by page, then follows
`sl_main`: directory, verification of the kernel, key or menu, loading and start.
The loop that skips bad blocks compares an absolute address with a size
(`boot_main.c:288`, `325`), so that a bad block in the boot area ends in `lost`.
`Nor` has the commands and polls of both drivers against a chip that may still be
busy or have failed.  `Ecc` computes the code of a piece by parity of addresses,
which is what the driver's table holds, and corrects as `_nand_correct_data` does.

## 3. Runs

| Run | Instance | Shows |
|---|---|---|
| `heap` | 15 units, requests of 16 and 40 bytes: up to five blocks, with splits, refused splits, merges and stale prev pointers | `PayloadsDisjoint`, `HeldStable`, `FreeAccepted`, `Coalesced`, `NothingRegained`, `CallsReturn` |
| `heap_tags` | 18 units | **violated**: `TagsIntact` |
| `netbuf` | 4 buffers, bursts of 3, 2 ARP tries: polls nested until the buffers run out | `QueuesSound`, `OneOwner`, `PollDrains` |
| `xmodem` | 5 blocks numbered modulo 3, buffer of 6, 5 faults of all kinds, or one lost answer | `DeliveredWhole` (no block skipped; success only at the end of the file), `AckedIsTaken`, `Terminates`, `SurvivesLostAck` |
| `xmodem_dup` | one lost answer, a sender that waits for its own timer | **violated**: `ImageFaithful` |
| `tftp_get` | blocks of 2 units numbered modulo 4, files of 1 to 9 units, buffers that fit, fill up or are too small; three settings (everything fails but in order; timers race; only losses) | `SuccessIsWhole`, `SocketReleased`, `Terminates`, `SurvivesLoss` |
| `tftp_get_dup` | a server that repeats a block early | **violated**: `RetransmitIgnored` |
| `nand` | 9 blocks of 2 pages of 2 units, two areas with images of 7 and 3 units, blocks that are bad from the start or begin to fail, two upgrades, one power cut, both builds | `ImageKept` (a success is stored, and read back as the image), `OthersKept` (neighbouring areas and bad-block marks), `CallsReturn` |
| `nand_mark` | the build for direct access | **violated**: `AnnouncedIsMarked` |
| `fis` | 4 entries, 6 cells; five settings: entries come and go with a power cut; upgrades inside upgrades with a flash error; a bad cell in the kernel's area; a bad directory sector; directories and whole images loaded | `DirectorySound` (a BOOT entry, nothing hidden, no name twice), `OperationOver` (directory as in flash, file programmed, MAC on again), `Confined`, `CallsReturn` |
| `net` | the six network modules, one per behaviour: 2 peers, 2 sockets and an upload of 2 pieces; rings of 3 and 4; MDIO frames with addresses and data of 2 bits; an ARP cache of 2 with 4 hosts; files of 1, 4 and 5 units in blocks of 2, numbered modulo 3 | `UploadIsFile`, `RxIntact`, `RingsInOrder`, `MiiExact`, `PingHonest`, `ArpSound`, `PutWhole` |
| `board` | the nine modules of `MCBoard`, one per behaviour: 2 controllers, requests of up to 3 sectors; an initrd of 9 blocks with a hole over all three levels; 2 RAID members and 3 writes; commands of base-3 digits; 3 types of settings; a history of 2; a boot area of 3 blocks; 2 flash blocks of 2 words; 2 pieces of 4 bytes of 4 bits with up to 2 errors | `DoneIsMoved`, `RunsLoaded`, `ReadsLast`, `WriteWhole`, `HistoryIsRecent`, `HandedOver`, `OkIsDone`, `PageRestored`, and the refinement `StoreSpec` |

Bounds.  The heap's properties concern at most three neighbouring blocks, and 15
units hold five; the proof covers every size.  Four buffers allow two nested
handlers with a buffer to send and one to receive.  Block numbers wrap within
the transfers (`BlkMod` 3 and 4 for 256 and 65536), the file is longer than the
wrap, and the numbers of faults exceed the numbers of retries that matter,
except where a property says what a bounded number of faults must not do.  Nine
blocks give each area of `nand` a block to spare and one too few, and let an image
end inside a page, at a page and at a block.  Four entries in `fis` are the three
of the default directory and a free one, so that the directory is also full;
three or four operations are what it takes to delete, lose and make an entry
again; a file runs neither past the end of the chip nor an area past it (the menu
does not check, `sys_fis.c:752`; what an access there does depends on the board).
The modules in `net` and `board` share no state, so that checking one at a time is
checking all of them.  Their bounds give every ring a full and an empty state and a
wrap, every counter an overflow (`IdentMod`, `PutMod`, `FrameMod`, `Count8`), two
requests that meet (two peers, two nested lookups, two downloads, an interrupt left
over from the request before), a request of more than one pipe piece with a
remainder, and a save that is cut at each of its steps and followed by another.
`net` has 2.8 million states and `board` 0.8 million.

Fairness.  `CallsReturn` assumes that the allocator's loops run on (weak fairness
of its own steps): they wait for nobody.  The receivers' steps and the time-outs
in them are weakly fair since the program polls and the tick interrupt runs;
the external sender and server are weakly fair too, for they have timers, and
may give up.  The flash procedures wait for nobody and their steps are weakly
fair; in `fis` so are the ends of a transfer (which `xmodem` and `tftp_get` show)
and the answers at a prompt, and a board that is off is switched on.  Losses are never fair: a fault may or may not happen.

The modules in `net` and `board` state safety only: their waits depend on engines,
chips and peers that may never answer, some of them without a time-out.  A board
that stops is part of those models (`CHECK_DEADLOCK FALSE`): a transmit queue that
hangs, a kernel that runs, a file that is loaded, bounds that are used up.

What the violations show is in `PROJECT.json` under findings.  In short: a
split in `sys_malloc` leaves the next block's `prev` pointer stale, from which a
later merge clears the tag of a header that stays on the list; a repeated
XMODEM block in the last iteration of the retry loop is stored again; the UDP
ring joins a short block and its repetition; without
BOARD_SUPPORT_NAND_INDIRECT nand_block_markbad stores a page that has no mark.
Apart from those named with `Nand` and `Fis` above, three more cases are stated in the
properties as exceptions because the code does not do better: an ERROR message
with code 0 is returned as success (`tftp_client.c:206-210`), a file that goes
on where full blocks have filled the buffer is cut off with success
(`tftp_client.c:196`), and after block 65535 a server that answers old ACKs
keeps the client busy for ever (`Terminates`).  XMODEM strips ^Z bytes from
every block, not only from the last (`Xmodem.c:295`), which `ImageFaithful`
would show for an image that has them.

## 4. Proofs

Each theorem holds for every value of the constants that the assumption named in
its module allows; where it needs more, the hypothesis is part of the theorem.
Each rests on an inductive invariant, which was checked with TLC on the runs' instances
first where TLC can evaluate it, on one lemma per action, and on lemmas about the operators the actions use.

### Heap

`HeapProof` proves, for every arena size and every set of request sizes,

* `TypeCorrect`: `Spec => []TypeOK`;
* `NoOverlap`: `Spec => []PayloadsDisjoint`;
* `FreeNeverRefused`: `Spec => []FreeAccepted`;
* `HeldBlocksStable`: `Spec => HeldStable`, an action property.

None of these is inductive.  The invariant `IInv` describes the list by its
links: the block of a header on `chain` ends at or before the header that its
`next` names, and no other header of `chain` lies between the two (`LinkedBy`);
every tag in the arena belongs to a header on `chain`, so that a stale header a
merge may start from cannot lead it to a foreign block; held blocks are on
`chain`, used and tagged, with the size that was asked for.  While a split is in
progress (`Pending`) `blk->next` and `blk->size` are not yet written, and `Link`
and `Size` stand for what they are about to be.  There is a lemma for each
action, and lemmas on how a link changes when a block shrinks, is split or is
merged (`LinkShrink`, `LinkSplit`, `LinkMerge` and those for the other blocks).
The only assumption is `HeapAssumption`, that the arena holds a header.

`AlwaysCoalesced` (`Spec => []Coalesced`).  A split leaves the `prev` of the block behind it as it was
(`sys_malloc.c:112-119`), so that `sys_free` may begin its merge behind a free neighbour, and free
blocks stay apart in the middle of the list.  At the front they do not.  `FrontOK` says that, while no tag is lost, the
`prev` of the second block is right (`PrevRight`), and that if the first block is free the second is in use
(`NextInUse`), except while a merge or a split works on the first (`AtFront`).  With nothing held no block is in
use, so there is no second one.

`SpaceNeverRegained` (`Spec => NothingRegained`).  Space is counted as the units that the
list accounts for, a set of pairs of a header and a number (`Accounted`), so that the library's theorems on finite
sets apply where a sum would be recursive.  `UnitsSame`, `UnitsAdd`, `Shrunk` and `Divided` say how that set's
cardinality changes when nothing of a block does, when a header joins the list, when a block gets smaller, and when one
block becomes two of together the same size; each step of the allocator is one of these.

### Network buffers

`NetBufProof`, for every number of buffers, any depth of nested polls and both
builds (`WEB`): `TypeCorrect`, `QueuesAlwaysSound` (`Spec => []QueuesSound`),
`AlwaysOneOwner` (`Spec => []OneOwner`), `PollAlwaysDrains` (`Spec => []PollDrains`).
`IInv` adds to the first two that no queue names a buffer twice, that the two queues,
the lost buffers and those held by calls are disjoint, and that no two calls hold the
same one: without that, freeing a buffer might link it into a queue a second time and
cut the list.  `Spells` states what the links of one queue say as a predicate of
the pointers alone, so that taking the first buffer (`RemoveSpells`) and adding one at
the end (`InsertSpells`) are proved once; ownership is counted (`Counted`) with the
library's theorems on finite sets.

### XMODEM

`XmodemProof`: `AlwaysDeliveredWhole` and `AckedAlwaysTaken` (`Spec => []DeliveredWhole`,
`[]AckedIsTaken`), for every length of file and buffer, any number of retries, and any number of
lost, garbled and added bytes.  `OneUnderWay` is stop and wait: a block or EOT is the last
thing on the line, and while it is there no answer is under way or due.  `InStep` says that the sender is at the
block taken last or at the next one, and that the receiver expects the block after the one taken last,
modulo `BlkMod`; `NotBegun` is the state before the first block, and `AllThere` that nothing
below the last block stored is missing.  `XmodemAssumption` has `BlkMod > 2`: the receiver
tells the block before, the one expected and the one after apart by their numbers (the code has 256).

### TFTP get

`TftpGetProof`: `SuccessAlwaysWhole` and `SocketAlwaysReleased` (`Spec => []SuccessIsWhole`,
`[]SocketReleased`), for every length of file and buffer, block size, width of `th_block` (at least two
values), any number of downloads and of losses.  `OneUnderWay`: with timers that wait, one datagram of the present
download is under way or in the ring, and only one; so the ring, which does not keep datagrams apart, holds
one (`UpToDate`).  `InStep`: the server is at the block stored last or at the next one,
so a number that has wrapped is never taken for the next (`NextIsNext`) and an ACK never moves the server past
a block not stored.  `Stored`: while a download goes on, what it has stored is full blocks from the start of the file.
Without those timers nothing of this holds (see the run that violates `RetransmitIgnored`), and `SuccessIsWhole`
claims nothing; `SocketReleased` is claimed of every setting.

### Descriptor rings

`NetProof`, for rings of every size: `RingsAlwaysInOrder` (`EmacSpec =>
[]RingsInOrder`) and `RxAlwaysIntact` (`GmacSpec => []RxIntact`).  `Ring` says of one
direction that some k descriptors from the tail on are full, hold consecutive frames,
and that the others belong to the other side; `RingPush` and `RingPop` are the steps of
engine and driver.  The receive ring counts the frame being taken while the descriptor
is still to be released (`FirstRx`).  `EmacAssumption` requires that frame numbers do
not wrap within a ring; the numbers are history only.  For the Lepus `Placed` says that
the buffers on the default queue are the ones the engine took last, in that order, and `Conserved`
that free queue, default queue and the driver have all buffers between them; `LocalsFit` ties the
driver's copies of the pointers to the registers that the engine moves meanwhile.

### PHY registers

`NetProof`: `RegistersAlwaysExact` (`MiiSpec => []MiiExact`), for every length of preamble, width
of addresses and registers, any set of PHYs, pins shared or not, and any number of calls.
`Spells` says bit by bit what `mii_read` and `mii_write` clock; that the two concatenations are such frames is
proved once (`ReadSpells`, `WriteSpells`).  `Clocking` then ties the state to a number n of bits that are
behind: what is left to clock (`Rest`), what the PHYs have made of those bits (`HeardOK`), what has been sampled
(`ReadOK`), and whether the register has been written (`Written`).  `EdgeHeard` is one rising edge, for
any of them.  The PHYs of the other pins have heard nothing (`Silent`), and after the two dummy clocks neither have
those of the pins in use: that is what makes the next call's preamble whole.

### ARP, ping and TFTP put

`NetProof`: `ArpAlwaysSound` and `PingAlwaysHonest` (`PingSpec => []ArpSound`,
`[]PingHonest`), for every cache size, set of hosts, depth of nested requests and width of the
ident field; `PutAlwaysWhole` (`PutSpec => []PutWhole`), for every set of file lengths, block
size, width of `th_block` (at least two values) and number of time-outs.  `Earlier` says that
replies under way are answers to echoes that have been sent, which makes a reply that
matches the one waited for.  For put, `Progress` relates the client's two counters to what the
server has stored, block by block, and `PortsToCome` and `Asking` keep datagrams
of earlier uploads out of the present one.  Block `PutMod` goes out as number 0 and never counts as
acknowledged, so that nothing is claimed of it and no upload succeeds past it.  `PingAssumption` includes that the mark of an empty
slot is no host's address.

### Web uploads

`NetProof`: `UploadAlwaysFile` (`ASSUME OnePoster PROVE WebSpec => []UploadIsFile`), for any
number of sockets and peers, any division of the file into pieces, any segments of the stream in any
order, and any nesting of answers that wait for ARP.  `OnePoster` is that one peer uploads: two would share
`post_buf` (`http.c`), and the property does not hold for them.  `Collected` says that what lies in the buffer is a run of the stream up to the next
piece wanted; `Quiet` that while an upload waits to be programmed no other is under way, unless `again` says
so, and that the buffer then is the file.  `Continued` adds a segment to a run; `CutIs` and `WholeIsFile` take the file
out of a run from the first mark to the last.

### NAND images

`NandProof`: `OthersAlwaysKept` (`Spec => OthersKept`, an action property) and `ImageAlwaysKept` (`Spec =>
[]ImageKept`), for every number and size of blocks and pages, any areas and images in them, and any order of worn blocks, retries and
power cuts.  `NandAssumption` has two pages or more to a block, since the marks go into the first
two.  `Frugal` is what keeps a call in its area: of the blocks it has passed, those neither marked nor worn are
no more than those its data fill; an area with a block to spare (`Spared`) is therefore not left.  Where every area
has one and no block that was given up lacks a mark (`Usual`), `Progress` says where the data are: the number
of unmarked blocks before the one in hand is that of the blocks of data done (`Rank`), and each unit done is in the block a
reader will count to (`Found`).  `Reading` is the same for the reader.  A mark set later does not move what is already
counted, because a block is marked only by the call that is at it.

### Flash image system

`FisProof`: `DirectoryAlwaysSound`, `OperationAlwaysOver` and `AlwaysConfined` (`Spec =>
[]DirectorySound`, `[]OperationOver`, `Confined`), for every size of directory and flash, any set of files
and any number of operations, chip errors and power cuts.  `Nested` is how a web upgrade lies inside a
download: it finds the outer operation waiting and leaves it so.  `Directories` says of RAM and flash alike that no entry that is valid, or that an upgrade
would make valid, lies behind a free one (`Reached`), and that valid names are unique unless an upgrade has made a damaged
entry valid (`Unique`, `revived`).  `Making` keeps the slot that `fis_ui_create_image` has chosen right while the
download goes on, and while the directory is written; `BootKept` needs that, since a create may replace BOOT.  `Writing` and `AreaOK` follow the two loops
over the flash; `MacOK` says where the MAC may be off.

### The store of settings

`BoardProof` proves the refinement: `StoreImplemented == ASSUME ~NAND PROVE VctlSpec => StoreSpec`,
for every set of values.  `VctlInv` says that sector and copy are blank or begin with an entry
count that covers their entries, no type twice (`Sound`); that in the middle of a save the entries
written are a prefix of those being saved (`Saving`); that a restart would find of each type nothing, what
the copy has, or a value that a save has tried (`Agrees`); and that sector and copy are equal between
saves (`Settled`).  `StepImplements` maps each action to one of `Settings` or to a stutter: changes of
the copy to changes of the store, the end of a save to its save, a restart to its restart.  The
hypothesis is the NOR build: in the NAND build `datap` goes stale (see `Vctl`), and the refinement
does not hold.

### Console, boot, NOR flash and RAID

`BoardProof`:

* `HistoryAlwaysRecent` (`ConsoleSpec => []HistoryIsRecent`) for every `MaxHistory`: `HistoryInv`
  adds that a ring not yet full was filled from its start.
* `AlwaysHandedOver` (`BootSpec => []HandedOver`) for every directory and size of the first
  stage.  `BootInv` has one part per phase: without bad blocks the pages copied so far are those of BOOT-2
  (`FirstStage`); the directory has one kernel at most (`Directory`); when nobody has used the menu there is a
  kernel, and from the verification on it is not blank (`KernelKnown`); the loop over the directory has loaded
  every entry it has passed, and the flash is on only during a copy (`Loading`).
* `OkAlwaysDone` (`NorSpec => []OkIsDone`) for both drivers, every number and size of blocks, words and polls.
  `NorInv` follows a call through its stages (`Stages`): the part before the position has been read
  back and stays as it was read (`ReadBackStays`), an erase stands at the start of a sector (`EraseAligned`), the chip
  is idle when a call returns (`DoneIdle`), and what the serial chip, whose driver reads nothing back, is doing is
  what the call asked for (`SerialChip`, `SerialWords`).
* `ReadsAlwaysLast` (`ASSUME Usual PROVE RaidSpec => []ReadsLast`) for members of every size and any
  number of requests and power failures.  `Members`: the disk that is never missing is never behind, both
  disks are in the array only when their event counters are equal, and a member alone has outrun the other before
  its first write is over.  `Copies`: the copies a boot may choose hold a write that counts.  `Working`: what
  is left of the request in progress (`LeftOf`), and that its number counts exactly where it is being written.
  `Usual` is that the members are numbered in the order of their ports and that requests are for whole
  Kbytes; both are what the run assumes.  With the numbers the other way round, `md_import_device` keeps the
  member that is behind; a request of half a Kbyte at the border of a linear array is put on one member
  whole.

* `DoneAlwaysMoved` (`DiskSpec => []DoneIsMoved`) for any number of controllers, sizes of requests and PRD
  entries, and width of the sector count.  `Underway` says for each step of a request what the drive may be
  doing: once `irq_expect` is set an interrupt can only be that of the command in progress, and before the bus master runs
  only that of a failure.  `Ended`: a request that was waited for leaves no drive at work.
* `WritesAlwaysWhole` (`ScsiSpec => []WriteWhole`) for every size of pipe, command and disk, and every number of values
  of a byte: `Understood` is that the address and length read from a command are those the host encoded, `Piping` that what
  has been written is the pieces in order, and that the bulk being written has arrived.
* `LastPairAlwaysLoaded` (`Ext2Spec => []LastPairLoaded`) and `ImagesAlwaysLoaded` (`ASSUME Len(Image) = 2
  PROVE Ext2Spec => []RunsLoaded`) for files of every length, over all three levels of block numbers.  `Reading`: what
  has been read is a prefix of the file, in whole blocks or all of it; the cached group descriptor is the right one; `PairKept` keeps the first image of a pair
  while the second is read.  The hypothesis is the build for one CPU: with BOARD_SUPPORT_TWO_CPU
  `sys_main.c:562-605` loads a second pair and sets `err` anew, so that only the last pair is certain to be there; TLC violates
  `RunsLoaded` with four images.
* `PageAlwaysRestored` (`EccSpec => []PageRestored`) for pieces and bytes of every size, any number of
  pieces, and any layout of the spare area that keeps the three bytes of a piece together.  A lost bit changes one
  of the two parities at each place of its address (`GapOne`), two lost bits change both or none (`GapTwo`), and a
  bit of the code changes itself (`WrongIs`); there are three places or more, so that two bits never look like the pairs of a third (`TwoNoPairs`).
  `Few` bounds what is lost in page and spare area by the number of flips, and `PieceRead` is what
  `_nand_correct_data` then makes of a piece.

The proofs found three errors of earlier versions of the models, all corrected: a time-out
of ARP was possible with no request waiting (`Ping`); the menu could delete the loader's directory entry
(`Boot`; `sys_fis.c:688` refuses that); and `Fis` forgot that an upgrade had revived a damaged entry when only the
directory in RAM was replaced.

### Least counterexamples

There is no induction over data in these proofs: the library's induction theorems cannot be instantiated by the
provers.  Where a fact is needed for every number, it is proved from the least number for which it fails
(`LeastNat`), or the recursive function is shown equal to a closed form (the entries of the PRD table in
`Disk`).

### Only model-checked

* Liveness (`CallsReturn`, `Terminates`, `SurvivesLoss`, `SurvivesLostAck`): this prover has no rules for
  fairness.
* The NAND build of `Vctl`, which does not implement `Settings` (see `Vctl`).

## 5. Plan

Every safety property of the runs is proved, some under the hypothesis the theorem states.  What is left:

1. Liveness stays with TLC; a variant (retries left, bytes left) that decreases with each round would state as a safety
   property what bounds each loop, and could be proved.
2. The components of Section 6 that have no module.

## 6. Not modelled

* Formatting, strings, CRC: pure functions over bytes.  Checksums of IP, UDP, TCP and
  XMODEM are modelled by their outcome.
* AoE (`ide/aoe.c`): a server without state; each frame is answered from the disk.  Read
  while surveying: the answer carries no error after a failed access, and the
  sectors asked for are not compared with the size of the disk.
* PCI, CIR, LPC, SPI, the chips' timing and set-up registers, and the ADM699x switch:
  register writes without a protocol of their own.  (One of the two branches for the
  switch does not compile.)
* `flash_at45db321.c`: a serial chip with the same scheme of busy polls as the one in `Nor`.
* The interrupt, poll and stop functions of the older Ethernet drivers,
  fis_set_ip_addr and fis_ui_over_write_image: nothing calls them.
* The TCP states that need an active open or close: never entered.
* The directory in NAND builds, which is written by flash_nand_program as an image is.
* BOOTP recovery (RECOVER_FROM_BOOTP, two board configurations): one request per pass of a
  loop that ends when an address has come; the downloads after it are `TftpGet`'s.
* The builds with two processors (BOARD_SUPPORT_TWO_CPU): `Ext2` has their four images, but
  the run has two.  With four `RunsLoaded` does not hold, since `sys_main.c:564` sets
  err anew and a failure of the first pair is forgotten.
* More than two bit errors in a NAND page, which the code is not made for.
* The tick counter, 64 bits that are read in two halves while the interrupt may
  increment it: it matters after 2^32 ticks.
* What the commands of the console do beyond the modelled operations; the host tools.
