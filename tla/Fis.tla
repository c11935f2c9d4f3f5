-------------------------------- MODULE Fis ---------------------------------
(***************************************************************************)
(* The flash image system: the directory of images, kept in RAM (fis_datap) *)
(* and in a sector of flash (src/sys/sys_fis.c), and the upgrades that      *)
(* program an image and then bring the directory up to date                 *)
(* (src/ui/ui_upgrade.c), in the builds for parallel flash.                 *)
(*                                                                         *)
(* The directory is erased and programmed in place, so the power may fail   *)
(* while the sector holds nothing, or only a beginning of the directory.    *)
(* Two upgrades can be under way: every prompt of the menu and the TFTP     *)
(* transfer poll the network, and a web upgrade that arrives there runs to  *)
(* its end inside the one that waits.                                       *)
(*                                                                         *)
(* Flash is a row of cells (erase blocks); sizes are in cells.  An image    *)
(* header is part of the first cell of the file that has one.               *)
(***************************************************************************)
EXTENDS Integers, FiniteSets

CONSTANTS
  Entries,      \* FIS_MAX_ENTRY
  FlashSize,    \* BOARD_FLASH_SIZE, in cells
  BootSize,     \* BOARD_FLASH_BOOT_SIZE; the loader begins at cell 0
  KernelAddr, KernelSize,
  FisAddr,      \* BOARD_FLASH_FIS_ADDR; the directory is one cell
  UPGRADE_RETRY_TIME,
  Names,        \* the names of images
  Settings      \* what users do and what may go wrong, see Init

BootAddr == 0
FisSize == 1
Cells == 0 .. FlashSize - 1
Slots == 1 .. Entries

FREE == "ff"             \* name[0] = 0xff
ZERO == "00"             \* name[0] = 0
Files == [len : Nat, hdr : {"none", "good", "bad"}, dir : BOOLEAN]

\* A setting: how often users do something, and what; how often the power and
\* a cell of flash fail, and the cells that always do; the names, the entries
\* to create and the images that are asked for, and the files at hand.
\* fis_ui_create_image refuses an empty name and an address outside of flash.
Setups ==
  [ops : Nat, cuts : Nat, failures : Nat, bad : SUBSET Cells,
   does : SUBSET {"create", "delete", "default", "upgrade", "web"},
   names : SUBSET Names, creates : SUBSET (Names \X (0 .. FlashSize) \X Nat),
   images : SUBSET (Names \cup {"FULL"}), files : SUBSET Files]

ASSUME FisAssumption ==
  /\ {FlashSize, BootSize, KernelSize, UPGRADE_RETRY_TIME} \subseteq Nat \ {0}
  /\ Entries \in Nat /\ Entries >= 3
  /\ {KernelAddr, FisAddr} \subseteq Cells
  /\ BootSize <= KernelAddr /\ KernelAddr + KernelSize <= FisAddr
  /\ {"BOOT", "DIR", "KERNEL"} \subseteq Names /\ Names \cap {FREE, ZERO} = {}
  /\ Settings \subseteq Setups

VARIABLES
  env,      \* the setting chosen in Init, with what is left of it
  fis,      \* fis_datap: the directory in RAM
  rom,      \* the directory's sector of flash
  cells,    \* the other cells of flash
  mac,      \* whether the Ethernet MAC is "on", "off", or was "left" off
  pc,       \* what the program is doing
  job,      \* the operation under way, or the last one
  outer,    \* the operation a web upgrade has interrupted
  k,        \* the cell or the entry it has come to
  synced,   \* history: nothing but a complete fis_write_flash changed rom
  loaded,   \* history: fis was loaded from a directory image the user gave
  revived   \* history: an upgrade made a damaged entry valid; over when the
            \* sector is erased for the directory fis_create_default made

vars == <<env, fis, rom, cells, mac, pc, job, outer, k, synced, loaded, revived>>
flash == <<rom, cells, synced>>
-----------------------------------------------------------------------------
(***************************************************************************)
(* The directory                                                            *)
(***************************************************************************)
NONE == -1               \* 0xffffffff in a number's place
NOWHERE == -2            \* address 0, which is not in flash

\* An entry; sum says whether desc_cksum fits the rest, run whether mem_base
\* and entry_point are set.
Entry(name, base, size, len, run) ==
  [name |-> name, base |-> base, size |-> size, len |-> len, run |-> run,
   sum |-> TRUE]

Free    == [Entry(FREE, NONE, NONE, NONE, TRUE) EXCEPT !.sum = FALSE]
Junk    == [Free EXCEPT !.name = "junk"]
Zero    == Entry(ZERO, NOWHERE, 0, 0, FALSE)
Blank   == [i \in Slots |-> Free]
Rubbish == [i \in Slots |-> Junk]

Valid(e) == e.name \notin {FREE, ZERO} /\ e.sum

\* fis_find_image: the first valid entry of that name before any free one
\* (a set of at most one slot).
Find(t, name) ==
  {i \in Slots : /\ t[i].name = name /\ t[i].sum
                 /\ \A j \in 1 .. i : t[j].name # FREE
                 /\ \A j \in 1 .. i - 1 : ~(t[j].name = name /\ t[j].sum)}

\* fis_get_free_image: the first entry that is free, deleted or damaged.
GetFree_Last(t) ==
  LET free == {i \in Slots : t[i].name \in {FREE, ZERO} \/ ~t[i].sum}
  IN  {i \in free : \A j \in free : j <= i}

GetFree(t) ==
  LET free == {i \in Slots : t[i].name \in {FREE, ZERO} \/ ~t[i].sum}
  IN  {i \in free : \A j \in free : i <= j}

\* What fis_create_default puts into the directory.
Default ==
  [i \in Slots |->
     CASE i = 1 -> Entry("BOOT", BootAddr, BootSize, BootSize, FALSE)
       [] i = 2 -> Entry("DIR", FisAddr, FisSize, FisSize, FALSE)
       [] i = 3 -> Entry("KERNEL", KernelAddr, KernelSize, KernelSize, TRUE)
       [] OTHER -> Free]

\* What is left in flash of an entry whose programming is cut short: bytes are
\* programmed in order and the checksum comes last.
Torn(e) ==
  LET cut == [Free EXCEPT !.name = e.name]
  IN  IF e = Free THEN {Free}
      ELSE {Free, Junk, cut, [cut EXCEPT !.base = e.base], [e EXCEPT !.sum = FALSE]}
-----------------------------------------------------------------------------
(***************************************************************************)
(* Operations                                                               *)
(***************************************************************************)
NoFile == [len |-> 0, hdr |-> "none", dir |-> FALSE]

\* An operation: who asked for it, the destination, erase_size and max_size of
\* the upgrade; the slot, name and size of the entry that is to be made; the
\* file and its number; the tries so far and the last status (0 is good).
Job(by, dest, max) ==
  [by |-> by, dest |-> dest, erase |-> max, max |-> max,
   slot |-> 0, name |-> "", size |-> 0,
   file |-> NoFile, n |-> 0, try |-> 0, stat |-> 1, then |-> "end"]

NoJob == Job("none", 0, 0)

OLD == <<"old", 0, 0>>
BLANK == <<"blank", 0, 0>>
BROKEN == <<"broken", 0, 0>>

\* A board that has been through its first start.
Init ==
  /\ env \in Settings
  /\ rom = Default /\ fis = Default
  /\ cells = [x \in Cells |-> OLD]
  /\ mac = "on" /\ pc = "menu" /\ job = NoJob /\ outer = NoJob /\ k = 0
  /\ synced = TRUE /\ loaded = FALSE /\ revived = FALSE

\* The operation is over: back to the one it interrupted, or to the menu.
Finish(j) ==
  /\ outer' = NoJob /\ k' = 0
  /\ IF outer.by = "none" THEN pc' = "menu" /\ job' = j
                          ELSE pc' = "download" /\ job' = outer

\* The directory becomes t and fis_write_flash is called.
Write(t, j) ==
  /\ fis' = t /\ job' = j
  /\ pc' = "erase" /\ k' = 1

\* One of the user's operations begins.
Begin(kind) ==
  /\ pc = "menu" /\ env.ops > 0 /\ kind \in env.does
  /\ env' = [env EXCEPT !.ops = @ - 1]

\* A cell fails for good, or this once.
MayFail(x) ==
  /\ x \in env.bad \/ env.failures > 0
  /\ env' = IF x \in env.bad THEN env ELSE [env EXCEPT !.failures = @ - 1]
-----------------------------------------------------------------------------
(***************************************************************************)
(* fis_write_flash: flash_erase and flash_program of the directory's sector *)
(***************************************************************************)
\* Programming only clears bits: a place that was not erased is spoilt.
Put(old, new, spoilt, blank) == IF old \in {blank, new} THEN new ELSE spoilt

WriteErase ==
  /\ pc = "erase" /\ FisAddr \notin env.bad
  /\ rom' = Blank
  /\ pc' = "write"
  /\ synced' = FALSE /\ revived' = (revived /\ ~(job = NoJob /\ fis = Default))
  /\ UNCHANGED <<env, fis, cells, mac, job, outer, k, loaded>>

WriteEntry ==
  /\ pc = "write" /\ k <= Entries
  /\ rom' = [rom EXCEPT ![k] = Put(@, fis[k], Junk, Free)]
  /\ k' = k + 1
  /\ UNCHANGED <<env, fis, cells, mac, pc, job, outer, synced, loaded, revived>>

WriteDone ==
  /\ pc = "write" /\ k > Entries
  /\ synced' = TRUE
  /\ IF job.then = "tail" THEN pc' = "tail" /\ k' = 0 /\ UNCHANGED <<job, outer>>
                          ELSE Finish(job)
  /\ UNCHANGED <<env, fis, rom, cells, mac, loaded, revived>>

\* The chip reports an error; it is printed and otherwise ignored.
WriteFails ==
  /\ pc \in {"erase", "write"}
  /\ MayFail(FisAddr)
  /\ synced' = FALSE
  /\ \/ UNCHANGED rom
     \/ pc = "erase" /\ rom' = Rubbish
     \/ pc = "write" /\ k <= Entries /\ rom' = [rom EXCEPT ![k] = Junk]
  /\ IF job.then = "tail" THEN pc' = "tail" /\ k' = 0 /\ UNCHANGED <<job, outer>>
                          ELSE Finish(job)
  /\ UNCHANGED <<fis, cells, mac, loaded, revived>>
-----------------------------------------------------------------------------
(***************************************************************************)
(* sys_fis_init, and the items of the menu that only change the directory   *)
(***************************************************************************)
\* The directory is read; without a BOOT entry the default one is made.
Boot ==
  /\ pc = "off"
  /\ IF Find(rom, "BOOT") = {}
     THEN Write(Default, NoJob) /\ UNCHANGED synced
     ELSE fis' = rom /\ synced' = TRUE /\ pc' = "menu" /\ k' = 0 /\ job' = NoJob
  /\ mac' = "on" /\ loaded' = FALSE
  /\ UNCHANGED <<env, rom, cells, outer, revived>>

\* ui_reset
Reset ==
  /\ pc = "menu"
  /\ pc' = "off"
  /\ UNCHANGED <<env, fis, flash, mac, job, outer, k, loaded, revived>>

Delete_RamOnly(name) ==
  /\ Begin("delete")
  /\ name \notin {"BOOT", "DIR"}
  /\ \E i \in Find(fis, name) : fis' = [fis EXCEPT ![i] = Zero]
  /\ UNCHANGED <<flash, mac, pc, job, outer, k, loaded, revived>>

Delete_Any(name) ==
  /\ Begin("delete")
  /\ \E i \in Find(fis, name) : Write([fis EXCEPT ![i] = Zero], NoJob)
  /\ UNCHANGED <<flash, mac, outer, loaded, revived>>

\* fis_ui_delete_image; it refuses a name it does not find, BOOT and DIR.
Delete(name) ==
  /\ Begin("delete")
  /\ name \notin {"BOOT", "DIR"}
  /\ \E i \in Find(fis, name) : Write([fis EXCEPT ![i] = Zero], NoJob)
  /\ UNCHANGED <<flash, mac, outer, loaded, revived>>

\* fis_ui_create_default
CreateDefault ==
  /\ Begin("default")
  /\ Write(Default, NoJob)
  /\ loaded' = FALSE
  /\ UNCHANGED <<flash, mac, outer, revived>>

Create_Free(name, base, size) ==
  /\ Begin("create")
  /\ \E i \in GetFree(fis) :
       job' = [Job("create", base, 0) EXCEPT !.slot = i, !.name = name, !.size = size]
  /\ pc' = "download"
  /\ UNCHANGED <<fis, flash, mac, outer, k, loaded, revived>>

\* fis_ui_create_image: the entry of that name is made anew, or a free one is
\* taken; then ui_download(base, 0, 0).
Create(name, base, size) ==
  /\ Begin("create")
  /\ \E i \in IF Find(fis, name) # {} THEN Find(fis, name) ELSE GetFree(fis) :
       job' = [Job("create", base, 0) EXCEPT !.slot = i, !.name = name, !.size = size]
  /\ pc' = "download"
  /\ UNCHANGED <<fis, flash, mac, outer, k, loaded, revived>>

\* The destination and the size that ui_upgrade and web_upgrade find for an
\* image; none if an image that is not there is asked for.
Target(what) ==
  CASE what = "BOOT" -> {<<BootAddr, BootSize>>}
    [] what = "FULL" -> {<<BootAddr, FlashSize>>}
    [] OTHER -> {<<fis[i].base, fis[i].size>> : i \in Find(fis, what)}

\* ui_upgrade
Upgrade(what) ==
  /\ Begin("upgrade")
  /\ \E t \in Target(what) : job' = Job("ui", t[1], t[2])
  /\ pc' = "download"
  /\ UNCHANGED <<fis, flash, mac, outer, k, loaded, revived>>
-----------------------------------------------------------------------------
(***************************************************************************)
(* ui_download and web_program                                              *)
(***************************************************************************)
\* A file that is larger than the area is refused; a size of 0 is no limit.
Fits_Unchecked(f, max) == TRUE
Fits(f, max) == max = 0 \/ f.len <= max

\* verify_image_file, which is only asked about the boot loader.  Without a
\* header the user may go on, so that only a wrong checksum is refused here.
Verified(f, dest) == dest # BootAddr \/ f.hdr # "bad"

Accept(j, f) ==
  /\ j.dest + f.len <= FlashSize
  /\ Fits(f, j.max) /\ Verified(f, j.dest)
  /\ job' = [j EXCEPT !.file = f, !.n = env.ops, !.erase = IF @ = 0 THEN f.len ELSE @]
  /\ pc' = "eraseArea" /\ k' = 0
  /\ mac' = "off"

\* The user picks a method and the file arrives.
Download(f) ==
  /\ pc = "download"
  /\ Accept(job, f)
  /\ UNCHANGED <<env, fis, flash, outer, loaded, revived>>

GiveUp_MacOff ==
  /\ pc = "download"
  /\ mac' \in {mac, "off"}
  /\ Finish([job EXCEPT !.stat = 1])
  /\ UNCHANGED <<env, fis, flash, loaded, revived>>

\* The user quits, no memory, the transfer fails, or the file is refused; the
\* ways out after ui_disable_mac switch the MAC on again.
GiveUp ==
  /\ pc = "download"
  /\ mac' \in {mac, "on"}
  /\ Finish([job EXCEPT !.stat = 1])
  /\ UNCHANGED <<env, fis, flash, loaded, revived>>

\* web_upgrade, called while the network is polled.
WebArrives ==
  /\ pc \in {"menu", "download"} /\ mac = "on" /\ outer = NoJob
  /\ env.ops > 0 /\ "web" \in env.does
  /\ env' = [env EXCEPT !.ops = @ - 1]

Web(what, f) ==
  /\ WebArrives
  /\ \E t \in Target(what) : Accept(Job("web", t[1], t[2]), f)
  /\ outer' = IF pc = "download" THEN job ELSE NoJob
  /\ UNCHANGED <<fis, flash, loaded, revived>>

\* web_program refuses a file that is too large without ui_enable_mac, and
\* frees a pointer that was not allocated: sys_free finds no tag there and
\* returns, or the access fails and the board has to be reset.
WebRefuses(what, f) ==
  /\ WebArrives
  /\ \E t \in Target(what) : ~Fits(f, t[2]) /\ Verified(f, t[1])
  /\ mac' = "left"
  /\ \/ UNCHANGED <<pc, job>>
     \/ pc' = "off" /\ job' = NoJob
  /\ UNCHANGED <<fis, flash, outer, k, loaded, revived>>

\* What becomes of a cell and of the directory's sector when the cell x is
\* erased, programmed with the file's i-th part, or spoilt.
Cell(x, content, dir) ==
  IF x = FisAddr THEN rom' = dir /\ synced' = FALSE /\ UNCHANGED cells
                 ELSE cells' = [cells EXCEPT ![x] = content] /\ UNCHANGED <<rom, synced>>

\* The i-th part of what is programmed: without its header where ui_download
\* has skipped it; web_program programs the file with the header.
Data(i) ==
  IF job.by # "web" /\ job.dest = BootAddr /\ job.file.hdr = "good"
  THEN <<"body", job.n, i>> ELSE <<"file", job.n, i>>

EraseCell ==
  /\ pc = "eraseArea" /\ k < job.erase
  /\ job.dest + k \notin env.bad
  /\ Cell(job.dest + k, BLANK, Blank)
  /\ k' = k + 1
  /\ UNCHANGED <<env, fis, mac, pc, job, outer, loaded, revived>>

EraseDone ==
  /\ pc = "eraseArea" /\ k = job.erase
  /\ pc' = "programArea" /\ k' = 0
  /\ UNCHANGED <<env, fis, flash, mac, job, outer, loaded, revived>>

ProgramCell ==
  /\ pc = "programArea" /\ k < job.file.len
  /\ LET x == job.dest + k
     IN  /\ x \notin env.bad
         /\ Cell(x, Put(cells[x], Data(k), BROKEN, BLANK),
                 IF job.file.dir /\ rom = Blank THEN Default ELSE Rubbish)
  /\ k' = k + 1
  /\ UNCHANGED <<env, fis, mac, pc, job, outer, loaded, revived>>

ProgramDone ==
  /\ pc = "programArea" /\ k = job.file.len
  /\ job' = [job EXCEPT !.stat = 0]
  /\ pc' = "update" /\ k' = 0
  /\ UNCHANGED <<env, fis, flash, mac, outer, loaded, revived>>

\* The chip reports an error: the loop begins again, or is given up.
Again_Forever(j) == pc' = "eraseArea" /\ job' = j
Again_Program(j) ==
  IF j.try + 1 < UPGRADE_RETRY_TIME
  THEN pc' = "programArea" /\ job' = [j EXCEPT !.try = @ + 1]
  ELSE pc' = "update" /\ job' = j

Again(j) ==
  IF j.try + 1 < UPGRADE_RETRY_TIME
  THEN pc' = "eraseArea" /\ job' = [j EXCEPT !.try = @ + 1]
  ELSE pc' = "update" /\ job' = j

AreaFails ==
  /\ \/ pc = "eraseArea" /\ k < job.erase
     \/ pc = "programArea" /\ k < job.file.len
  /\ MayFail(job.dest + k)
  /\ \/ UNCHANGED flash
     \/ Cell(job.dest + k, BROKEN, Rubbish)
  /\ Again(job) /\ k' = 0
  /\ UNCHANGED <<fis, mac, outer, loaded, revived>>

\* The entries of the destination get the new lengths and a new checksum,
\* whether or not the programming succeeded; web_program has size and
\* data_length the other way round.
Updated(e) ==
  [e EXCEPT !.len  = IF job.by = "web" THEN job.max ELSE job.file.len,
            !.size = IF job.by = "web" THEN job.file.len ELSE job.max,
            !.sum  = TRUE]

\* got_size = BOARD_FLASH_SIZE: an image of the whole flash, the directory too.
Whole == job.file.len = FlashSize /\ job.file.hdr # "good"

Update ==
  /\ pc = "update"
  /\ IF job.file.len > 0 /\ ~Whole /\ (job.by = "web" \/ job.dest # FisAddr)
     THEN LET hit == {i \in Slots : fis[i].base = job.dest}
          IN  /\ Write([i \in Slots |-> IF i \in hit THEN Updated(fis[i]) ELSE fis[i]],
                       [job EXCEPT !.then = "tail"])
              /\ revived' = (revived \/ \E i \in hit : ~fis[i].sum)
     ELSE pc' = "tail" /\ k' = 0 /\ UNCHANGED <<fis, job, revived>>
  /\ UNCHANGED <<env, flash, mac, outer, loaded>>

\* The MAC is switched on; after a successful download fis_ui_create_image
\* makes the entry, or reads the directory the user has loaded.
Tail ==
  /\ pc = "tail"
  /\ mac' = "on"
  /\ IF job.by # "create" \/ job.stat # 0 \/ job.file.len = 0
     THEN Finish([job EXCEPT !.then = "end"]) /\ UNCHANGED <<fis, synced, loaded>>
     ELSE IF job.name = "DIR" /\ job.file.len <= FisSize
     THEN /\ fis' = rom /\ synced' = TRUE /\ loaded' = TRUE
          /\ Finish([job EXCEPT !.then = "end"])
     ELSE /\ Write([fis EXCEPT ![job.slot] =
                     Entry(job.name, job.dest, job.size, job.size, TRUE)],
                   [job EXCEPT !.then = "end"])
          /\ UNCHANGED <<outer, synced, loaded>>
  /\ UNCHANGED <<env, rom, cells, revived>>
-----------------------------------------------------------------------------
(***************************************************************************)
(* Power failures                                                           *)
(***************************************************************************)
\* The power fails; what was being erased or programmed is left half done.
PowerOff ==
  /\ pc # "off" /\ env.cuts > 0
  /\ env' = [env EXCEPT !.cuts = @ - 1]
  /\ pc' = "off" /\ job' = NoJob /\ outer' = NoJob /\ k' = 0
  /\ \/ UNCHANGED flash
     \/ /\ pc = "erase" /\ rom' = Rubbish
        /\ synced' = FALSE /\ UNCHANGED cells
     \/ /\ pc = "write" /\ k <= Entries
        /\ \E e \in Torn(fis[k]) : rom' = [rom EXCEPT ![k] = e]
        /\ UNCHANGED <<cells, synced>>
     \/ /\ \/ pc = "eraseArea" /\ k < job.erase
           \/ pc = "programArea" /\ k < job.file.len
        /\ Cell(job.dest + k, BROKEN, Rubbish)
  /\ UNCHANGED <<fis, mac, loaded, revived>>

Work ==
  \/ Boot
  \/ WriteErase \/ WriteEntry \/ WriteDone \/ WriteFails
  \/ EraseCell \/ EraseDone \/ ProgramCell \/ ProgramDone \/ AreaFails
  \/ Update \/ Tail

User ==
  \/ \E f \in env.files : Download(f)
  \/ GiveUp

Next ==
  \/ Work
  \/ User
  \/ Reset \/ PowerOff \/ CreateDefault
  \/ \E name \in env.names : Delete(name)
  \/ \E c \in env.creates : Create(c[1], c[2], c[3])
  \/ \E what \in env.images : Upgrade(what)
  \/ \E what \in env.images, f \in env.files : Web(what, f) \/ WebRefuses(what, f)

Spec == Init /\ [][Next]_vars

\* The program goes on until its call returns; a transfer ends and a prompt is
\* answered sooner or later; a board that is off is switched on again.
FairSpec == Spec /\ WF_vars(Work) /\ WF_vars(User)
-----------------------------------------------------------------------------
(***************************************************************************)
(* Properties                                                               *)
(***************************************************************************)
EntryType ==
  [name : Names \cup {FREE, ZERO, "junk"}, base : 0 .. FlashSize \cup {NONE, NOWHERE}, size : Int,
   len : Int, run : BOOLEAN, sum : BOOLEAN]

JobType ==
  [by : {"none", "ui", "web", "create"}, dest : 0 .. FlashSize, erase : Nat,
   max : Nat, slot : 0 .. Entries, name : Names \cup {""},
   size : Nat, file : Files, n : Nat,
   try : 0 .. UPGRADE_RETRY_TIME - 1, stat : {0, 1}, then : {"tail", "end"}]

\* Entries, operations and flash have their types; an upgrade only works with
\* addresses and sizes that are those of an area of flash, never with the
\* 0xffffffff or the 0 of a damaged or deleted entry (ui_upgrade, web_upgrade).
TypeOK ==
  /\ fis \in [Slots -> EntryType] /\ rom \in [Slots -> EntryType]
  /\ DOMAIN cells = Cells
  /\ mac \in {"on", "off", "left"}
  /\ pc \in {"off", "menu", "download", "eraseArea", "programArea", "update",
            "tail", "erase", "write"}
  /\ job \in JobType /\ outer \in JobType
  /\ k \in Nat
  /\ {synced, loaded, revived} \subseteq BOOLEAN

\* At the menu there is a BOOT entry to be found, whatever was deleted, made or
\* cut short (sys_fis_init, fis_ui_delete_image), unless the user has loaded a
\* directory, which fis_ui_create_image takes over as it is.
BootFound == pc = "menu" /\ ~loaded => Find(fis, "BOOT") # {}

\* fis_find_image stops at the first free entry: no valid one lies behind it,
\* in RAM or in flash, not even when the directory was written in part.
NothingHidden ==
  \A t \in {fis, rom} :
     \A i \in Slots : Valid(t[i]) => \A j \in 1 .. i : t[j].name # FREE

\* No two valid entries have the same name, or fis_find_image would never find
\* the second (fis_ui_create_image looks for the name first), unless an upgrade
\* of its destination gave a damaged entry a new checksum (ui_upgrade.c:639).
NamesUnique ==
  revived \/ \A i, j \in Slots :
                Valid(fis[i]) /\ Valid(fis[j]) /\ fis[i].name = fis[j].name => i = j

\* The directory can be searched: BOOT is found, no entry is hidden behind a
\* free one or behind another of its name (fis_find_image).
DirectorySound == BootFound /\ NothingHidden /\ NamesUnique

\* Every operation that changes the directory has written it when it is over:
\* at the menu RAM and flash agree, unless the chip reported an error or the
\* user has programmed the sector (fis_write_flash and its callers).
InSync == pc = "menu" /\ synced => rom = fis

\* After an upgrade that was reported successful, the flash holds the file from
\* its first cell to its last, whatever failed before (the loop of ui_download
\* and web_program), and the loader without the file's header; except that
\* web_program programs the header of a loader too (ui_upgrade.c:931).
Programmed ==
  pc = "menu" /\ job.by # "none" /\ job.stat = 0 =>
    \A i \in 0 .. job.file.len - 1 :
      LET kind == IF job.dest = BootAddr /\ job.file.hdr = "good" THEN "body" ELSE "file"
      IN  \/ job.dest + i = FisAddr
          \/ cells[job.dest + i] = <<kind, job.n, i>>
          \/ job.by = "web" /\ kind = "body"

\* The MAC is on when an operation is over, on every way out of ui_download and
\* web_program but one: the file that web_program finds too large.
MacBack == pc = "menu" => mac # "off"

\* What an operation leaves behind at the menu: RAM and flash agree, the file
\* is in flash if success was reported, and the MAC is on.
OperationOver == InSync /\ Programmed /\ MacBack

\* Erasing and programming stay in the area that had been looked up when the
\* operation began, even if a web upgrade has changed the entry since; only
\* where the size was 0 is there no limit (ui_download, web_program).
Confined ==
  [][\A x \in Cells : cells'[x] # cells[x] =>
        job.max = 0 \/ x \in job.dest .. job.dest + job.max - 1]_vars

\* Every operation comes back to the menu, however often the chip fails and
\* wherever the power is cut (UPGRADE_RETRY_TIME, sys_fis_init).
CallsReturn == pc # "menu" ~> pc = "menu"
=============================================================================
