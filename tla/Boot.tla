-------------------------------- MODULE Boot --------------------------------
(***************************************************************************)
(* From reset to the kernel: the first-stage loader (src/boot/boot_main.c), *)
(* sl_main of the second stage with the checks and the loading of images    *)
(* (src/sys/sys_main.c, src/sys/sys_fis.c), the menu (src/ui/ui_menu.c) and *)
(* the switches of src/hal/hal_sl2312.c that they turn.                    *)
(*                                                                         *)
(* Flash is counted in pages.  The loader image, BOOT-1 and BOOT-2 in one   *)
(* file, was written block by block from the start of the boot area, past   *)
(* bad blocks.  The second stage runs if all of BOOT-2 is in memory; else   *)
(* anything may happen.  The directory is that of Fis: an entry is free,    *)
(* the loader or the directory itself, the kernel (whose flash may be       *)
(* blank), an image that is only kept, or one with an entry point.  Other   *)
(* entries' memory does not overlap.                                       *)
(***************************************************************************)
EXTENDS Integers, Sequences, FiniteSets

CONSTANTS
  FlashBase,     \* BOARD_FLASH_BASE_ADDR, in pages
  BootPages,     \* BOARD_FLASH_BOOT_SIZE
  BlockPages,    \* pages in an erase block
  Boot1Pages,    \* BOARD_FLASH_BOOT1_SIZE
  Boot2Pages,    \* BOARD_FLASH_BOOT2_SIZE
  DirSize        \* FIS_MAX_ENTRY

ASSUME BootAssumption ==
  /\ {FlashBase, BootPages, BlockPages, Boot1Pages, Boot2Pages, DirSize}
       \subseteq Nat \ {0}
  /\ BootPages % BlockPages = 0
  /\ Boot1Pages + Boot2Pages <= BootPages

BootBlocks == 0 .. BootPages \div BlockPages - 1
Kind   == {"free", "loader", "kernel", "blank", "kept", "app"}

VARIABLES
  at,       \* where the processor is
  nand,     \* the flash is NAND; else NOR or serial
  bad,      \* bad blocks of the boot area
  src,      \* sl_main of the first stage: srce, from the start of flash
  left,     \* size
  boot2,    \* the pages copied to BOARD_DRAM_BOOT2_ADDR
  dir,      \* the directory: the kind of each entry
  inMem,    \* the entries whose image is in its place in memory
  next,     \* fis_load_images: the entry it has come to
  entry,    \* apps_routine: the entry it belongs to, 0 for NULL
  flashOn,  \* hal_flash_enable
  irqOn,    \* interrupts enabled and the timer unmasked
  cacheOn,  \* I-cache enabled
  webOn,    \* web_on
  rs485,    \* astel_serial_RS485: no console, no wait for a key
  auto      \* history: nobody has used the menu

chipVars  == <<nand, bad>>
stageVars == <<src, left, boot2>>
loadVars  == <<inMem, next, entry>>
sysVars   == <<flashOn, irqOn, cacheOn>>
bootVars  == <<at, chipVars, stageVars, dir, loadVars, sysVars, webOn, rs485, auto>>

BootInit ==
  /\ at = "boot1" /\ nand \in BOOLEAN
  /\ bad \in IF nand THEN SUBSET BootBlocks ELSE {{}}
  /\ src = 0 /\ left = Boot1Pages /\ boot2 = <<>>
  /\ dir \in [1 .. DirSize -> Kind]
  /\ Cardinality({i \in 1 .. DirSize : dir[i] \in {"kernel", "blank"}}) <= 1
  /\ Cardinality({i \in 1 .. DirSize : dir[i] = "loader"}) <= 1
  /\ inMem = {} /\ next = 1 /\ entry = 0
  /\ flashOn = FALSE /\ irqOn = FALSE /\ cacheOn = FALSE /\ webOn = FALSE
  /\ rs485 \in BOOLEAN /\ auto = TRUE

-----------------------------------------------------------------------------
(* The first stage. *)

\* What the loader's upgrade has put in page p: that page of the file, but
\* nothing of it in a bad block.
InFile(p) ==
  LET b == p \div BlockPages
  IN  IF b \in bad THEN -1
      ELSE p - BlockPages * Cardinality({c \in bad : c < b})

\* At a block's start bad blocks are passed over, as long as the address,
\* which counts from FlashBase, is below the size of the boot area.
GoodFrom(p) ==
  IF p % BlockPages # 0 \/ FlashBase + p >= BootPages THEN p
  ELSE LET S == {q \in p .. BootPages : q % BlockPages = 0 /\ q \div BlockPages \notin bad}
       IN  CHOOSE q \in S : \A r \in S : q <= r

\* Past BOOT-1, a block or the rest of it at a time.
Advance(n) == IF n > BlockPages THEN BlockPages ELSE n

FindBoot2 ==
  /\ at = "boot1" /\ nand
  /\ IF left > 0
     THEN /\ src' = GoodFrom(src) + Advance(left)
          /\ left' = left - Advance(left)
          /\ UNCHANGED at
     ELSE at' = "boot2" /\ left' = Boot2Pages /\ UNCHANGED src
  /\ UNCHANGED <<chipVars, boot2, dir, loadVars, sysVars, webOn, rs485, auto>>

CopyPage ==
  /\ at = "boot2" /\ left > 0
  /\ boot2' = Append(boot2, InFile(GoodFrom(src)))
  /\ src' = GoodFrom(src) + 1 /\ left' = left - 1
  /\ UNCHANGED <<at, chipVars, dir, loadVars, sysVars, webOn, rs485, auto>>

\* NOR and serial flash: from BOARD_FLASH_BOOT2_ADDR in one piece.
CopyNor ==
  /\ at = "boot1" /\ ~nand
  /\ boot2' = [i \in 1 .. Boot2Pages |-> InFile(Boot1Pages + i - 1)]
  /\ at' = "boot2" /\ left' = 0
  /\ UNCHANGED <<src, chipVars, dir, loadVars, sysVars, webOn, rs485, auto>>

Boot2Image == [i \in 1 .. Boot2Pages |-> Boot1Pages + i - 1]

\* The jump to the second stage; hal_hardware_init and hal_flash_disable.
Jump ==
  /\ at = "boot2" /\ left = 0
  /\ at' = IF boot2 = Boot2Image THEN "fis" ELSE "lost"
  /\ irqOn' = TRUE /\ cacheOn' = TRUE /\ flashOn' = FALSE
  /\ UNCHANGED <<chipVars, stageVars, dir, loadVars, webOn, rs485, auto>>

-----------------------------------------------------------------------------
(* sl_main of the second stage. *)

second == <<chipVars, stageVars, loadVars>>

KernelAt == {i \in 1 .. DirSize : dir[i] \in {"kernel", "blank"}}

\* sys_fis_init: without the loader's entry a directory is made anew (which
\* has a kernel entry or not); without a kernel entry the menu comes next.
FisInit ==
  /\ at = "fis"
  /\ IF \E i \in 1 .. DirSize : dir[i] = "loader"
     THEN at' = (IF KernelAt = {} THEN "menu" ELSE "web") /\ UNCHANGED dir
     ELSE /\ at' = "menu"
          /\ dir' = [i \in 1 .. DirSize |-> IF i = 1 THEN "loader" ELSE "free"]
  /\ auto' = (at' # "menu")
  /\ UNCHANGED <<second, sysVars, webOn, rs485>>

\* The button held down for BOARD_WEB_TIMEOUT turns the web server on
\* (hal_irq_handler counts); the menu then comes first.  IDE, RAID, USB and
\* PCI follow, which leave this state alone.
WebWait ==
  /\ at = "web"
  /\ \/ webOn' = TRUE /\ at' = "menu" /\ auto' = FALSE
     \/ webOn' = FALSE /\ at' = "verify" /\ UNCHANGED auto
  /\ UNCHANGED <<second, dir, sysVars, rs485>>

\* sys_verify_kernel_in_flash: the first word of the kernel.
BlankKernel(i) == dir[i] = "blank"

\* A mutant of VerifyKernel: the kernel is not looked at.
VerifyKernel_Any ==
  /\ at = "verify" /\ at' = "key" /\ flashOn' = FALSE
  /\ UNCHANGED <<second, dir, irqOn, cacheOn, webOn, rs485, auto>>

VerifyKernel ==
  /\ at = "verify"
  /\ \E i \in KernelAt :
       IF BlankKernel(i) THEN at' = "menu" /\ auto' = FALSE
       ELSE at' = "key" /\ UNCHANGED auto
  /\ flashOn' = FALSE
  /\ UNCHANGED <<second, dir, irqOn, cacheOn, webOn, rs485>>

\* Three seconds for ^C.
WaitKey ==
  /\ at = "key"
  /\ \/ ~rs485 /\ at' = "menu" /\ auto' = FALSE
     \/ at' = "load" /\ UNCHANGED auto
  /\ UNCHANGED <<second, dir, sysVars, webOn, rs485>>

\* The menu never ends: reboot, start the kernel, or change the directory
\* (Fis) and come back.
Menu ==
  /\ at = "menu"
  /\ \/ at' = "reset" /\ UNCHANGED dir
     \/ at' = "load" /\ UNCHANGED dir
     \/ /\ at' = "menu"
        /\ \E i \in 1 .. DirSize, k \in Kind \ {"loader"} :
             /\ dir[i] # "loader"
             /\ k \in {"kernel", "blank"} => KernelAt \subseteq {i}
             /\ dir' = [dir EXCEPT ![i] = k]
  /\ UNCHANGED <<second, sysVars, webOn, rs485, auto>>

-----------------------------------------------------------------------------
(* fis_load_images and sys_run_apps. *)

\* Entries with an address in flash, one in memory and an entry point.
Loadable(k) == k \in {"kernel", "blank", "app"}

LoadStart ==
  /\ at = "load" /\ at' = "loading"
  /\ inMem' = {} /\ next' = 1 /\ entry' = 0
  /\ irqOn' = FALSE /\ cacheOn' = TRUE
  /\ UNCHANGED <<chipVars, stageVars, dir, flashOn, webOn, rs485, auto>>

\* hal_flash_enable before and hal_flash_disable after each copy.
FlashEnable  == flashOn' = TRUE
FlashDisable == flashOn' = FALSE

\* One entry; apps_routine is the first with an entry point, whatever its
\* name.
LoadImage ==
  /\ at = "loading" /\ next <= DirSize
  /\ \/ /\ Loadable(dir[next]) /\ ~flashOn /\ FlashEnable
        /\ UNCHANGED loadVars
     \/ /\ Loadable(dir[next]) /\ flashOn /\ FlashDisable
        /\ inMem' = inMem \cup {next}
        /\ entry' = IF entry = 0 THEN next ELSE entry
        /\ next' = next + 1
     \/ /\ ~Loadable(dir[next]) /\ next' = next + 1
        /\ UNCHANGED <<inMem, entry, flashOn>>
  /\ UNCHANGED <<at, chipVars, stageVars, dir, irqOn, cacheOn, webOn, rs485, auto>>

\* All interrupts masked, caches off, and the jump; with no entry point back
\* to where it was called: sl_main resets, the menu goes on.
RunApps ==
  /\ at = "loading" /\ next > DirSize
  /\ IF entry # 0
     THEN at' = "run" /\ irqOn' = FALSE /\ cacheOn' = FALSE
     ELSE /\ at' = (IF auto THEN "reset" ELSE "menu")
          /\ irqOn' = TRUE /\ cacheOn' = TRUE
  /\ UNCHANGED <<chipVars, stageVars, dir, loadVars, flashOn, webOn, rs485, auto>>

\* hal_reset: the directory is what the menu has left in flash.
HalReset ==
  /\ at = "reset"
  /\ at' = "boot1" /\ src' = 0 /\ left' = Boot1Pages /\ boot2' = <<>>
  /\ inMem' = {} /\ next' = 1 /\ entry' = 0
  /\ flashOn' = FALSE /\ irqOn' = FALSE /\ cacheOn' = FALSE
  /\ webOn' = FALSE /\ auto' = TRUE
  /\ UNCHANGED <<chipVars, dir, rs485>>

BootNext ==
  \/ FindBoot2 \/ CopyPage \/ CopyNor \/ Jump
  \/ FisInit \/ WebWait \/ VerifyKernel \/ WaitKey \/ Menu
  \/ LoadStart \/ LoadImage \/ RunApps \/ HalReset

BootSpec == BootInit /\ [][BootNext]_bootVars

-----------------------------------------------------------------------------
\* With no bad block in the boot area, or on a flash that has none, the first
\* stage (boot_main.c) never gets lost; and an image that is started finds the
\* flash off, interrupts masked and the caches off (fis_load_images,
\* sys_run_apps), is in memory with every other image that has an entry point,
\* and, when nobody has used the menu, comes from a directory whose kernel is
\* not blank.
HandedOver ==
  /\ at = "lost" => nand /\ bad # {}
  /\ at = "run" =>
       /\ ~flashOn /\ ~irqOn /\ ~cacheOn
       /\ entry \in inMem
       /\ inMem = {i \in 1 .. DirSize : dir[i] \in {"kernel", "blank", "app"}}
       /\ auto => KernelAt # {} /\ \A i \in KernelAt : dir[i] = "kernel"
=============================================================================
