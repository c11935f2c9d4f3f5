-------------------------------- MODULE Vctl --------------------------------
(***************************************************************************)
(* The vendor control data (src/sys/sys_vctl.c), the configuration kept in  *)
(* them (src/sys/sys_cfg.c), and the menu that changes it (src/ui/          *)
(* ui_menu.c).                                                             *)
(*                                                                         *)
(* The area is a header with a count, then the entries.  vctl_datap is a    *)
(* copy of it in memory, from which every lookup and every save starts.  A  *)
(* save erases the whole area and programs it again, entry by entry; power  *)
(* may fail and the flash may refuse at any point of it.  The area is far   *)
(* larger than all entries together.                                       *)
(***************************************************************************)
EXTENDS Integers, Sequences

CONSTANTS
  NAND,        \* BOARD_NAND_BOOT
  Setting      \* values an entry can have besides the default

ASSUME VctlAssumption == NAND \in BOOLEAN /\ Setting \subseteq Nat \ {0}

VctlType == {"VLAN", "IP", "BOOT_FILE"}
NoEntry  == -1
Stored   == Setting \cup {0}                 \* 0: the default of the board

VARIABLES
  area,     \* the VCTL area of the flash: entry_num and the entries there
  datap,    \* vctl_datap
  cfg,      \* my_mac_addr, my_ip_addr, my_kernel_name and so on
  save,     \* sys_save_vctl_entry: at, the new entries, programmed so far
  tried,    \* history: saves begun since the last that ended well
  era       \* history: changes at every restart

vctlVars == <<area, datap, cfg, save, tried, era>>

Blank  == [num |-> -1, cells |-> <<>>]       \* no magic
NoSave == [at |-> "no", new |-> <<>>]

-----------------------------------------------------------------------------
\* sys_get_vctl_entry; sizes always fit.
Get(a, t) ==
  LET hits == {i \in DOMAIN a.cells : a.cells[i].type = t}
  IN  IF a.num <= 0 \/ hits = {} THEN NoEntry
      ELSE a.cells[CHOOSE i \in hits : \A j \in hits : i <= j].val

\* A mutant of Rebuilt: the other entries are not all carried over.
Rebuilt_Tail(a, t, v) ==
  Append(SelectSeq(IF a.num < 0 THEN <<>> ELSE a.cells,
                   LAMBDA e : e.type \notin {t, "VLAN"}), [type |-> t, val |-> v])

\* The entries sys_save_vctl_entry copies, with the new one in its place or
\* at the end.
Rebuilt(a, t, v) ==
  LET old == IF a.num < 0 THEN <<>> ELSE a.cells
      new == [type |-> t, val |-> v]
  IN  IF \E i \in DOMAIN old : old[i].type = t
      THEN [i \in DOMAIN old |-> IF old[i].type = t THEN new ELSE old[i]]
      ELSE Append(old, new)

\* The count promises an entry that is still blank: its size reads as -1,
\* and the memcpy of that size does not come back.
Torn(a) == a.num > Len(a.cells)

\* sys_save_vctl_entry, called with the copy d, up to the first flash
\* operation.  Erasing is part of flash_nand_program.
SaveEntry(d, t, v) ==
  /\ tried' = tried \cup {<<t, v>>}
  /\ save' = [at |-> IF Torn(d) THEN "stuck" ELSE "erase", new |-> Rebuilt(d, t, v)]

\* sys_get_vctl_mac, sys_get_vctl_ip, sys_get_vctl_boot_file: what is not
\* found keeps the default.
Fetched(d, t)  == IF Get(d, t) = NoEntry THEN 0 ELSE Get(d, t)
GetMac(d)      == Fetched(d, "VLAN")
GetIp(d)       == Fetched(d, "IP")
GetBootFile(d) == Fetched(d, "BOOT_FILE")

\* sys_init_cfg
InitCfg(d) == [VLAN |-> GetMac(d), IP |-> GetIp(d), BOOT_FILE |-> GetBootFile(d)]

\* A reset at any time: sys_vctl_init reads the area; without a VLAN entry it
\* saves the default one.
VctlBoot ==
  /\ datap' = area
  /\ cfg' = InitCfg(area)
  /\ IF Get(area, "VLAN") = NoEntry
     THEN /\ save' = [at |-> IF Torn(area) THEN "stuck" ELSE "erase",
                      new |-> Rebuilt(area, "VLAN", 0)]
          /\ tried' = {<<"VLAN", 0>>}
     ELSE save' = NoSave /\ tried' = {}
  /\ era' = 1 - era /\ UNCHANGED area

VctlInit ==
  /\ area = Blank /\ datap = Blank
  /\ cfg = [t \in VctlType |-> 0]
  /\ save = [at |-> "erase", new |-> Rebuilt(Blank, "VLAN", 0)]
  /\ tried = {<<"VLAN", 0>>} /\ era = 0

-----------------------------------------------------------------------------
(* The menu *)

\* sys_set_vctl_mac, sys_set_vctl_ip, sys_set_vctl_boot_file
SetVctlMac(v)      == SaveEntry(datap, "VLAN", v)
SetVctlIp(v)       == SaveEntry(datap, "IP", v)
SetVctlBootFile(v) == SaveEntry(datap, "BOOT_FILE", v)

\* ip_verify_addr, ip_verify_netmask: a value the sys_set functions refuse
\* leaves the old one.
Verified(t, v) == {v, cfg[t]}

\* A dialogue takes one value after the other; an illegal one ends it, and
\* what has been set by then stays in memory without being saved.
Dialogue(t) ==
  /\ save.at = "no"
  /\ \E v \in Setting : \E w \in Verified(t, v) : cfg' = [cfg EXCEPT ![t] = w]
  /\ UNCHANGED <<area, datap, era>>

SetIp ==
  Dialogue("IP") /\ (SetVctlIp(cfg'["IP"]) \/ UNCHANGED <<save, tried>>)

SetMac ==
  Dialogue("VLAN") /\ (SetVctlMac(cfg'["VLAN"]) \/ UNCHANGED <<save, tried>>)

\* sys_set_kernel_name, sys_set_kernel_addr, sys_set_initrd_name and
\* sys_set_initrd_addr: the menu calls them with write = 0, in memory only.
SetFiles(v) == cfg' = [cfg EXCEPT !["BOOT_FILE"] = v]

UpdateBootFile ==
  /\ save.at = "no"
  /\ \E v \in Setting \cup {cfg["BOOT_FILE"]} :
       SetFiles(v) /\ (SetVctlBootFile(v) \/ UNCHANGED <<save, tried>>)
  /\ UNCHANGED <<area, datap, era>>

-----------------------------------------------------------------------------
(* The rest of sys_save_vctl_entry *)

Erase ==
  /\ save.at = "erase"
  /\ area' = Blank /\ save' = [save EXCEPT !.at = "header"]
  /\ UNCHANGED <<datap, cfg, tried, era>>

\* The header, then one entry after the other.
Program ==
  /\ \/ /\ save.at = "header"
        /\ area' = [num |-> Len(save.new), cells |-> <<>>]
     \/ /\ save.at = "entries" /\ Torn(area)
        /\ area' = [area EXCEPT !.cells =
                      SubSeq(save.new, 1, Len(area.cells) + 1)]
  /\ save' = [save EXCEPT !.at = "entries"]
  /\ UNCHANGED <<datap, cfg, tried, era>>

\* All is programmed.  Only the NOR build reads the area back.
SaveDone ==
  /\ save.at = "entries" /\ ~Torn(area)
  /\ datap' = IF NAND THEN datap ELSE area
  /\ save' = NoSave /\ tried' = {}
  /\ UNCHANGED <<area, cfg, era>>

\* flash_erase or flash_program gives up.
FlashFails ==
  /\ save.at \in {"erase", "header", "entries"}
  /\ save' = NoSave
  /\ UNCHANGED <<area, datap, cfg, tried, era>>

VctlNext ==
  VctlBoot \/ SetIp \/ SetMac \/ UpdateBootFile
    \/ Erase \/ Program \/ SaveDone \/ FlashFails

VctlSpec == VctlInit /\ [][VctlNext]_vctlVars

-----------------------------------------------------------------------------
\* The copy in memory is the store.
Store == INSTANCE Settings WITH
  Type <- VctlType, Value <- Stored, None <- NoEntry,
  kv <- [t \in VctlType |-> Get(datap, t)], tried <- tried, era <- era

\* The vendor control data implement a store whose saves are atomic and that
\* never goes back to an older value, through failing flash operations, and
\* power cuts at every step of a save (sys_save_vctl_entry, sys_vctl_init).
StoreSpec == Store!Spec
=============================================================================
