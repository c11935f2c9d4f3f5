----------------------------- MODULE BoardProof -----------------------------
(***************************************************************************)
(* The command history of the console, the start of the board, the NOR and *)
(* serial flash drivers, the software RAID, the ATA transfers, the SCSI    *)
(* commands of the USB host, the loading of the kernel from ext2 and the   *)
(* error correction of NAND pages, for every size of their buffers,        *)
(* directories, chips, disks, files and pages.  The                        *)
(* vendor control data of the NOR build implement the store of module      *)
(* Settings: every step of sys_save_vctl_entry, of the menu and of a reset *)
(* is a step of that store or changes nothing that it sees.                *)
(***************************************************************************)
EXTENDS Console, Nor, Boot, Raid, Vctl, Disk, Scsi, Ext2, Ecc, FiniteSetTheorems,
        SequenceTheorems, TLAPS

-----------------------------------------------------------------------------
(* Console: the history                                                     *)

\* Lines of the command line.
CmdLine == Seq(Letter \cup {"sp"})

\* The ring is full, or has been filled from its start; current_history stays
\* on a slot that is used or on the one to be used next.
HistoryTypeOK ==
  /\ hist \in [index : 0 .. MaxHistory - 1, total : 0 .. MaxHistory,
               buf : [0 .. MaxHistory - 1 -> CmdLine]]
  /\ cur \in Nat /\ line \in CmdLine /\ entered \in Seq(CmdLine)
  /\ hist.total < MaxHistory => hist.index = hist.total

HistoryInv == HistoryTypeOK /\ HistoryIsRecent

\* The slot i places before slot x of the history.
LEMMA BackSlot ==
  ASSUME NEW x \in 0 .. MaxHistory - 1, NEW i \in 1 .. MaxHistory
  PROVE  (x - i) % MaxHistory = IF i <= x THEN x - i ELSE x - i + MaxHistory
<1> USE ConsoleAssumption
<1>1. CASE i <= x
  <2>1. x - i \in 0 .. MaxHistory - 1
    BY <1>1
  <2> QED BY <1>1, <2>1
<1>2. CASE i > x
  <2>1. PICK r \in 0 .. MaxHistory - 1 : r = x - i + MaxHistory
    BY <1>2
  <2>2. x - i = MaxHistory * (-1) + r
    BY <2>1
  <2>3. (MaxHistory * (-1) + r) % MaxHistory = r
    OBVIOUS
  <2> QED BY <1>2, <2>1, <2>2, <2>3
<1> QED BY <1>1, <1>2

\* The slot after x follows it: what was i places back is now i + 1 back.
LEMMA NextSlotIs ==
  ASSUME NEW x \in 0 .. MaxHistory - 1
  PROVE  /\ NextSlot(x) \in 0 .. MaxHistory - 1
         /\ (NextSlot(x) - 1) % MaxHistory = x
         /\ \A i \in 2 .. MaxHistory :
              /\ (NextSlot(x) - i) % MaxHistory = (x - (i - 1)) % MaxHistory
              /\ (NextSlot(x) - i) % MaxHistory # x
              /\ (NextSlot(x) - i) % MaxHistory \in 0 .. MaxHistory - 1
<1> USE ConsoleAssumption
<1>1. PICK y \in 0 .. MaxHistory - 1 : y = NextSlot(x)
  BY DEF NextSlot
<1>2. y = IF x + 1 = MaxHistory THEN 0 ELSE x + 1
  BY <1>1 DEF NextSlot
<1>3. (y - 1) % MaxHistory = x
  BY <1>2, BackSlot
<1>4. ASSUME NEW i \in 2 .. MaxHistory
      PROVE  /\ (y - i) % MaxHistory = (x - (i - 1)) % MaxHistory
             /\ (y - i) % MaxHistory # x
             /\ (y - i) % MaxHistory \in 0 .. MaxHistory - 1
  <2>1. PICK j \in 1 .. MaxHistory : j = i - 1
    OBVIOUS
  <2>2. (y - i) % MaxHistory = IF i <= y THEN y - i ELSE y - i + MaxHistory
    BY BackSlot
  <2>3. (x - j) % MaxHistory = IF j <= x THEN x - j ELSE x - j + MaxHistory
    BY BackSlot
  <2> QED BY <2>1, <2>2, <2>3, <1>2
<1> QED BY <1>1, <1>3, <1>4

\* A ring of index x, total t and slots b holds the commands s.
Holds(x, t, b, s) ==
  /\ x \in 0 .. MaxHistory - 1 /\ t \in 0 .. MaxHistory
  /\ b \in [0 .. MaxHistory - 1 -> CmdLine] /\ s \in Seq(CmdLine)
  /\ t = Len(s)
  /\ t < MaxHistory => x = t
  /\ \A i \in 1 .. t : b[(x - i) % MaxHistory] = s[Len(s) - i + 1]

\* One command more in the history, the oldest one gone when there are too
\* many.
LEMMA Remembered ==
  ASSUME NEW x, NEW t, NEW b, NEW s, NEW l \in CmdLine, Holds(x, t, b, s)
  PROVE  Holds(NextSlot(x), IF t < MaxHistory THEN t + 1 ELSE t,
               [b EXCEPT ![x] = l],
               IF Len(Append(s, l)) > MaxHistory THEN Tail(Append(s, l))
               ELSE Append(s, l))
<1>a. /\ x \in 0 .. MaxHistory - 1 /\ t \in 0 .. MaxHistory
      /\ b \in [0 .. MaxHistory - 1 -> CmdLine] /\ s \in Seq(CmdLine)
      /\ t = Len(s)
      /\ t < MaxHistory => x = t
      /\ \A i \in 1 .. t : b[(x - i) % MaxHistory] = s[Len(s) - i + 1]
  BY DEF Holds
<1>b. PICK y, n, c, e :
        /\ y = NextSlot(x)
        /\ n = IF t < MaxHistory THEN t + 1 ELSE t
        /\ c = [b EXCEPT ![x] = l]
        /\ e = IF Len(Append(s, l)) > MaxHistory THEN Tail(Append(s, l))
               ELSE Append(s, l)
  OBVIOUS
<1> USE <1>a
<1> USE ConsoleAssumption
<1> DEFINE all == Append(s, l)
<1>1. /\ all \in Seq(CmdLine) /\ Len(all) = t + 1 /\ all[t + 1] = l
      /\ \A j \in 1 .. t : all[j] = s[j]
  OBVIOUS
<1>2. /\ Tail(all) \in Seq(CmdLine) /\ Len(Tail(all)) = t
      /\ \A j \in 1 .. t : Tail(all)[j] = all[j + 1]
  <2> HIDE DEF all
  <2>1. all # <<>>
    BY <1>1
  <2> QED BY <1>1, <2>1
<1>3. y \in 0 .. MaxHistory - 1
  BY <1>b, NextSlotIs
<1>4. /\ c \in [0 .. MaxHistory - 1 -> CmdLine] /\ c[x] = l
      /\ \A j \in 0 .. MaxHistory - 1 : j # x => c[j] = b[j]
  BY <1>b
<1>5. e = IF t + 1 > MaxHistory THEN Tail(all) ELSE all
  BY <1>1, <1>b
<1>6. n \in 0 .. MaxHistory /\ (n < MaxHistory => y = n)
  BY <1>b DEF NextSlot
<1> HIDE DEF all
<1>7. /\ n = Len(e) /\ e \in Seq(CmdLine)
      /\ \A j \in 1 .. n : e[j] = all[j + (t + 1 - n)]
  <2>1. CASE t < MaxHistory
    <3>1. e = all /\ n = t + 1
      BY <2>1, <1>5, <1>b
    <3>2. \A j \in 1 .. t + 1 : j + (t + 1 - (t + 1)) = j
      OBVIOUS
    <3> QED BY <2>1, <1>1, <3>1, <3>2
  <2>2. CASE t = MaxHistory
    <3>1. ~(t < MaxHistory) /\ t + 1 > MaxHistory
      BY <2>2
    <3>2. e = Tail(all) /\ n = t
      BY <3>1, <1>5, <1>b, Zenon
    <3>3. \A j \in 1 .. t : j + (t + 1 - t) = j + 1
      OBVIOUS
    <3> QED BY <2>2, <1>2, <3>2, <3>3
  <2> QED BY <2>1, <2>2
<1>8. ASSUME NEW i \in 1 .. n
      PROVE  c[(y - i) % MaxHistory] = e[Len(e) - i + 1]
  <2>1. n - i + 1 \in 1 .. n /\ (n - i + 1) + (t + 1 - n) = t + 1 - i + 1
    BY <1>6
  <2>2. e[n - i + 1] = all[t + 1 - i + 1]
    BY <1>7, <2>1
  <2>3. CASE i = 1
    <3>1. (y - 1) % MaxHistory = x
      BY <1>b, NextSlotIs
    <3>2. t + 1 - i + 1 = t + 1
      BY <2>3
    <3> QED BY <1>1, <1>4, <1>7, <2>2, <2>3, <3>1, <3>2
  <2>4. CASE i # 1
    <3>1. PICK j \in 1 .. t : j = i - 1
      BY <1>b, <2>4
    <3>2. i \in 2 .. MaxHistory
      BY <1>6, <2>4
    <3>3. /\ (y - i) % MaxHistory = (x - j) % MaxHistory
          /\ (y - i) % MaxHistory # x
          /\ (y - i) % MaxHistory \in 0 .. MaxHistory - 1
      BY <1>b, <3>1, <3>2, NextSlotIs
    <3>4. c[(y - i) % MaxHistory] = s[t - j + 1]
      BY <1>4, <3>3
    <3>5. t - j + 1 = t + 1 - i + 1 /\ t - j + 1 \in 1 .. t
      BY <3>1
    <3>6. all[t + 1 - i + 1] = s[t - j + 1]
      BY <1>1, <3>5
    <3> QED BY <1>7, <2>2, <3>4, <3>6
  <2> QED BY <2>3, <2>4
<1> QED BY <1>3, <1>4, <1>6, <1>7, <1>8, <1>b DEF Holds

\* Everything of the invariant that a key may change, kept.
LEMMA HistoryKept ==
  ASSUME HistoryInv, UNCHANGED <<hist, entered>>, line' \in CmdLine, cur' \in Nat,
         cur' <= hist.total
  PROVE  HistoryInv'
BY DEF HistoryInv, HistoryTypeOK, HistoryIsRecent

\* A key of the command line.
LEMMA CliKeyKeeps ==
  ASSUME HistoryInv, NEW key, CliKey(key)
  PROVE  HistoryInv'
<1> USE ConsoleAssumption
<1>1. PICK x \in 0 .. MaxHistory - 1, t \in 0 .. MaxHistory,
           b \in [0 .. MaxHistory - 1 -> CmdLine], c \in Nat, l \in CmdLine :
        /\ x = hist.index /\ t = hist.total /\ b = hist.buf /\ c = cur /\ l = line
        /\ c <= t /\ x <= t
  BY DEF HistoryInv, HistoryTypeOK, HistoryIsRecent
<1>2. <<>> \in CmdLine
  BY DEF CmdLine
<1>3. CASE key = "bs" /\ line' = (IF line = <<>> THEN line ELSE SubSeq(line, 1, Len(line) - 1))
                      /\ UNCHANGED <<hist, cur, entered, field>>
  <2>1. l # <<>> => SubSeq(l, 1, Len(l) - 1) \in CmdLine
    BY DEF CmdLine
  <2> QED BY <1>1, <1>3, <2>1, HistoryKept
<1>4. CASE key = "sp" /\ line' = Append(line, "sp") /\ UNCHANGED <<hist, cur, entered, field>>
  <2>1. Append(l, "sp") \in CmdLine
    BY DEF CmdLine
  <2> QED BY <1>1, <1>4, <2>1, HistoryKept
<1>5. CASE key = "enter" /\ line' = <<>> /\ Enter
  <2>1. CASE line = <<>>
    <3>1. UNCHANGED <<hist, entered>> /\ cur' = hist.index
      BY <1>5, <2>1 DEF Enter
    <3> QED BY <1>1, <1>2, <1>5, <3>1, HistoryKept
  <2>2. CASE line # <<>>
    <3>1. PICK s \in Seq(CmdLine) : s = entered /\ Holds(x, t, b, s)
      BY <1>1 DEF HistoryInv, HistoryTypeOK, HistoryIsRecent, Holds
    <3>2. PICK y, n, d, e :
            /\ hist' = [index |-> y, total |-> n, buf |-> d]
            /\ entered' = e /\ cur' = y
            /\ y = NextSlot(x)
            /\ n = IF t < MaxHistory THEN t + 1 ELSE t
            /\ d = [b EXCEPT ![x] = l]
            /\ e = IF Len(Append(s, l)) > MaxHistory THEN Tail(Append(s, l))
                   ELSE Append(s, l)
      BY <1>1, <1>5, <2>2, <3>1 DEF Enter
    <3>3. Holds(y, n, d, e)
      BY <3>1, <3>2, Remembered
    <3>4. y <= n /\ y \in Nat /\ n \in Nat
      BY <3>3 DEF Holds
    <3>5. HistoryTypeOK'
      BY <1>2, <1>5, <3>2, <3>3, <3>4 DEF HistoryTypeOK, Holds
    <3>6. HistoryIsRecent'
      BY <3>2, <3>3, <3>4 DEF HistoryIsRecent, Holds
    <3> QED BY <3>5, <3>6 DEF HistoryInv
  <2> QED BY <2>1, <2>2
<1>6. CASE key = "esc" /\ line' = <<>> /\ cur' = hist.index /\ UNCHANGED <<hist, entered, field>>
  BY <1>1, <1>2, <1>6, HistoryKept
<1>7. ASSUME NEW d, t # 0 => d \in 0 .. t - 1, Recall(d), UNCHANGED <<hist, entered, field>>
      PROVE  HistoryInv'
  <2>1. CASE t = 0
    BY <1>1, <1>7, <2>1, HistoryKept DEF Recall
  <2>2. CASE t # 0
    <3>1. line' = b[d] /\ cur' = d /\ d \in 0 .. MaxHistory - 1
      BY <1>1, <1>7, <2>2 DEF Recall
    <3>2. b[d] \in CmdLine /\ d \in Nat /\ d <= t
      BY <3>1, <1>7, <2>2
    <3> QED BY <1>1, <1>7, <3>1, <3>2, HistoryKept
  <2> QED BY <2>1, <2>2
<1>8. t # 0 => Back(cur) \in 0 .. t - 1 /\ Forward(cur) \in 0 .. t - 1
  BY <1>1 DEF Back, Forward
<1>9. CASE Recall(Back(cur)) /\ UNCHANGED <<hist, entered, field>>
  BY <1>7, <1>8, <1>9
<1>10. CASE Recall(Forward(cur)) /\ UNCHANGED <<hist, entered, field>>
  BY <1>7, <1>8, <1>10
<1>11. CASE UNCHANGED <<line, hist, cur, entered, field>>
  BY <1>1, <1>11, HistoryKept
<1>12. CASE /\ key \in Letter
            /\ line' = (IF Len(line) + 1 >= MaxChars - 1 THEN <<>> ELSE Append(line, key))
            /\ UNCHANGED <<hist, cur, entered, field>>
  <2>1. Append(l, key) \in CmdLine
    BY <1>12 DEF CmdLine
  <2> QED BY <1>1, <1>2, <1>12, <2>1, HistoryKept
<1> QED BY <1>3, <1>4, <1>5, <1>6, <1>9, <1>10, <1>11, <1>12 DEF CliKey

\* A key, of the command line or of a field.
LEMMA KeyKeeps ==
  ASSUME HistoryInv, NEW key, Key(key)
  PROVE  HistoryInv'
<1>1. CASE field.on
  BY <1>1 DEF Key, HistoryInv, HistoryTypeOK, HistoryIsRecent
<1>2. CASE ~field.on
  BY <1>2, CliKeyKeeps DEF Key
<1> QED BY <1>1, <1>2

\* The history always holds the commands entered last, in their order, and
\* the arrow keys never leave it (cli_main): HistoryIsRecent for every size
\* of the history and of the line.
THEOREM HistoryAlwaysRecent == ConsoleSpec => []HistoryIsRecent
<1>1. ConsoleInit => HistoryInv
  <2> SUFFICES ASSUME ConsoleInit PROVE HistoryInv
    OBVIOUS
  <2> USE ConsoleAssumption
  <2>1. <<>> \in CmdLine /\ <<>> \in Seq(CmdLine) /\ Len(<<>>) = 0
    BY DEF CmdLine
  <2>2. /\ hist = [index |-> 0, total |-> 0, buf |-> [i \in 0 .. MaxHistory - 1 |-> <<>>]]
        /\ line = <<>> /\ cur = 0 /\ entered = <<>>
    BY DEF ConsoleInit
  <2>3. [i \in 0 .. MaxHistory - 1 |-> <<>>] \in [0 .. MaxHistory - 1 -> CmdLine]
    BY <2>1
  <2>4. 0 \in 0 .. MaxHistory - 1 /\ 0 \in 0 .. MaxHistory /\ 1 .. 0 = {}
    OBVIOUS
  <2>5. HistoryTypeOK
    BY <2>1, <2>2, <2>3, <2>4 DEF HistoryTypeOK
  <2>6. HistoryIsRecent
    BY <2>1, <2>2, <2>4 DEF HistoryIsRecent
  <2> QED BY <2>5, <2>6 DEF HistoryInv
<1>2. HistoryInv /\ [ConsoleNext]_consoleVars => HistoryInv'
  <2> SUFFICES ASSUME HistoryInv, [ConsoleNext]_consoleVars PROVE HistoryInv'
    OBVIOUS
  <2>1. CASE UNCHANGED <<line, hist, cur, entered>>
    BY <2>1 DEF HistoryInv, HistoryTypeOK, HistoryIsRecent
  <2>2. CASE Type
    BY <2>1, <2>2 DEF Type
  <2>3. CASE Getc
    BY <2>1, <2>3, KeyKeeps DEF Getc, NoKey
  <2>4. CASE EscTimeout
    BY <2>4, KeyKeeps DEF EscTimeout
  <2>5. CASE UNCHANGED consoleVars
    BY <2>1, <2>5 DEF consoleVars
  <2> QED BY <2>2, <2>3, <2>4, <2>5 DEF ConsoleNext
<1>3. HistoryInv => HistoryIsRecent
  BY DEF HistoryInv
<1> QED BY <1>1, <1>2, <1>3, PTL DEF ConsoleSpec

-----------------------------------------------------------------------------
(* Boot: from reset to the kernel                                           *)

\* The loader image is where the first stage looks for it, as far as it has
\* come, when no block of the boot area is bad.
FirstStage ==
  /\ nand \in BOOLEAN
  /\ ~nand => bad = {}
  /\ bad = {} /\ at = "boot1" =>
       src \in Nat /\ left \in Nat /\ src + left = Boot1Pages /\ boot2 = <<>>
  /\ bad = {} /\ at = "boot2" /\ nand =>
       /\ src \in Nat /\ left \in Nat /\ boot2 \in Seq(Nat)
       /\ src = Boot1Pages + Len(boot2) /\ left + Len(boot2) = Boot2Pages
       /\ \A i \in 1 .. Len(boot2) : boot2[i] = Boot1Pages + i - 1
  /\ at = "boot2" /\ ~nand => boot2 = Boot2Image /\ left = 0
  /\ at = "lost" => nand /\ bad # {}

\* The directory has one kernel at most.
Directory ==
  /\ dir \in [1 .. DirSize -> Kind]
  /\ \A i, j \in KernelAt : i = j

\* What is known of the kernel when nobody has used the menu.
KernelKnown ==
  /\ at = "menu" => ~auto
  /\ auto /\ at \in {"web", "verify", "key", "load", "loading", "run"} => KernelAt # {}
  /\ auto /\ at \in {"key", "load", "loading", "run"} =>
       \A i \in KernelAt : dir[i] = "kernel"

\* The entries below index n that fis_load_images loads.
LoadedBelow(n) == {i \in 1 .. DirSize : i < n /\ Loadable(dir[i])}

\* fis_load_images has loaded every entry it has passed; the flash is on
\* between the two halves of a copy alone.
Loading ==
  /\ next \in 1 .. DirSize + 1
  /\ flashOn => at = "loading" /\ next <= DirSize /\ Loadable(dir[next])
  /\ at \in {"loading", "run"} =>
       inMem = LoadedBelow(next) /\ (entry = 0 \/ entry \in inMem)
  /\ at = "run" => next = DirSize + 1 /\ entry # 0 /\ ~irqOn /\ ~cacheOn

BootInv == FirstStage /\ Directory /\ KernelKnown /\ Loading

\* The sizes alone.
LEMMA BootSizes ==
  /\ Boot1Pages \in Nat \ {0} /\ Boot2Pages \in Nat \ {0} /\ DirSize \in Nat \ {0}
  /\ BlockPages \in Nat \ {0}
BY BootAssumption

\* Without bad blocks a page is where the file has it, and none is passed over.
LEMMA NoBadBlocks ==
  ASSUME bad = {}, NEW p \in Nat
  PROVE  InFile(p) = p /\ GoodFrom(p) = p
<1> USE BootAssumption
<1>1. {c \in bad : c < p \div BlockPages} = {}
  OBVIOUS
<1>2. Cardinality({}) = 0
  BY FS_EmptySet
<1>3. BlockPages * 0 = 0 /\ p - 0 = p
  OBVIOUS
<1>4. InFile(p) = p
  BY <1>1, <1>2, <1>3 DEF InFile
<1>5. CASE p % BlockPages # 0 \/ FlashBase + p >= BootPages
  BY <1>4, <1>5 DEF GoodFrom
<1>6. CASE p % BlockPages = 0 /\ FlashBase + p < BootPages
  <2> DEFINE S == {q \in p .. BootPages : q % BlockPages = 0 /\ q \div BlockPages \notin bad}
  <2>1. p \in S
    BY <1>6
  <2>2. \A q \in S : p <= q /\ q \in Nat
    OBVIOUS
  <2>3. \A q \in S : (\A r \in S : q <= r) => q = p
    BY <2>1, <2>2
  <2>4. GoodFrom(p) = CHOOSE q \in S : \A r \in S : q <= r
    BY <1>6 DEF GoodFrom
  <2> HIDE DEF S
  <2> QED BY <1>4, <2>1, <2>2, <2>3, <2>4
<1> QED BY <1>5, <1>6

\* A set of one element at most has no two.
LEMMA AtMostOne ==
  ASSUME NEW T, IsFiniteSet(T), Cardinality(T) <= 1, NEW i \in T, NEW j \in T
  PROVE  i = j
<1> SUFFICES ASSUME i # j PROVE FALSE
  OBVIOUS
<1>1. IsFiniteSet({i}) /\ Cardinality({i}) = 1
  BY FS_Singleton
<1>2. IsFiniteSet({i} \cup {j}) /\ Cardinality({i} \cup {j}) = 2
  <2>1. PICK S : S = {i}
    OBVIOUS
  <2>2. j \notin S /\ IsFiniteSet(S) /\ Cardinality(S) = 1
    BY <1>1, <2>1
  <2>3. IsFiniteSet(S \cup {j}) /\ Cardinality(S \cup {j}) = Cardinality(S) + 1
    BY <2>2, FS_AddElement
  <2> QED BY <2>1, <2>2, <2>3
<1>3. {i} \cup {j} \subseteq T
  OBVIOUS
<1>4. Cardinality({i} \cup {j}) <= Cardinality(T) /\ Cardinality(T) \in Nat
  BY <1>3, FS_Subset, FS_CardinalityType
<1> QED BY <1>2, <1>4

\* The first stage, step by step.
LEMMA FirstStageKept ==
  ASSUME BootInv, BootNext
  PROVE  FirstStage'
<1> USE BootSizes DEF BootInv
<1>1. CASE FindBoot2
  <2>1. /\ UNCHANGED <<nand, bad, boot2>> /\ nand /\ at = "boot1"
        /\ IF left > 0
           THEN /\ src' = GoodFrom(src) + Advance(left)
                /\ left' = left - Advance(left) /\ at' = at
           ELSE at' = "boot2" /\ left' = Boot2Pages /\ src' = src
    BY <1>1 DEF FindBoot2, chipVars
  <2>2. CASE bad = {}
    <3>1. src \in Nat /\ left \in Nat /\ src + left = Boot1Pages /\ boot2 = <<>>
      BY <2>1, <2>2 DEF FirstStage
    <3>2. CASE left > 0
      <4>1. PICK s \in Nat, l \in Nat : s = src /\ l = left
        BY <3>1
      <4>2. PICK a \in Nat : a = Advance(l) /\ a <= l
        BY <4>1 DEF Advance
      <4>3. GoodFrom(s) = s
        BY <2>2, NoBadBlocks
      <4>4. src' = s + a /\ left' = l - a /\ at' = "boot1"
        BY <2>1, <3>2, <4>1, <4>2, <4>3
      <4>5. src' \in Nat /\ left' \in Nat /\ src' + left' = Boot1Pages
        <5>1. s + a \in Nat /\ l - a \in Nat /\ (s + a) + (l - a) = Boot1Pages
          BY <3>1, <4>1, <4>2
        <5> QED BY <4>4, <5>1, Zenon
      <4> QED BY <2>1, <3>1, <4>4, <4>5 DEF FirstStage
    <3>3. CASE ~(left > 0)
      <4>1. at' = "boot2" /\ left' = Boot2Pages /\ src' = src /\ boot2' = <<>>
        BY <2>1, <3>1, <3>3
      <4>2. src = Boot1Pages
        BY <3>1, <3>3
      <4>3. <<>> \in Seq(Nat) /\ Len(<<>>) = 0 /\ 1 .. 0 = {}
        OBVIOUS
      <4> QED BY <2>1, <3>1, <4>1, <4>2, <4>3 DEF FirstStage
    <3> QED BY <3>2, <3>3
  <2>3. CASE bad # {}
    BY <2>1, <2>3 DEF FirstStage
  <2> QED BY <2>2, <2>3
<1>2. CASE CopyPage
  <2>1. /\ UNCHANGED <<nand, bad, at>> /\ at = "boot2" /\ left > 0
        /\ boot2' = Append(boot2, InFile(GoodFrom(src)))
        /\ src' = GoodFrom(src) + 1 /\ left' = left - 1
    BY <1>2 DEF CopyPage, chipVars
  <2>2. nand
    BY <2>1 DEF FirstStage
  <2>3. CASE bad = {}
    <3>1. PICK s \in Nat, l \in Nat, b \in Seq(Nat) :
            /\ s = src /\ l = left /\ b = boot2
            /\ s = Boot1Pages + Len(b) /\ l + Len(b) = Boot2Pages
            /\ \A i \in 1 .. Len(b) : b[i] = Boot1Pages + i - 1
      BY <2>1, <2>2, <2>3 DEF FirstStage
    <3>2. InFile(s) = s /\ GoodFrom(s) = s
      BY <2>3, NoBadBlocks
    <3>a. Append(b, s) \in Seq(Nat)
      OBVIOUS
    <3>3. PICK c \in Seq(Nat) : c = Append(b, s)
      BY <3>a
    <3>4. /\ Len(c) = Len(b) + 1 /\ c[Len(b) + 1] = s
          /\ \A i \in 1 .. Len(b) : c[i] = b[i]
      BY <3>3
    <3>b. PICK n \in Nat : n = Len(b) /\ Len(c) = n + 1
      BY <3>4
    <3>5. \A i \in 1 .. Len(c) : c[i] = Boot1Pages + i - 1
      <4>1. \A i \in 1 .. n : c[i] = Boot1Pages + i - 1
        BY <3>1, <3>4, <3>b
      <4>2. c[n + 1] = Boot1Pages + (n + 1) - 1
        BY <3>1, <3>4, <3>b
      <4>3. \A i \in 1 .. n + 1 : i \in 1 .. n \/ i = n + 1
        OBVIOUS
      <4> QED BY <4>1, <4>2, <4>3, <3>b
    <3>6. boot2' = c /\ src' = s + 1 /\ left' = l - 1 /\ l > 0
      BY <2>1, <3>1, <3>2, <3>3
    <3>7. s + 1 = Boot1Pages + Len(c) /\ (l - 1) + Len(c) = Boot2Pages /\ l - 1 \in Nat
      BY <3>1, <3>b, <3>6
    <3> QED BY SMTT(30), <2>1, <2>2, <2>3, <3>5, <3>6, <3>7 DEF FirstStage
  <2>4. CASE bad # {}
    BY <2>1, <2>2, <2>4 DEF FirstStage
  <2> QED BY <2>3, <2>4
<1>3. CASE CopyNor
  <2>1. /\ UNCHANGED <<nand, bad>> /\ ~nand /\ at' = "boot2" /\ left' = 0
        /\ boot2' = [i \in 1 .. Boot2Pages |-> InFile(Boot1Pages + i - 1)]
    BY <1>3 DEF CopyNor, chipVars
  <2>2. bad = {}
    BY <2>1 DEF FirstStage
  <2>3. \A i \in 1 .. Boot2Pages : InFile(Boot1Pages + i - 1) = Boot1Pages + i - 1
    BY <2>2, NoBadBlocks
  <2>4. boot2' = Boot2Image
    BY <2>1, <2>3 DEF Boot2Image
  <2> QED BY <2>1, <2>2, <2>4 DEF FirstStage, Boot2Image
<1>4. CASE Jump
  <2>1. /\ UNCHANGED <<nand, bad>> /\ at = "boot2" /\ left = 0
        /\ at' = IF boot2 = Boot2Image THEN "fis" ELSE "lost"
    BY <1>4 DEF Jump, chipVars
  <2>2. ~nand => boot2 = Boot2Image
    BY <2>1 DEF FirstStage
  <2>3. nand /\ bad = {} => boot2 = Boot2Image
    <3> SUFFICES ASSUME nand, bad = {} PROVE boot2 = Boot2Image
      OBVIOUS
    <3>1. PICK b \in Seq(Nat) :
            /\ b = boot2 /\ left + Len(b) = Boot2Pages
            /\ \A i \in 1 .. Len(b) : b[i] = Boot1Pages + i - 1
      BY <2>1 DEF FirstStage
    <3>2. Len(b) = Boot2Pages
      BY <2>1, <3>1
    <3>3. b = [i \in 1 .. Len(b) |-> b[i]]
      OBVIOUS
    <3> QED BY <3>1, <3>2, <3>3 DEF Boot2Image
  <2> QED BY <2>1, <2>2, <2>3 DEF FirstStage
<1>5. CASE /\ UNCHANGED <<nand, bad>> /\ at # "lost"
           /\ at' \in {"menu", "web", "verify", "key", "load", "reset", "loading", "run"}
  BY <1>5 DEF FirstStage
<1>6. CASE HalReset
  <2>1. 0 + Boot1Pages = Boot1Pages
    OBVIOUS
  <2> QED BY <1>6, <2>1 DEF HalReset, chipVars, FirstStage
<1>7. CASE FisInit \/ WebWait \/ VerifyKernel \/ WaitKey \/ Menu
  BY <1>5, <1>7 DEF FisInit, WebWait, VerifyKernel, WaitKey, Menu, second, chipVars
<1>8. CASE LoadStart \/ LoadImage \/ RunApps
  BY <1>5, <1>8 DEF LoadStart, LoadImage, RunApps, chipVars
<1> QED BY <1>1, <1>2, <1>3, <1>4, <1>6, <1>7, <1>8 DEF BootNext

\* The directory: the menu never makes a second kernel.
LEMMA DirectoryKept ==
  ASSUME BootInv, BootNext
  PROVE  Directory'
<1> USE BootSizes DEF BootInv
<1>1. CASE UNCHANGED dir
  BY <1>1 DEF Directory, KernelAt
<1>2. CASE FisInit
  <2>1. CASE UNCHANGED dir
    BY <1>1, <2>1
  <2>2. CASE dir' = [i \in 1 .. DirSize |-> IF i = 1 THEN "loader" ELSE "free"]
    <3>1. KernelAt' = {}
      BY <2>2 DEF KernelAt
    <3> QED BY <2>2, <3>1 DEF Directory, Kind
  <2> QED BY <1>2, <2>1, <2>2 DEF FisInit
<1>3. CASE Menu
  <2>1. CASE UNCHANGED dir
    BY <1>1, <2>1
  <2>2. ASSUME NEW i \in 1 .. DirSize, NEW k \in Kind,
               k \in {"kernel", "blank"} => KernelAt \subseteq {i},
               dir' = [dir EXCEPT ![i] = k]
        PROVE  Directory'
    <3>1. \A j \in 1 .. DirSize : dir'[j] = IF j = i THEN k ELSE dir[j]
      BY <2>2 DEF Directory
    <3>2. dir' \in [1 .. DirSize -> Kind]
      BY <2>2 DEF Directory
    <3>3. CASE k \in {"kernel", "blank"}
      BY <2>2, <3>1, <3>2, <3>3 DEF Directory, KernelAt
    <3>4. CASE k \notin {"kernel", "blank"}
      <4>1. KernelAt' \subseteq KernelAt
        BY <3>1, <3>4 DEF KernelAt
      <4> QED BY <3>2, <4>1 DEF Directory
    <3> QED BY <3>3, <3>4
  <2> QED BY <1>3, <2>1, <2>2 DEF Menu
<1>4. CASE FindBoot2 \/ CopyPage \/ CopyNor \/ Jump \/ HalReset
  BY <1>1, <1>4 DEF FindBoot2, CopyPage, CopyNor, Jump, HalReset
<1>5. CASE WebWait \/ VerifyKernel \/ WaitKey \/ LoadStart \/ LoadImage \/ RunApps
  BY <1>1, <1>5 DEF WebWait, VerifyKernel, WaitKey, LoadStart, LoadImage, RunApps
<1> QED BY <1>2, <1>3, <1>4, <1>5 DEF BootNext

\* What is known of the kernel.
LEMMA KernelKnownKept ==
  ASSUME BootInv, BootNext
  PROVE  KernelKnown'
<1> USE DEF BootInv
<1>1. CASE FindBoot2 \/ CopyPage \/ CopyNor \/ Jump \/ HalReset
  BY <1>1 DEF FindBoot2, CopyPage, CopyNor, Jump, HalReset, KernelKnown
<1>2. CASE FisInit
  BY <1>2 DEF FisInit, KernelKnown, KernelAt
<1>3. CASE WebWait
  BY <1>3 DEF WebWait, KernelKnown, KernelAt
<1>4. CASE VerifyKernel
  <2>1. PICK i \in KernelAt : /\ UNCHANGED dir /\ at = "verify"
                              /\ IF BlankKernel(i) THEN at' = "menu" /\ auto' = FALSE
                                 ELSE at' = "key" /\ UNCHANGED auto
    BY <1>4 DEF VerifyKernel
  <2>2. dir[i] # "blank" => dir[i] = "kernel"
    BY DEF KernelAt
  <2>3. \A j \in KernelAt : j = i
    BY DEF Directory
  <2> QED BY <2>1, <2>2, <2>3 DEF KernelKnown, KernelAt, BlankKernel
<1>5. CASE WaitKey
  BY <1>5 DEF WaitKey, KernelKnown, KernelAt
<1>6. CASE Menu
  BY <1>6 DEF Menu, KernelKnown
<1>7. CASE LoadStart
  BY <1>7 DEF LoadStart, KernelKnown, KernelAt
<1>8. CASE LoadImage
  BY <1>8 DEF LoadImage, KernelKnown, KernelAt
<1>9. CASE RunApps
  BY <1>9 DEF RunApps, KernelKnown, KernelAt
<1> QED BY <1>1, <1>2, <1>3, <1>4, <1>5, <1>6, <1>7, <1>8, <1>9 DEF BootNext

\* The loading of the images.
LEMMA LoadingKept ==
  ASSUME BootInv, BootNext
  PROVE  Loading'
<1> USE BootSizes DEF BootInv
<1>1. CASE /\ at \notin {"loading", "run"} /\ at' \notin {"loading", "run"}
           /\ next' \in {next, 1} /\ flashOn' \in {flashOn, FALSE}
  <2>1. ~flashOn'
    BY <1>1, Zenon DEF Loading
  <2>2. next' \in 1 .. DirSize + 1
    BY <1>1 DEF Loading
  <2> QED BY <1>1, <2>1, <2>2, Zenon DEF Loading
<1>2. CASE FindBoot2 \/ CopyPage \/ CopyNor \/ Jump \/ HalReset
  BY <1>1, <1>2 DEF FindBoot2, CopyPage, CopyNor, Jump, HalReset, loadVars, sysVars
<1>3. CASE FisInit \/ WebWait \/ VerifyKernel \/ WaitKey \/ Menu
  BY <1>1, <1>3 DEF FisInit, WebWait, VerifyKernel, WaitKey, Menu, second, loadVars, sysVars
<1>4. CASE LoadStart
  <2>2. /\ next' = 1 /\ inMem' = {} /\ entry' = 0 /\ at' = "loading" /\ at = "load"
        /\ flashOn' = flashOn
    BY <1>4 DEF LoadStart
  <2>3. ~flashOn'
    BY <2>2 DEF Loading
  <2>4. inMem' = LoadedBelow(next)'
    BY <2>2 DEF LoadedBelow
  <2>5. next' \in 1 .. DirSize + 1
    BY <2>2
  <2>6. at' # "run" /\ (entry' = 0 \/ entry' \in inMem')
    BY <2>2
  <2> QED BY <2>3, <2>4, <2>5, <2>6, Zenon DEF Loading
<1>5. CASE LoadImage
  <2>1. /\ UNCHANGED <<at, dir, irqOn, cacheOn>> /\ at = "loading" /\ next <= DirSize
        /\ next \in 1 .. DirSize
    BY <1>5 DEF LoadImage, Loading
  <2>2. PICK n \in 1 .. DirSize : n = next /\ n + 1 \in 1 .. DirSize + 1
    BY <2>1
  <2>3. /\ Loadable(dir[n]) => LoadedBelow(n + 1) = LoadedBelow(n) \cup {n}
        /\ ~Loadable(dir[n]) => LoadedBelow(n + 1) = LoadedBelow(n)
    BY DEF LoadedBelow
  <2>4. LoadedBelow(n)' = LoadedBelow(n) /\ LoadedBelow(n + 1)' = LoadedBelow(n + 1)
    BY <2>1 DEF LoadedBelow
  <2>5. CASE Loadable(dir[next]) /\ ~flashOn /\ FlashEnable /\ UNCHANGED loadVars
    BY <2>1, <2>2, <2>4, <2>5 DEF Loading, FlashEnable, loadVars, LoadedBelow, Loadable
  <2>6. CASE /\ Loadable(dir[next]) /\ flashOn /\ FlashDisable
             /\ inMem' = inMem \cup {next}
             /\ entry' = IF entry = 0 THEN next ELSE entry
             /\ next' = next + 1
    <3>1. inMem = LoadedBelow(n) /\ (entry = 0 \/ entry \in inMem)
      BY <2>1, <2>2 DEF Loading
    <3>2. inMem' = LoadedBelow(next)' /\ (entry' = 0 \/ entry' \in inMem')
      BY <2>1, <2>2, <2>3, <2>4, <2>6, <3>1 DEF LoadedBelow
    <3> QED BY <2>1, <2>2, <2>6, <3>2 DEF Loading, FlashDisable
  <2>7. CASE ~Loadable(dir[next]) /\ next' = next + 1 /\ UNCHANGED <<inMem, entry, flashOn>>
    <3>1. inMem = LoadedBelow(n) /\ (entry = 0 \/ entry \in inMem) /\ ~flashOn
      BY <2>1, <2>2, <2>7 DEF Loading
    <3>2. inMem' = LoadedBelow(next)' /\ (entry' = 0 \/ entry' \in inMem')
      BY <2>1, <2>2, <2>3, <2>4, <2>7, <3>1 DEF LoadedBelow
    <3> QED BY <2>1, <2>2, <2>7, <3>1, <3>2 DEF Loading
  <2> QED BY <1>5, <2>5, <2>6, <2>7 DEF LoadImage
<1>6. CASE RunApps
  <2>1. /\ UNCHANGED <<dir, inMem, next, entry, flashOn>> /\ at = "loading"
        /\ next = DirSize + 1
        /\ IF entry # 0 THEN at' = "run" /\ irqOn' = FALSE /\ cacheOn' = FALSE
           ELSE at' \in {"reset", "menu"}
    BY <1>6 DEF RunApps, Loading, loadVars
  <2>2. ~flashOn /\ inMem = LoadedBelow(next) /\ (entry = 0 \/ entry \in inMem)
    BY <2>1 DEF Loading
  <2>3. LoadedBelow(next)' = LoadedBelow(next)
    BY <2>1 DEF LoadedBelow
  <2> QED BY <2>1, <2>2, <2>3 DEF Loading
<1> QED BY <1>2, <1>3, <1>4, <1>5, <1>6 DEF BootNext

\* A board whose boot area has no bad block always reaches its second stage,
\* and what it starts finds the flash off, interrupts masked, the caches off,
\* every image with an entry point in memory and, when nobody has used the
\* menu, a kernel that is not blank (boot_main.c, sl_main, fis_load_images,
\* sys_run_apps): HandedOver for every size of the boot area and directory.
THEOREM AlwaysHandedOver == BootSpec => []HandedOver
<1>1. BootInit => BootInv
  <2> SUFFICES ASSUME BootInit PROVE BootInv
    OBVIOUS
  <2> USE BootSizes
  <2>1. FirstStage
    <3>1. 0 + Boot1Pages = Boot1Pages
      OBVIOUS
    <3> QED BY <3>1 DEF BootInit, FirstStage
  <2>2. Directory
    <3>1. Cardinality(KernelAt) <= 1 /\ dir \in [1 .. DirSize -> Kind]
      BY DEF BootInit, KernelAt
    <3>2. IsFiniteSet(1 .. DirSize) /\ KernelAt \subseteq 1 .. DirSize
      BY FS_Interval DEF KernelAt
    <3>3. IsFiniteSet(KernelAt)
      BY <3>2, FS_Subset
    <3>4. PICK K : K = KernelAt
      OBVIOUS
    <3>5. \A i, j \in K : i = j
      BY <3>1, <3>3, <3>4, AtMostOne
    <3> QED BY <3>1, <3>4, <3>5 DEF Directory
  <2>3. KernelKnown /\ Loading
    BY DEF BootInit, KernelKnown, Loading
  <2> QED BY <2>1, <2>2, <2>3 DEF BootInv
<1>2. BootInv /\ [BootNext]_bootVars => BootInv'
  <2> SUFFICES ASSUME BootInv, [BootNext]_bootVars PROVE BootInv'
    OBVIOUS
  <2>1. CASE BootNext
    BY <2>1, FirstStageKept, DirectoryKept, KernelKnownKept, LoadingKept DEF BootInv
  <2>2. CASE UNCHANGED bootVars
    <3>1. UNCHANGED <<at, nand, bad, src, left, boot2, dir, inMem, next, entry, flashOn,
                      irqOn, cacheOn, auto>>
      BY <2>2 DEF bootVars, chipVars, stageVars, loadVars, sysVars
    <3>2. FirstStage' /\ Directory'
      BY <3>1 DEF BootInv, FirstStage, Directory, KernelAt
    <3>3. KernelKnown' /\ Loading'
      BY <3>1 DEF BootInv, KernelKnown, Loading, KernelAt, LoadedBelow
    <3> QED BY <3>2, <3>3 DEF BootInv
  <2> QED BY <2>1, <2>2
<1>3. BootInv => HandedOver
  <2> SUFFICES ASSUME BootInv PROVE HandedOver
    OBVIOUS
  <2>1. at = "run" => ~flashOn /\ ~irqOn /\ ~cacheOn /\ entry \in inMem
    BY DEF BootInv, Loading
  <2>2. LoadedBelow(DirSize + 1) = {i \in 1 .. DirSize : dir[i] \in {"kernel", "blank", "app"}}
    BY BootSizes DEF LoadedBelow, Loadable
  <2>3. at = "run" => inMem = LoadedBelow(DirSize + 1)
    BY DEF BootInv, Loading
  <2>4. at = "run" /\ auto => KernelAt # {} /\ \A i \in KernelAt : dir[i] = "kernel"
    BY DEF BootInv, KernelKnown
  <2>5. at = "lost" => nand /\ bad # {}
    BY DEF BootInv, FirstStage
  <2> QED BY <2>1, <2>2, <2>3, <2>4, <2>5 DEF HandedOver
<1> QED BY <1>1, <1>2, <1>3, PTL DEF BootSpec

-----------------------------------------------------------------------------
(* Nor: the flash drivers                                                   *)

Value  == Word \cup {BLANK, MIXED}
Busy   == call.at \notin {"idle", "done"}
Stage  == {"idle", "done", "command", "timer", "blank", "verify", "poll", "enabled", "wip"}
ChipOp == [op : {"none", "erase", "program", "failed"}, pos : Addr, v : Value]
CallRec == [at : Stage, op : {"none", "erase", "program"}, from : Nat, pos : Nat,
            end : Nat, v : Value, polls : Int,
            res : {"ok", "protect", "timeout", "verify"}, clean : BOOLEAN]

NorTypeOK ==
  /\ part \in {"amd", "m25p"} /\ prot \subseteq Addr
  /\ part = "m25p" => prot = {}
  /\ cells \in [Addr -> Value] /\ chipOp \in ChipOp /\ call \in CallRec

\* Which driver and which operation a stage belongs to, and where it is.
Stages ==
  /\ call.at \in {"timer", "blank", "verify"} => part = "amd" /\ call.op = "erase"
  /\ call.at = "poll" => part = "amd" /\ call.op = "program"
  /\ call.at \in {"enabled", "wip"} => part = "m25p"
  /\ Busy => /\ call.op # "none" /\ call.from <= call.pos /\ call.pos < call.end
             /\ call.end <= NorBlocks * BlockWords
  /\ call.op = "erase" => call.v = BLANK

\* An erase is of one block, and stands at the start of a sector.
EraseAligned ==
  Busy /\ call.op = "erase" =>
    /\ \E b \in 0 .. NorBlocks - 1 :
         call.from = b * BlockWords /\ call.end = (b + 1) * BlockWords
    /\ \E k \in Nat : call.pos = k * SectorLen(call.pos)

\* NOR: what has been read back stays, because the chip has nothing left to do
\* but the word or sector the driver is at.
ReadBackStays ==
  part = "amd" /\ Busy /\ call.from < call.pos =>
    /\ \A a \in call.from .. call.pos - 1 : cells[a] = call.v
    /\ chipOp.op # "none" => chipOp.pos = call.pos /\ chipOp.op \in {call.op, "failed"}

\* Serial flash: the chip works only while the driver waits for it.
SerialChip ==
  part = "m25p" =>
    /\ call.at # "wip" => chipOp.op = "none"
    /\ call.at = "enabled" => wel
    /\ chipOp.op # "none" =>
         chipOp.op = call.op /\ chipOp.pos = call.pos /\ chipOp.v = call.v

\* Serial flash: how far the words are, where nothing was in the way.
SerialWords ==
  part = "m25p" /\ Busy =>
    /\ call.op = "program" /\ call.clean =>
         /\ \A a \in call.from .. call.pos - 1 : cells[a] = call.v
         /\ \A a \in call.pos .. call.end - 1 : cells[a] \in {BLANK, call.v}
    /\ call.at = "wip" /\ chipOp.op = "none" =>
         /\ call.op = "program" /\ call.clean => cells[call.pos] = call.v
         /\ call.op = "erase" => \A a \in call.from .. call.end - 1 : cells[a] = BLANK

\* A call that has succeeded leaves a chip that is idle.
DoneIdle == call.at = "done" /\ call.res = "ok" => chipOp.op = "none"

NorInv == NorTypeOK /\ Stages /\ EraseAligned /\ ReadBackStays /\ SerialChip
          /\ SerialWords /\ DoneIdle /\ OkIsDone

\* Products and quotients of the sizes.
LEMMA Monotone ==
  ASSUME NEW x \in Nat, NEW y \in Nat, NEW n \in Nat, x <= y
  PROVE  x * n <= y * n
<1>1. PICK d \in Nat : y = x + d
  <2>1. y - x \in Nat /\ y = x + (y - x)
    OBVIOUS
  <2> QED BY <2>1
<1>2. y * n = x * n + d * n /\ d * n \in Nat /\ x * n \in Nat
  BY <1>1
<1> QED BY <1>2

\* The quotient of x = b * q + r.
LEMMA Quotient ==
  ASSUME NEW b \in Nat \ {0}, NEW q \in Nat, NEW r \in 0 .. b - 1, NEW x \in Nat,
         x = q * b + r
  PROVE  x \div b = q
OBVIOUS

\* The sizes of the chip.
LEMMA NorSizes ==
  /\ BlockWords \in Nat \ {0} /\ NorBlocks \in Nat \ {0} /\ Polls \in Nat \ {0}
  /\ BlockWords \div BootSectors \in Nat \ {0}
  /\ NorBlocks * BlockWords \in Nat /\ 0 \in Addr
<1>1. /\ BlockWords \in Nat \ {0} /\ NorBlocks \in Nat \ {0} /\ Polls \in Nat \ {0}
      /\ BootSectors \in Nat \ {0} /\ BlockWords % BootSectors = 0
  BY NorAssumption
<1>2. PICK L \in Int : L = BlockWords \div BootSectors
  BY <1>1
<1>3. BlockWords = BootSectors * L
  BY <1>1, <1>2
<1>4. L \in Nat \ {0}
  BY <1>1, <1>3
<1>5. NorBlocks * BlockWords \in Nat \ {0}
  BY <1>1
<1> QED BY <1>1, <1>2, <1>4, <1>5 DEF Addr

\* The words of a block are words of the chip.
LEMMA BlockEnd ==
  ASSUME NEW b \in 0 .. NorBlocks - 1
  PROVE  /\ b * BlockWords \in Nat /\ (b + 1) * BlockWords \in Nat
         /\ (b + 1) * BlockWords = b * BlockWords + BlockWords
         /\ (b + 1) * BlockWords <= NorBlocks * BlockWords
<1> USE NorSizes
<1>1. b \in Nat /\ b + 1 \in Nat /\ b + 1 <= NorBlocks /\ NorBlocks \in Nat /\ BlockWords \in Nat
  OBVIOUS
<1>2. (b + 1) * BlockWords <= NorBlocks * BlockWords
  BY <1>1, Monotone
<1>3. b * BlockWords \in Nat /\ (b + 1) * BlockWords = b * BlockWords + BlockWords
  BY <1>1
<1>4. (b + 1) * BlockWords \in Nat
  BY <1>1, <1>3
<1> QED BY <1>2, <1>3, <1>4

\* A sector that starts at word p of block b is what SectorLen says, as far as
\* the block goes; the next one starts behind it.
LEMMA SectorCovers ==
  ASSUME part \in {"amd", "m25p"}, NEW b \in 0 .. NorBlocks - 1, NEW p \in Nat,
         b * BlockWords <= p, p < (b + 1) * BlockWords,
         \E k \in Nat : p = k * SectorLen(p)
  PROVE  /\ SectorLen(p) \in Nat \ {0} /\ p \in SectorOf(p)
         /\ \A a \in p .. p + SectorLen(p) - 1 :
              a < (b + 1) * BlockWords => a \in SectorOf(p)
         /\ LET n == p + SectorLen(p)
            IN  n < (b + 1) * BlockWords => \E k \in Nat : n = k * SectorLen(n)
         /\ part = "m25p" => p = b * BlockWords /\ SectorLen(p) = BlockWords
<1> USE NorSizes
<1>1. /\ b * BlockWords \in Nat /\ (b + 1) * BlockWords \in Nat
      /\ (b + 1) * BlockWords = b * BlockWords + BlockWords
      /\ (b + 1) * BlockWords <= NorBlocks * BlockWords
  BY BlockEnd
<1>2. PICK f \in Nat, e \in Nat, t \in Nat :
        /\ f = b * BlockWords /\ e = (b + 1) * BlockWords /\ t = NorBlocks * BlockWords
        /\ e = f + BlockWords /\ e <= t /\ f <= p /\ p < e
  BY <1>1
<1>3. PICK L \in Nat \ {0}, k \in Nat : L = SectorLen(p) /\ p = k * L
  BY DEF SectorLen
<1>4. CASE part = "amd" /\ p < BlockWords
  <2>1. b = 0
    <3>1. b # 0 => 1 * BlockWords <= b * BlockWords
      BY Monotone
    <3> QED BY <1>2, <1>4, <3>1
  <2>2. e = BlockWords /\ f = 0
    BY <1>2, <2>1
  <2>3. \A a \in Nat : a < e => SectorLen(a) = L
    BY <1>3, <1>4, <2>2 DEF SectorLen
  <2>4. ASSUME NEW a \in p .. p + L - 1, a < e
        PROVE  a \in SectorOf(p)
    <3>1. PICK r \in 0 .. L - 1 : a = k * L + r
      <4>1. a - p \in 0 .. L - 1 /\ a = p + (a - p)
        OBVIOUS
      <4> QED BY <4>1, <1>3
    <3>2. a \in Nat /\ a \div L = k
      BY <3>1, Quotient
    <3>3. p \div L = k
      <4>1. 0 \in 0 .. L - 1 /\ p = k * L + 0
        BY <1>3
      <4> QED BY <4>1, Quotient
    <3>4. a \in Addr
      BY <1>2, <2>4, <3>2 DEF Addr
    <3> QED BY <1>3, <2>3, <2>4, <3>2, <3>3, <3>4 DEF SectorOf
  <2>5. p \in SectorOf(p)
    <3>1. p \in p .. p + L - 1
      BY <1>3
    <3> QED BY <1>2, <2>4, <3>1
  <2>6. ASSUME p + L < e
        PROVE  \E j \in Nat : p + L = j * SectorLen(p + L)
    <3>1. SectorLen(p + L) = L
      BY <2>3, <2>6
    <3>2. PICK j \in Nat : j = k + 1
      OBVIOUS
    <3>3. p + L = j * L
      BY <1>3, <3>2
    <3> QED BY <3>1, <3>3
  <2> QED BY <1>2, <1>3, <1>4, <2>4, <2>5, <2>6
<1>5. CASE ~(part = "amd" /\ p < BlockWords)
  <2>1. L = BlockWords
    BY <1>3, <1>5 DEF SectorLen
  <2>2. k = b
    <3>1. CASE k < b
      <4>1. (k + 1) * BlockWords <= b * BlockWords
        BY <3>1, Monotone
      <4>2. (k + 1) * BlockWords = k * BlockWords + BlockWords
        OBVIOUS
      <4>3. k * BlockWords = p
        BY <1>3, <2>1
      <4> QED BY <1>2, <4>1, <4>2, <4>3
    <3>2. CASE b < k
      <4>1. (b + 1) * BlockWords <= k * BlockWords
        BY <3>2, Monotone
      <4> QED BY <1>2, <1>3, <2>1, <4>1
    <3> QED BY <3>1, <3>2
  <2>3. p = f /\ p + L = e
    BY <1>2, <1>3, <2>1, <2>2
  <2>4. \A a \in Nat : a >= p => SectorLen(a) = BlockWords
    BY <1>5 DEF SectorLen
  <2>5. ASSUME NEW a \in p .. p + L - 1
        PROVE  a \in SectorOf(p)
    <3>1. PICK r \in 0 .. BlockWords - 1 : a = b * BlockWords + r
      <4>1. a - p \in 0 .. BlockWords - 1 /\ a = p + (a - p)
        BY <2>1
      <4> QED BY <4>1, <2>3, <1>2
    <3>2. a \in Nat /\ a \div BlockWords = b
      BY <3>1, Quotient
    <3>3. p \div BlockWords = b
      <4>1. 0 \in 0 .. BlockWords - 1 /\ p = b * BlockWords + 0
        BY <1>2, <2>3
      <4> QED BY <4>1, Quotient
    <3>4. a \in Addr /\ a >= p
      BY <1>2, <2>3, <3>2 DEF Addr
    <3> QED BY <1>3, <2>1, <2>4, <3>2, <3>3, <3>4 DEF SectorOf
  <2>6. p \in SectorOf(p)
    <3>1. p \in p .. p + L - 1
      BY <1>3
    <3> QED BY <2>5, <3>1
  <2> QED BY <1>2, <1>3, <2>1, <2>3, <2>5, <2>6
<1> QED BY <1>4, <1>5

\* The part of the call that its stages do not change.
SameCall == /\ call'.op = call.op /\ call'.from = call.from /\ call'.end = call.end
            /\ call'.v = call.v /\ call'.clean = call.clean

\* On to another stage.
LEMMA GoIs ==
  ASSUME NorTypeOK, NEW s \in Stage, Go(s)
  PROVE  call' \in CallRec /\ call'.at = s /\ SameCall /\ call'.pos = call.pos
<1>1. PICK c \in CallRec : c = call
  BY DEF NorTypeOK
<1>2. call' = [c EXCEPT !.at = s, !.polls = Polls] /\ Polls \in Int
  BY <1>1, NorSizes DEF Go
<1>3. LET d == [c EXCEPT !.at = s, !.polls = Polls]
      IN  /\ d \in CallRec /\ d.at = s /\ d.op = c.op /\ d.from = c.from
          /\ d.pos = c.pos /\ d.end = c.end /\ d.v = c.v /\ d.clean = c.clean
  BY <1>2 DEF CallRec, Stage
<1> QED BY <1>1, <1>2, <1>3 DEF SameCall

\* The call is over.
LEMMA ReturnIs ==
  ASSUME NorTypeOK, NEW r \in {"ok", "protect", "timeout", "verify"}, NorReturn(r)
  PROVE  call' \in CallRec /\ call'.at = "done" /\ call'.res = r /\ SameCall
<1>1. PICK c \in CallRec : c = call
  BY DEF NorTypeOK
<1>2. call' = [c EXCEPT !.at = "done", !.res = r]
  BY <1>1 DEF NorReturn
<1>3. LET d == [c EXCEPT !.at = "done", !.res = r]
      IN  /\ d \in CallRec /\ d.at = "done" /\ d.res = r /\ d.op = c.op
          /\ d.from = c.from /\ d.end = c.end /\ d.v = c.v /\ d.clean = c.clean
  BY DEF CallRec, Stage
<1> QED BY <1>1, <1>2, <1>3 DEF SameCall

\* On to another word or sector.
LEMMA MoveIs ==
  ASSUME NorTypeOK, NEW p \in Nat, call' = [call EXCEPT !.at = "command", !.pos = p]
  PROVE  call' \in CallRec /\ call'.at = "command" /\ SameCall /\ call'.pos = p
<1>1. PICK c \in CallRec : c = call
  BY DEF NorTypeOK
<1>2. LET d == [c EXCEPT !.at = "command", !.pos = p]
      IN  /\ d \in CallRec /\ d.at = "command" /\ d.op = c.op /\ d.from = c.from
          /\ d.pos = p /\ d.end = c.end /\ d.v = c.v /\ d.clean = c.clean
  BY DEF CallRec, Stage
<1> QED BY <1>1, <1>2 DEF SameCall

\* One poll less.
LEMMA WaitIs ==
  ASSUME NorTypeOK, call' = [call EXCEPT !.polls = @ - 1]
  PROVE  call' \in CallRec /\ call'.at = call.at /\ SameCall /\ call'.pos = call.pos
<1>1. PICK c \in CallRec : c = call
  BY DEF NorTypeOK
<1>2. c.polls - 1 \in Int
  BY DEF CallRec
<1>3. LET d == [c EXCEPT !.polls = c.polls - 1]
      IN  /\ d \in CallRec /\ d.at = c.at /\ d.op = c.op /\ d.from = c.from
          /\ d.pos = c.pos /\ d.end = c.end /\ d.v = c.v /\ d.clean = c.clean
  BY <1>2 DEF CallRec, Stage
<1> QED BY <1>1, <1>3 DEF SameCall

\* A driver's step that leaves the words alone and goes on where it is.
LEMMA AmdStays ==
  ASSUME NorInv, part = "amd", UNCHANGED <<part, prot, cells>>, Busy,
         call' \in CallRec, SameCall, call'.pos = call.pos,
         \/ call'.at \in {"timer", "blank", "verify"} /\ call.op = "erase"
         \/ call'.at = "poll" /\ call.op = "program",
         chipOp' \in ChipOp,
         \/ chipOp' = chipOp
         \/ chipOp'.op = call.op /\ chipOp'.pos = call.pos
  PROVE  NorInv'
<1>1. NorTypeOK'
  BY DEF NorInv, NorTypeOK
<1>2. Stages'
  BY DEF NorInv, Stages, Busy, SameCall
<1>3. EraseAligned'
  BY DEF NorInv, EraseAligned, Busy, SameCall, SectorLen
<1>4. ReadBackStays'
  BY DEF NorInv, ReadBackStays, Busy, SameCall
<1>5. SerialChip' /\ SerialWords'
  BY DEF SerialChip, SerialWords
<1>6. DoneIdle' /\ OkIsDone'
  BY DEF DoneIdle, OkIsDone
<1> QED BY <1>1, <1>2, <1>3, <1>4, <1>5, <1>6 DEF NorInv

\* It gives up.
LEMMA AmdFails ==
  ASSUME NorInv, part = "amd", UNCHANGED <<part, prot, cells>>,
         call' \in CallRec, SameCall, call'.at = "done", call'.res # "ok",
         chipOp' \in ChipOp
  PROVE  NorInv'
<1>1. NorTypeOK'
  BY DEF NorInv, NorTypeOK
<1>2. Stages'
  BY DEF NorInv, Stages, Busy, SameCall
<1>3. EraseAligned' /\ ReadBackStays'
  BY DEF EraseAligned, ReadBackStays, Busy
<1>4. SerialChip' /\ SerialWords'
  BY DEF SerialChip, SerialWords
<1>5. DoneIdle' /\ OkIsDone'
  BY DEF DoneIdle, OkIsDone
<1> QED BY <1>1, <1>2, <1>3, <1>4, <1>5 DEF NorInv

\* It has read back all words up to n, and goes on there or is done.
LEMMA AmdAdvances ==
  ASSUME NorInv, part = "amd", UNCHANGED <<part, prot, cells, chipOp>>, Busy,
         NEW n \in Nat, call.pos < n, chipOp.op = "none",
         \A a \in call.pos .. n - 1 : a < call.end => cells[a] = call.v,
         n < call.end /\ call.op = "erase" => \E k \in Nat : n = k * SectorLen(n),
         IF n < call.end THEN call' = [call EXCEPT !.at = "command", !.pos = n]
                         ELSE NorReturn("ok")
  PROVE  NorInv'
<1>1. NorTypeOK /\ Stages /\ EraseAligned /\ ReadBackStays
  BY DEF NorInv
<1>2. PICK f \in Nat, p \in Nat, e \in Nat, v \in Value :
        /\ f = call.from /\ p = call.pos /\ e = call.end /\ v = call.v
        /\ f <= p /\ p < e /\ e <= NorBlocks * BlockWords
  BY <1>1 DEF NorTypeOK, CallRec, Stages, Busy
<1>3. \A a \in f .. p - 1 : cells[a] = v
  BY <1>1, <1>2 DEF ReadBackStays
<1>4. \A a \in f .. n - 1 : a < e => cells[a] = v
  <2>1. \A a \in f .. n - 1 : a \in f .. p - 1 \/ a \in p .. n - 1
    BY <1>2
  <2> QED BY <1>2, <1>3, <2>1
<1>5. CASE n < call.end
  <2>1. call' \in CallRec /\ call'.at = "command" /\ SameCall /\ call'.pos = n
    BY <1>1, <1>5, MoveIs
  <2>2. NorTypeOK'
    BY <1>1, <2>1 DEF NorTypeOK
  <2>3. Stages'
    BY <1>1, <1>2, <1>5, <2>1 DEF Stages, Busy, SameCall
  <2>4. EraseAligned'
    BY <1>1, <1>5, <2>1 DEF EraseAligned, Busy, SameCall, SectorLen
  <2>5. ReadBackStays'
    <3>1. \A a \in f .. n - 1 : cells[a] = v
      BY <1>2, <1>4, <1>5
    <3> QED BY <1>2, <2>1, <3>1 DEF ReadBackStays, SameCall
  <2>6. SerialChip' /\ SerialWords'
    BY DEF SerialChip, SerialWords
  <2>7. DoneIdle' /\ OkIsDone'
    BY <2>1 DEF DoneIdle, OkIsDone
  <2> QED BY <2>2, <2>3, <2>4, <2>5, <2>6, <2>7 DEF NorInv
<1>6. CASE ~(n < call.end)
  <2>1. call' \in CallRec /\ call'.at = "done" /\ SameCall
    BY <1>1, <1>6, ReturnIs
  <2>2. NorTypeOK'
    BY <1>1, <2>1 DEF NorTypeOK
  <2>3. Stages'
    BY <1>1, <2>1 DEF Stages, Busy, SameCall
  <2>4. EraseAligned' /\ ReadBackStays'
    BY <2>1 DEF EraseAligned, ReadBackStays, Busy
  <2>5. SerialChip' /\ SerialWords'
    BY DEF SerialChip, SerialWords
  <2>6. DoneIdle'
    BY DEF DoneIdle
  <2>7. OkIsDone'
    <3>1. \A a \in f .. e - 1 : cells[a] = v
      BY <1>2, <1>4, <1>6
    <3> QED BY <1>2, <2>1, <3>1 DEF OkIsDone, SameCall
  <2> QED BY <2>2, <2>3, <2>4, <2>5, <2>6, <2>7 DEF NorInv
<1> QED BY <1>5, <1>6

\* What a command makes of the chip.
LEMMA CommandIs ==
  ASSUME NorTypeOK, NEW op \in {"erase", "program"}, NEW a \in Addr, NEW v \in Value,
         ChipCommand(op, a, v)
  PROVE  /\ chipOp' \in ChipOp
         /\ \/ chipOp' = chipOp
            \/ chipOp'.op = op /\ chipOp'.pos = a /\ chipOp'.v = v
         /\ part = "m25p" /\ wel /\ chipOp.op = "none" =>
              chipOp'.op = op /\ chipOp'.pos = a /\ chipOp'.v = v
<1>1. [op |-> op, pos |-> a, v |-> v] \in ChipOp
  BY DEF ChipOp
<1>2. chipOp' = chipOp \/ chipOp' = [op |-> op, pos |-> a, v |-> v]
  BY DEF ChipCommand
<1>3. part = "m25p" /\ wel /\ chipOp.op = "none" => chipOp' = [op |-> op, pos |-> a, v |-> v]
  BY DEF ChipCommand, NorTypeOK
<1> QED BY <1>1, <1>2, <1>3 DEF NorTypeOK

\* A reset leaves a chip.
LEMMA ResetIs ==
  ASSUME NorTypeOK, FlashReset
  PROVE  chipOp' \in ChipOp
BY NorSizes DEF FlashReset, NoOp, ChipOp, NorTypeOK, Value

\* A poll that has not seen what it waits for.
LEMMA PollKeeps ==
  ASSUME NorInv, part = "amd", UNCHANGED <<part, prot, cells>>, PollAgain,
         \/ call.at \in {"timer", "blank", "verify"} /\ call.op = "erase"
         \/ call.at = "poll" /\ call.op = "program"
  PROVE  NorInv'
<1>0. NorTypeOK
  BY DEF NorInv
<1>1. CASE call.polls = 1
  <2>1. FlashReset /\ NorReturn("timeout")
    BY <1>1 DEF PollAgain
  <2>2. call' \in CallRec /\ call'.at = "done" /\ call'.res = "timeout" /\ SameCall
    BY <1>0, <2>1, ReturnIs
  <2> QED BY <1>0, <2>1, <2>2, ResetIs, AmdFails
<1>2. CASE call.polls # 1
  <2>1. call' = [call EXCEPT !.polls = @ - 1] /\ UNCHANGED chipOp
    BY <1>2 DEF PollAgain
  <2>2. call' \in CallRec /\ call'.at = call.at /\ SameCall /\ call'.pos = call.pos
    BY <1>0, <2>1, WaitIs
  <2>3. Busy
    BY DEF Busy
  <2>4. chipOp' \in ChipOp
    BY <1>0, <2>1 DEF NorTypeOK
  <2> QED BY <2>1, <2>2, <2>3, <2>4, AmdStays
<1> QED BY <1>1, <1>2

\* A new call, whatever the chip is still doing.
LEMMA NorCallKeeps ==
  ASSUME NorInv, NorCall
  PROVE  NorInv'
<1> USE NorSizes
<1>0. /\ NorTypeOK /\ SerialChip /\ UNCHANGED <<part, prot, cells, chipOp, wel>>
      /\ call.at \in {"idle", "done"}
  BY DEF NorInv, NorCall, norChip
<1>1. BLANK \in Value
  BY DEF Value
<1>2. SUFFICES ASSUME call' \in CallRec, call'.at = "command",
                      call'.op \in {"erase", "program"}, call'.pos = call'.from,
                      call'.from < call'.end, call'.end <= NorBlocks * BlockWords,
                      call'.op = "erase" =>
                        /\ call'.v = BLANK
                        /\ \E b \in 0 .. NorBlocks - 1 :
                             call'.from = b * BlockWords /\ call'.end = (b + 1) * BlockWords,
                      call'.op = "program" /\ call'.clean =>
                        \A a \in call'.from .. call'.end - 1 : cells[a] \in {BLANK, call'.v}
               PROVE  NorInv'
  <2>1. PICK b \in 0 .. NorBlocks - 1 :
          \/ call' = [NorRest EXCEPT !.at = "command", !.op = "erase",
                        !.from = b * BlockWords, !.pos = b * BlockWords,
                        !.end = (b + 1) * BlockWords]
          \/ \E s, n \in 1 .. BlockWords, v \in Word :
               /\ s + n - 1 <= BlockWords
               /\ LET a == b * BlockWords + s - 1
                  IN  call' = [NorRest EXCEPT !.at = "command", !.op = "program",
                                 !.from = a, !.pos = a, !.end = a + n, !.v = v,
                                 !.clean = Clean(a, n, v)]
    BY DEF NorCall
  <2>2. PICK f \in Nat, e \in Nat : /\ f = b * BlockWords /\ e = (b + 1) * BlockWords
                                    /\ e = f + BlockWords /\ e <= NorBlocks * BlockWords
    BY BlockEnd
  <2>3. CASE call' = [NorRest EXCEPT !.at = "command", !.op = "erase",
                        !.from = b * BlockWords, !.pos = b * BlockWords,
                        !.end = (b + 1) * BlockWords]
    <3>1. call' = [at |-> "command", op |-> "erase", from |-> f, pos |-> f, end |-> e,
                   v |-> BLANK, polls |-> 0, res |-> "ok", clean |-> TRUE]
      BY <2>2, <2>3 DEF NorRest
    <3>2. call' \in CallRec
      BY <1>1, <3>1 DEF CallRec, Stage
    <3>3. /\ call'.at = "command" /\ call'.op = "erase" /\ call'.pos = f /\ call'.from = f
          /\ call'.end = e /\ call'.v = BLANK
      BY <3>1
    <3>4. f < e
      BY <2>2
    <3> QED BY <1>2, <2>2, <3>2, <3>3, <3>4
  <2>4. ASSUME NEW s \in 1 .. BlockWords, NEW n \in 1 .. BlockWords, NEW v \in Word,
               s + n - 1 <= BlockWords,
               LET a == b * BlockWords + s - 1
               IN  call' = [NorRest EXCEPT !.at = "command", !.op = "program",
                              !.from = a, !.pos = a, !.end = a + n, !.v = v,
                              !.clean = Clean(a, n, v)]
        PROVE  NorInv'
    <3> DEFINE a == b * BlockWords + s - 1
               g == a + n
    <3>a. call' = [NorRest EXCEPT !.at = "command", !.op = "program",
                     !.from = a, !.pos = a, !.end = g, !.v = v,
                     !.clean = Clean(a, n, v)]
      BY <2>4
    <3>1. /\ a = f + s - 1 /\ g = f + s - 1 + n
          /\ a \in Nat /\ g \in Nat /\ a < g
      <4>1. f + s - 1 \in Nat /\ f + s - 1 + n \in Nat /\ f + s - 1 < f + s - 1 + n
        OBVIOUS
      <4> QED BY <2>2, <4>1
    <3> HIDE DEF a, g
    <3>2. g <= NorBlocks * BlockWords
      BY <2>2, <2>4, <3>1
    <3>3. PICK z \in BOOLEAN : z = Clean(a, n, v)
      BY DEF Clean
    <3>4. call' = [at |-> "command", op |-> "program", from |-> a, pos |-> a, end |-> g,
                   v |-> v, polls |-> 0, res |-> "ok", clean |-> z]
      <4>2. call' = [NorRest EXCEPT !.at = "command", !.op = "program",
                       !.from = a, !.pos = a, !.end = g, !.v = v, !.clean = z]
        BY <3>3, <3>a, Zenon
      <4> QED BY <4>2 DEF NorRest
    <3>5. v \in Value
      BY DEF Value
    <3>6. call' \in CallRec
      BY <3>1, <3>4, <3>5 DEF CallRec, Stage
    <3>7. /\ call'.at = "command" /\ call'.op = "program" /\ call'.pos = a /\ call'.from = a
          /\ call'.end = g /\ call'.v = v /\ call'.clean = z
      BY <3>4
    <3>8. z => \A w \in a .. g - 1 : cells[w] \in {BLANK, v}
      <4>1. z => Clean(a, n, v)
        BY <3>3, Zenon
      <4>2. Clean(a, n, v) => \A w \in a .. g - 1 : cells[w] \in {BLANK, v}
        <5>1. g - 1 = a + n - 1
          BY <3>1 DEF g
        <5> QED BY <5>1, Zenon DEF Clean
      <4> QED BY <4>1, <4>2, Zenon
    <3> QED BY <1>2, <3>1, <3>2, <3>6, <3>7, <3>8
  <2> QED BY <2>1, <2>3, <2>4
<1>3. NorTypeOK'
  BY <1>0, <1>2 DEF NorTypeOK
<1>4. PICK f \in Nat : f = call'.from
  BY <1>2 DEF CallRec
<1>5. Stages'
  BY <1>2, <1>4 DEF Stages, Busy
<1>6. EraseAligned'
  <2> SUFFICES ASSUME call'.op = "erase" PROVE EraseAligned'
    BY DEF EraseAligned
  <2>1. PICK b \in 0 .. NorBlocks - 1 :
          call'.from = b * BlockWords /\ call'.end = (b + 1) * BlockWords
    BY <1>2
  <2>2. SectorLen(f)' = BlockWords \/ (f < BlockWords /\ SectorLen(f)' \in Nat)
    BY DEF SectorLen
  <2>3. f < BlockWords => f = 0
    <3>1. b # 0 => 1 * BlockWords <= b * BlockWords
      BY Monotone
    <3> QED BY <1>4, <2>1, <3>1
  <2>4. \E k \in Nat : f = k * SectorLen(f)'
    <3>1. CASE SectorLen(f)' = BlockWords
      <4>1. b \in Nat /\ f = b * BlockWords
        BY <1>4, <2>1
      <4> QED BY <3>1, <4>1
    <3>2. CASE f = 0 /\ SectorLen(f)' \in Nat
      <4>1. 0 = 0 * SectorLen(f)'
        BY <3>2
      <4> QED BY <3>2, <4>1
    <3> QED BY <2>2, <2>3, <3>1, <3>2
  <2> QED BY <1>2, <1>4, <2>1, <2>4 DEF EraseAligned, SectorLen
<1>7. ReadBackStays'
  BY <1>2, <1>4 DEF ReadBackStays
<1>8. SerialChip'
  BY <1>0, <1>2 DEF SerialChip
<1>9. SerialWords'
  <2>1. f .. f - 1 = {}
    OBVIOUS
  <2> QED BY <1>0, <1>2, <1>4, <2>1 DEF SerialWords
<1>10. DoneIdle' /\ OkIsDone'
  BY <1>2 DEF DoneIdle, OkIsDone
<1> QED BY <1>3, <1>5, <1>6, <1>7, <1>8, <1>9, <1>10 DEF NorInv

\* The NOR driver.
LEMMA AmdKeeps ==
  ASSUME NorInv, AmdErase \/ AmdTimer \/ AmdBlank \/ AmdVerify \/ AmdProgram \/ AmdPoll
  PROVE  NorInv'
<1>0. NorTypeOK /\ Stages /\ EraseAligned
  BY DEF NorInv
<1>1. PICK f \in Nat, p \in Nat, e \in Nat, v \in Value :
        f = call.from /\ p = call.pos /\ e = call.end /\ v = call.v
  BY <1>0 DEF NorTypeOK, CallRec
<1>2. Busy => f <= p /\ p < e /\ e <= NorBlocks * BlockWords /\ p \in Addr
  <2> SUFFICES ASSUME Busy PROVE f <= p /\ p < e /\ e <= NorBlocks * BlockWords /\ p \in Addr
    OBVIOUS
  <2>1. f <= p /\ p < e /\ e <= NorBlocks * BlockWords
    BY <1>0, <1>1 DEF Stages
  <2> QED BY <2>1, NorSizes DEF Addr
<1>3. UNCHANGED <<part, prot, cells>>
  BY DEF AmdErase, AmdTimer, AmdBlank, AmdVerify, AmdProgram, AmdPoll, norChip
<1>4. CASE AmdErase
  <2>1. part = "amd" /\ call.at = "command" /\ call.op = "erase" /\ Busy
    BY <1>4 DEF AmdErase, Busy
  <2>2. CASE FlashReset /\ NorReturn("protect")
    <3>1. call' \in CallRec /\ call'.at = "done" /\ call'.res = "protect" /\ SameCall
      BY <1>0, <2>2, ReturnIs
    <3> QED BY <1>0, <1>3, <2>1, <2>2, <3>1, ResetIs, AmdFails
  <2>3. CASE ChipCommand("erase", call.pos, BLANK) /\ Go("timer")
    <3>1. call' \in CallRec /\ call'.at = "timer" /\ SameCall /\ call'.pos = call.pos
      BY <1>0, <2>3, GoIs DEF Stage
    <3>2. ChipCommand("erase", p, BLANK) /\ BLANK \in Value /\ p \in Addr
      BY <1>1, <1>2, <2>1, <2>3 DEF Value
    <3>3. /\ chipOp' \in ChipOp
          /\ chipOp' = chipOp \/ (chipOp'.op = "erase" /\ chipOp'.pos = p)
      BY <1>0, <3>2, CommandIs
    <3> QED BY <1>1, <1>3, <2>1, <3>1, <3>3, AmdStays
  <2> QED BY <1>4, <2>2, <2>3 DEF AmdErase
<1>5. CASE AmdTimer
  <2>1. call.at = "timer" /\ part = "amd" /\ call.op = "erase" /\ Busy
    BY <1>0, <1>5 DEF AmdTimer, Stages, Busy
  <2>2. CASE Go("blank") /\ UNCHANGED chipOp
    <3>1. call' \in CallRec /\ call'.at = "blank" /\ SameCall /\ call'.pos = call.pos
      BY <1>0, <2>2, GoIs DEF Stage
    <3>2. chipOp' \in ChipOp
      BY <1>0, <2>2 DEF NorTypeOK
    <3> QED BY <1>3, <2>1, <2>2, <3>1, <3>2, AmdStays
  <2>3. CASE PollAgain
    BY <1>3, <2>1, <2>3, PollKeeps
  <2> QED BY <1>5, <2>2, <2>3 DEF AmdTimer
<1>6. CASE AmdBlank
  <2>1. call.at = "blank" /\ part = "amd" /\ call.op = "erase" /\ Busy
    BY <1>0, <1>6 DEF AmdBlank, Stages, Busy
  <2>2. CASE Go("verify") /\ UNCHANGED chipOp
    <3>1. call' \in CallRec /\ call'.at = "verify" /\ SameCall /\ call'.pos = call.pos
      BY <1>0, <2>2, GoIs DEF Stage
    <3>2. chipOp' \in ChipOp
      BY <1>0, <2>2 DEF NorTypeOK
    <3> QED BY <1>3, <2>1, <2>2, <3>1, <3>2, AmdStays
  <2>3. CASE PollAgain
    BY <1>3, <2>1, <2>3, PollKeeps
  <2> QED BY <1>6, <2>2, <2>3 DEF AmdBlank
<1>7. CASE AmdVerify
  <2>1. /\ call.at = "verify" /\ part = "amd" /\ call.op = "erase" /\ Busy
        /\ call.v = BLANK /\ UNCHANGED chipOp
    BY <1>0, <1>7 DEF AmdVerify, Stages, Busy
  <2>2. CASE \E a \in SectorOf(call.pos) : ~ReadsAs(a, BLANK)
    <3>1. NorReturn("verify")
      BY <1>7, <2>2 DEF AmdVerify
    <3>2. call' \in CallRec /\ call'.at = "done" /\ call'.res = "verify" /\ SameCall
      BY <1>0, <3>1, ReturnIs
    <3>3. chipOp' \in ChipOp
      BY <1>0, <2>1 DEF NorTypeOK
    <3> QED BY <1>3, <2>1, <3>2, <3>3, AmdFails
  <2>3. CASE \A a \in SectorOf(call.pos) : ReadsAs(a, BLANK)
    <3>1. PICK b \in 0 .. NorBlocks - 1 : f = b * BlockWords /\ e = (b + 1) * BlockWords
      BY <1>0, <1>1, <2>1 DEF EraseAligned
    <3>2. /\ SectorLen(p) \in Nat \ {0} /\ p \in SectorOf(p)
          /\ \A a \in p .. p + SectorLen(p) - 1 :
               a < (b + 1) * BlockWords => a \in SectorOf(p)
          /\ LET n == p + SectorLen(p)
             IN  n < (b + 1) * BlockWords => \E k \in Nat : n = k * SectorLen(n)
      <4>1. \E k \in Nat : p = k * SectorLen(p)
        BY <1>0, <1>1, <2>1 DEF EraseAligned
      <4>2. b * BlockWords <= p /\ p < (b + 1) * BlockWords
        BY <1>2, <2>1, <3>1
      <4>3. part \in {"amd", "m25p"}
        BY <2>1
      <4> QED BY <4>1, <4>2, <4>3, SectorCovers
    <3>3. PICK n \in Nat : n = p + SectorLen(p) /\ p < n
      <4>1. p + SectorLen(p) \in Nat /\ p < p + SectorLen(p)
        BY <3>2
      <4> QED BY <4>1
    <3>4. chipOp.op = "none" /\ \A a \in SectorOf(p) : cells[a] = BLANK
      BY <1>1, <2>3, <3>2 DEF ReadsAs
    <3>5. \A a \in p .. n - 1 : a < e => cells[a] = v
      BY <1>1, <2>1, <3>1, <3>2, <3>3, <3>4
    <3>6. n < e => \E k \in Nat : n = k * SectorLen(n)
      BY <3>1, <3>2, <3>3
    <3>7. IF n < call.end THEN call' = [call EXCEPT !.at = "command", !.pos = n]
          ELSE NorReturn("ok")
      BY <1>1, <1>7, <2>3, <3>3 DEF AmdVerify
    <3> QED BY <1>1, <1>3, <2>1, <3>3, <3>4, <3>5, <3>6, <3>7, AmdAdvances
  <2> QED BY <2>2, <2>3
<1>8. CASE AmdProgram
  <2>1. part = "amd" /\ call.at = "command" /\ call.op = "program" /\ Busy
    BY <1>8 DEF AmdProgram, Busy
  <2>2. ChipCommand("program", p, v) /\ p \in Addr /\ Go("poll")
    BY <1>1, <1>2, <1>8, <2>1 DEF AmdProgram
  <2>3. call' \in CallRec /\ call'.at = "poll" /\ SameCall /\ call'.pos = call.pos
    BY <1>0, <2>2, GoIs DEF Stage
  <2>4. /\ chipOp' \in ChipOp
        /\ chipOp' = chipOp \/ (chipOp'.op = "program" /\ chipOp'.pos = p)
    BY <1>0, <2>2, CommandIs
  <2> QED BY <1>1, <1>3, <2>1, <2>3, <2>4, AmdStays
<1>9. CASE AmdPoll
  <2>1. call.at = "poll" /\ part = "amd" /\ call.op = "program" /\ Busy
    BY <1>0, <1>9 DEF AmdPoll, Stages, Busy
  <2>2. CASE ~ReadsAs(call.pos, call.v)
    <3>1. PollAgain
      BY <1>9, <2>2 DEF AmdPoll
    <3> QED BY <1>3, <2>1, <3>1, PollKeeps
  <2>3. CASE ReadsAs(call.pos, call.v)
    <3>1. PICK n \in Nat : n = p + 1 /\ p < n
      OBVIOUS
    <3>2. chipOp.op = "none" /\ cells[p] = v /\ UNCHANGED chipOp
      BY <1>1, <1>9, <2>3 DEF ReadsAs, AmdPoll
    <3>3. \A a \in p .. n - 1 : cells[a] = v
      <4>1. \A a \in p .. n - 1 : a = p
        BY <3>1
      <4> QED BY <3>2, <4>1
    <3>4. IF n < call.end THEN call' = [call EXCEPT !.at = "command", !.pos = n]
          ELSE NorReturn("ok")
      BY <1>1, <1>9, <2>3, <3>1 DEF AmdPoll
    <3> QED BY <1>1, <1>3, <2>1, <3>1, <3>2, <3>3, <3>4, AmdAdvances
  <2> QED BY <2>2, <2>3
<1> QED BY <1>4, <1>5, <1>6, <1>7, <1>8, <1>9

\* The serial driver.
LEMMA SerialKeeps ==
  ASSUME NorInv, WriteEnable \/ SerialCommand \/ SerialWait
  PROVE  NorInv'
<1>0. NorTypeOK /\ Stages /\ EraseAligned /\ SerialChip /\ SerialWords
  BY DEF NorInv
<1>1. PICK f \in Nat, p \in Nat, e \in Nat, v \in Value :
        f = call.from /\ p = call.pos /\ e = call.end /\ v = call.v
  BY <1>0 DEF NorTypeOK, CallRec
<1>2. /\ part = "m25p" /\ Busy /\ call.op \in {"erase", "program"}
      /\ UNCHANGED <<part, prot, cells>>
  <2>1. part = "m25p" /\ Busy /\ UNCHANGED <<part, prot, cells>>
    BY <1>0 DEF WriteEnable, SerialCommand, SerialWait, norChip, Stages, Busy
  <2>2. call.op \in {"none", "erase", "program"} /\ call.op # "none"
    BY <1>0, <2>1 DEF NorTypeOK, CallRec, Stages
  <2> QED BY <2>1, <2>2
<1>3. /\ f <= p /\ p < e /\ e <= NorBlocks * BlockWords
      /\ p \in Addr
  <2>1. f <= p /\ p < e /\ e <= NorBlocks * BlockWords
    BY <1>0, <1>1, <1>2 DEF Stages
  <2> QED BY <2>1, NorSizes DEF Addr
<1>4. CASE WriteEnable
  <2>1. /\ call.at = "command" /\ chipOp.op = "none" /\ wel' = TRUE /\ UNCHANGED chipOp
        /\ Go("enabled")
    BY <1>4 DEF WriteEnable
  <2>2. call' \in CallRec /\ call'.at = "enabled" /\ SameCall /\ call'.pos = call.pos
    BY <1>0, <2>1, GoIs DEF Stage
  <2>3. NorTypeOK'
    BY <1>0, <1>2, <2>1, <2>2 DEF NorTypeOK
  <2>4. Stages'
    BY <1>0, <1>2, <2>2 DEF Stages, Busy, SameCall
  <2>5. EraseAligned'
    BY <1>0, <1>2, <2>2 DEF EraseAligned, Busy, SameCall, SectorLen
  <2>6. ReadBackStays'
    BY <1>2 DEF ReadBackStays
  <2>7. SerialChip'
    BY <1>2, <2>1, <2>2 DEF SerialChip
  <2>8. SerialWords'
    BY <1>0, <1>2, <2>1, <2>2 DEF SerialWords, SameCall
  <2>9. DoneIdle' /\ OkIsDone'
    BY <2>2 DEF DoneIdle, OkIsDone
  <2> QED BY <2>3, <2>4, <2>5, <2>6, <2>7, <2>8, <2>9 DEF NorInv
<1>5. CASE SerialCommand
  <2>1. call.at = "enabled" /\ ChipCommand(call.op, call.pos, call.v) /\ Go("wip")
    BY <1>5 DEF SerialCommand
  <2>2. call' \in CallRec /\ call'.at = "wip" /\ SameCall /\ call'.pos = call.pos
    BY <1>0, <2>1, GoIs DEF Stage
  <2>3. chipOp.op = "none" /\ wel
    BY <1>0, <1>2, <2>1 DEF SerialChip
  <2>4. PICK o \in {"erase", "program"} : o = call.op
    BY <1>2
  <2>5. chipOp' \in ChipOp /\ chipOp'.op = o /\ chipOp'.pos = p /\ chipOp'.v = v
    <3>1. ChipCommand(o, p, v)
      BY <1>1, <2>1, <2>4
    <3> QED BY <1>0, <1>2, <1>3, <2>3, <3>1, CommandIs
  <2>6. NorTypeOK'
    BY <1>0, <1>2, <2>2, <2>5 DEF NorTypeOK
  <2>7. Stages'
    BY <1>0, <1>2, <2>2 DEF Stages, Busy, SameCall
  <2>8. EraseAligned'
    BY <1>0, <1>2, <2>2 DEF EraseAligned, Busy, SameCall, SectorLen
  <2>9. ReadBackStays'
    BY <1>2 DEF ReadBackStays
  <2>10. SerialChip'
    BY <1>1, <1>2, <2>2, <2>4, <2>5 DEF SerialChip, SameCall
  <2>11. SerialWords'
    <3>1. chipOp'.op # "none"
      BY <2>5
    <3> QED BY <1>0, <1>2, <2>1, <2>2, <3>1 DEF SerialWords, SameCall
  <2>12. DoneIdle' /\ OkIsDone'
    BY <2>2 DEF DoneIdle, OkIsDone
  <2> QED BY <2>6, <2>7, <2>8, <2>9, <2>10, <2>11, <2>12 DEF NorInv
<1>6. CASE SerialWait
  <2>1. call.at = "wip" /\ chipOp.op = "none" /\ UNCHANGED chipOp
    BY <1>6 DEF SerialWait
  <2>2. call.op = "program" /\ call.clean =>
          /\ \A a \in f .. p - 1 : cells[a] = v
          /\ \A a \in p .. e - 1 : cells[a] \in {BLANK, v}
          /\ cells[p] = v
    BY <1>0, <1>1, <1>2, <2>1 DEF SerialWords
  <2>3. CASE call.op = "program" /\ call.pos + 1 < call.end
    <3>1. PICK n \in Nat : n = p + 1
      OBVIOUS
    <3>2. call' = [call EXCEPT !.at = "command", !.pos = n]
      BY <1>1, <1>6, <2>3, <3>1 DEF SerialWait
    <3>3. call' \in CallRec /\ call'.at = "command" /\ SameCall /\ call'.pos = n
      BY <1>0, <3>2, MoveIs
    <3>4. n < e /\ f <= n
      BY <1>1, <1>3, <2>3, <3>1
    <3>5. NorTypeOK'
      BY <1>0, <1>2, <2>1, <3>3 DEF NorTypeOK
    <3>6. Stages'
      BY <1>0, <1>1, <1>2, <3>3, <3>4 DEF Stages, Busy, SameCall
    <3>7. EraseAligned' /\ ReadBackStays'
      BY <1>2, <2>3, <3>3 DEF EraseAligned, ReadBackStays, SameCall
    <3>8. SerialChip'
      BY <2>1, <3>3 DEF SerialChip
    <3>9. call.clean => /\ \A a \in f .. n - 1 : cells[a] = v
                        /\ \A a \in n .. e - 1 : cells[a] \in {BLANK, v}
      <4>1. \A a \in f .. n - 1 : a \in f .. p - 1 \/ a = p
        BY <3>1
      <4>2. \A a \in n .. e - 1 : a \in p .. e - 1
        BY <3>1
      <4> QED BY <2>2, <2>3, <4>1, <4>2
    <3>10. SerialWords'
      BY <1>1, <1>2, <2>3, <3>3, <3>9 DEF SerialWords, SameCall
    <3>11. DoneIdle' /\ OkIsDone'
      BY <3>3 DEF DoneIdle, OkIsDone
    <3> QED BY <3>5, <3>6, <3>7, <3>8, <3>10, <3>11 DEF NorInv
  <2>4. CASE ~(call.op = "program" /\ call.pos + 1 < call.end)
    <3>1. NorReturn("ok")
      BY <1>6, <2>4 DEF SerialWait
    <3>2. call' \in CallRec /\ call'.at = "done" /\ SameCall
      BY <1>0, <3>1, ReturnIs
    <3>3. NorTypeOK'
      BY <1>0, <1>2, <2>1, <3>2 DEF NorTypeOK
    <3>4. Stages'
      BY <1>0, <3>2 DEF Stages, Busy, SameCall
    <3>5. EraseAligned' /\ ReadBackStays'
      BY <3>2 DEF EraseAligned, ReadBackStays, Busy
    <3>6. SerialChip' /\ DoneIdle'
      BY <2>1, <3>2 DEF SerialChip, DoneIdle
    <3>7. SerialWords'
      BY <3>2 DEF SerialWords, Busy
    <3>8. call.clean => \A a \in f .. e - 1 : cells[a] = v
      <4>1. CASE call.op = "program"
        <5>1. \A a \in f .. e - 1 : a \in f .. p - 1 \/ a = p
          BY <1>1, <1>3, <2>4, <4>1
        <5> QED BY <2>2, <4>1, <5>1
      <4>2. CASE call.op = "erase"
        BY <1>0, <1>1, <1>2, <2>1, <4>2 DEF SerialWords, Stages
      <4> QED BY <1>2, <4>1, <4>2
    <3>9. OkIsDone'
      BY <1>1, <1>2, <3>2, <3>8 DEF OkIsDone, SameCall
    <3> QED BY <3>3, <3>4, <3>5, <3>6, <3>7, <3>9 DEF NorInv
  <2> QED BY <2>3, <2>4
<1> QED BY <1>4, <1>5, <1>6

\* The chip finishes what it is doing.
LEMMA ChipDoneKeeps ==
  ASSUME NorInv, ChipDone
  PROVE  NorInv'
<1>0. /\ NorTypeOK /\ Stages /\ EraseAligned /\ ReadBackStays /\ SerialChip /\ SerialWords
      /\ DoneIdle
  BY DEF NorInv
<1>1. /\ UNCHANGED <<part, prot, call>> /\ chipOp' = NoOp
      /\ chipOp.op \in {"erase", "program"}
  BY DEF ChipDone
<1>2. PICK f \in Nat, p \in Nat, e \in Nat, v \in Value :
        f = call.from /\ p = call.pos /\ e = call.end /\ v = call.v
  BY <1>0 DEF NorTypeOK, CallRec
<1>3. PICK q \in Addr, w \in Value : q = chipOp.pos /\ w = chipOp.v
  BY <1>0 DEF NorTypeOK, ChipOp
<1>4. NoOp \in ChipOp /\ NoOp.op = "none"
  BY NorSizes DEF NoOp, ChipOp, Value
<1>5. chipOp.op = "program" => /\ cells' = [cells EXCEPT ![q] = Cleared(cells[q], w)]
                               /\ cells'[q] = Cleared(cells[q], w)
                               /\ \A a \in Addr : a # q => cells'[a] = cells[a]
  BY <1>0, <1>3 DEF ChipDone, NorTypeOK
<1>6. chipOp.op = "erase" =>
        /\ cells' = [a \in Addr |-> IF a \in SectorOf(q) THEN BLANK ELSE cells[a]]
        /\ \A a \in Addr : cells'[a] = IF a \in SectorOf(q) THEN BLANK ELSE cells[a]
  BY <1>3 DEF ChipDone
<1>7. cells' \in [Addr -> Value]
  <2>1. Cleared(cells[q], w) \in Value /\ BLANK \in Value /\ cells \in [Addr -> Value]
    BY <1>0 DEF Cleared, Value, NorTypeOK
  <2> QED BY <1>1, <1>5, <1>6, <2>1
<1>8. NorTypeOK'
  BY <1>0, <1>1, <1>4, <1>7 DEF NorTypeOK
<1>9. Stages' /\ EraseAligned'
  BY <1>0, <1>1 DEF Stages, EraseAligned, Busy, SectorLen
<1>10. SerialChip' /\ DoneIdle'
  <2>1. ~(part = "m25p" /\ call.at = "enabled")
    BY <1>0, <1>1 DEF SerialChip
  <2>2. chipOp'.op = "none"
    BY <1>1, <1>4
  <2>3. ~(part' = "m25p" /\ call'.at = "enabled")
    BY <1>1, <2>1
  <2> QED BY <2>2, <2>3, Zenon DEF SerialChip, DoneIdle
<1>11. Busy => /\ f <= p /\ p < e /\ e <= NorBlocks * BlockWords
               /\ \A a \in f .. e - 1 : a \in Addr
  <2> SUFFICES ASSUME Busy PROVE /\ f <= p /\ p < e /\ e <= NorBlocks * BlockWords
                                 /\ \A a \in f .. e - 1 : a \in Addr
    OBVIOUS
  <2>1. f <= p /\ p < e /\ e <= NorBlocks * BlockWords
    BY <1>0, <1>2 DEF Stages
  <2> QED BY <2>1, NorSizes DEF Addr
<1>12. ReadBackStays'
  <2> SUFFICES ASSUME part = "amd", Busy, f < p
               PROVE  \A a \in f .. p - 1 : cells'[a] = v
    BY <1>1, <1>2, <1>4 DEF ReadBackStays, Busy
  <2>1. /\ \A a \in f .. p - 1 : cells[a] = v /\ a \in Addr /\ a # p
        /\ q = p /\ chipOp.op \in {call.op, "failed"}
    BY <1>0, <1>1, <1>2, <1>3, <1>11 DEF ReadBackStays
  <2>2. CASE chipOp.op = "program"
    BY <1>5, <2>1, <2>2
  <2>3. CASE chipOp.op = "erase"
    <3>1. v = BLANK
      BY <1>0, <1>2, <2>1, <2>3 DEF Stages
    <3> QED BY <1>6, <2>1, <2>3, <3>1
  <2> QED BY <1>1, <2>2, <2>3
<1>13. SerialWords'
  <2> SUFFICES ASSUME part = "m25p", Busy PROVE SerialWords'
    BY <1>1 DEF SerialWords, Busy
  <2>1. call.at = "wip" /\ chipOp.op = call.op /\ q = p /\ w = v
    BY <1>0, <1>1, <1>2, <1>3 DEF SerialChip
  <2>2. CASE call.op = "program"
    <3>1. SUFFICES ASSUME call.clean
                   PROVE  /\ \A a \in f .. p - 1 : cells'[a] = v
                          /\ \A a \in p .. e - 1 : cells'[a] \in {BLANK, v}
                          /\ cells'[p] = v
      BY <1>1, <1>2, <2>2 DEF SerialWords
    <3>2. /\ \A a \in f .. p - 1 : cells[a] = v
          /\ \A a \in p .. e - 1 : cells[a] \in {BLANK, v}
      BY <1>0, <1>2, <2>2, <3>1 DEF SerialWords
    <3>3. cells[p] \in {BLANK, v}
      BY <1>11, <3>2
    <3>4. cells'[p] = v
      BY <1>5, <2>1, <2>2, <3>3 DEF Cleared
    <3>5. \A a \in f .. e - 1 : a # p => cells'[a] = cells[a]
      BY <1>5, <1>11, <2>1, <2>2
    <3>6. /\ \A a \in f .. p - 1 : a \in f .. e - 1 /\ a # p
          /\ \A a \in p .. e - 1 : a \in f .. e - 1
      BY <1>11
    <3> QED BY <3>2, <3>4, <3>5, <3>6
  <2>3. CASE call.op = "erase"
    <3>1. SUFFICES ASSUME NEW a \in f .. e - 1 PROVE cells'[a] = BLANK
      BY <1>1, <1>2, <2>3 DEF SerialWords
    <3>2. PICK b \in 0 .. NorBlocks - 1 : f = b * BlockWords /\ e = (b + 1) * BlockWords
      BY <1>0, <1>2, <2>3 DEF EraseAligned
    <3>3. /\ \A c \in p .. p + SectorLen(p) - 1 :
               c < (b + 1) * BlockWords => c \in SectorOf(p)
          /\ p = b * BlockWords /\ SectorLen(p) = BlockWords
      <4>1. \E k \in Nat : p = k * SectorLen(p)
        BY <1>0, <1>2, <2>3 DEF EraseAligned
      <4>2. b * BlockWords <= p /\ p < (b + 1) * BlockWords
        BY <1>11, <3>2
      <4>3. part \in {"amd", "m25p"}
        OBVIOUS
      <4> QED BY <4>1, <4>2, <4>3, SectorCovers
    <3>4. a < (b + 1) * BlockWords /\ a \in p .. p + SectorLen(p) - 1
      BY <3>2, <3>3, BlockEnd, NorSizes
    <3>5. a \in SectorOf(q) /\ a \in Addr
      BY <1>11, <2>1, <3>3, <3>4
    <3> QED BY <1>6, <2>1, <2>3, <3>5
  <2> QED BY <1>1, <2>1, <2>2, <2>3
<1>14. OkIsDone'
  BY <1>0, <1>1 DEF OkIsDone, DoneIdle
<1> QED BY <1>8, <1>9, <1>10, <1>12, <1>13, <1>14 DEF NorInv

\* The chip fails; no serial chip does.
LEMMA ChipFailsKeeps ==
  ASSUME NorInv, ChipFails
  PROVE  NorInv'
<1>0. NorTypeOK /\ Stages /\ EraseAligned /\ ReadBackStays /\ DoneIdle
  BY DEF NorInv
<1>1. PICK q \in Addr, w \in Value, o \in {chipOp.op} : chipOp = [op |-> o, pos |-> q, v |-> w]
  BY <1>0 DEF NorTypeOK, ChipOp
<1>2. /\ UNCHANGED <<part, prot, call>> /\ part = "amd" /\ chipOp.op \in {"erase", "program"}
      /\ cells' = [cells EXCEPT ![q] = MIXED]
      /\ chipOp' = [op |-> "failed", pos |-> q, v |-> w]
  BY <1>1 DEF ChipFails
<1>3. chipOp' \in ChipOp /\ chipOp'.op = "failed" /\ chipOp'.pos = q /\ chipOp.pos = q
  BY <1>1, <1>2 DEF ChipOp
<1>4. /\ cells' \in [Addr -> Value]
      /\ \A a \in Addr : a # q => cells'[a] = cells[a]
  <2>1. MIXED \in Value /\ cells \in [Addr -> Value]
    BY <1>0 DEF Value, NorTypeOK
  <2> QED BY <1>2, <2>1
<1>5. NorTypeOK'
  BY <1>0, <1>2, <1>3, <1>4 DEF NorTypeOK
<1>6. Stages' /\ EraseAligned'
  BY <1>0, <1>2 DEF Stages, EraseAligned, Busy, SectorLen
<1>7. SerialChip' /\ SerialWords'
  BY <1>2 DEF SerialChip, SerialWords
<1>8. ReadBackStays'
  <2>1. PICK f \in Nat, p \in Nat, e \in Nat, v \in Value :
          f = call.from /\ p = call.pos /\ e = call.end /\ v = call.v
    BY <1>0 DEF NorTypeOK, CallRec
  <2> SUFFICES ASSUME Busy, f < p
               PROVE  (\A a \in f .. p - 1 : cells'[a] = v) /\ q = p
    BY <1>2, <1>3, <2>1 DEF ReadBackStays, Busy
  <2>2. (\A a \in f .. p - 1 : cells[a] = v) /\ q = p
    BY <1>0, <1>2, <1>3, <2>1 DEF ReadBackStays
  <2>3. p < e /\ e <= NorBlocks * BlockWords
    BY <1>0, <2>1 DEF Stages
  <2>4. \A a \in f .. p - 1 : a \in Addr /\ a # p
    BY <2>3, NorSizes DEF Addr
  <2> QED BY <1>4, <2>2, <2>4
<1>9. DoneIdle' /\ OkIsDone'
  BY <1>0, <1>2 DEF DoneIdle, OkIsDone
<1> QED BY <1>5, <1>6, <1>7, <1>8, <1>9 DEF NorInv

\* An erase or a program that reports success has done what it was asked for,
\* whatever timed out or failed before and whatever the chip was still busy
\* with (flash_amd_erase_block, flash_amd_program, m25p20_program): OkIsDone for
\* every size of the chip, its blocks and its boot sectors.
THEOREM OkAlwaysDone == NorSpec => []OkIsDone
<1>1. NorInit => NorInv
  <2> SUFFICES ASSUME NorInit PROVE NorInv
    OBVIOUS
  <2> USE NorSizes
  <2>1. BLANK \in Value /\ {BLANK, MIXED} \subseteq Value
    BY DEF Value
  <2>2. chipOp \in ChipOp /\ chipOp.op = "none"
    BY <2>1 DEF NorInit, NoOp, ChipOp
  <2>3. call \in CallRec /\ call.at = "idle" /\ call.op = "none"
    BY <2>1 DEF NorInit, NorRest, CallRec, Stage
  <2>4. cells \in [Addr -> Value]
    BY <2>1 DEF NorInit
  <2>5. /\ prot \subseteq Addr
        /\ part = "m25p" => prot = {}
        /\ part \in {"amd", "m25p"}
    BY DEF NorInit, SectorOf
  <2>6. NorTypeOK
    BY <2>2, <2>3, <2>4, <2>5 DEF NorTypeOK
  <2>7. Stages /\ EraseAligned /\ ReadBackStays
    BY <2>3 DEF Stages, EraseAligned, ReadBackStays, Busy
  <2>8. SerialChip /\ SerialWords
    BY <2>2, <2>3 DEF SerialChip, SerialWords, Busy
  <2>9. DoneIdle /\ OkIsDone
    BY <2>3 DEF DoneIdle, OkIsDone
  <2> QED BY <2>6, <2>7, <2>8, <2>9 DEF NorInv
<1>2. NorInv /\ [NorNext]_norVars => NorInv'
  <2> SUFFICES ASSUME NorInv, [NorNext]_norVars PROVE NorInv'
    OBVIOUS
  <2>1. CASE UNCHANGED norVars
    <3>1. NorTypeOK' /\ Stages' /\ EraseAligned'
      BY <2>1 DEF norVars, NorInv, NorTypeOK, Stages, EraseAligned, Busy, SectorLen
    <3>2. ReadBackStays' /\ SerialChip' /\ SerialWords'
      BY <2>1 DEF norVars, NorInv, ReadBackStays, SerialChip, SerialWords, Busy
    <3>3. DoneIdle' /\ OkIsDone'
      BY <2>1 DEF norVars, NorInv, DoneIdle, OkIsDone
    <3> QED BY <3>1, <3>2, <3>3 DEF NorInv
  <2>2. CASE NorNext
    BY <2>2, ChipDoneKeeps, ChipFailsKeeps, NorCallKeeps, AmdKeeps, SerialKeeps DEF NorNext
  <2> QED BY <2>1, <2>2
<1>3. NorInv => OkIsDone
  BY DEF NorInv
<1> QED BY <1>1, <1>2, <1>3, PTL DEF NorSpec

-----------------------------------------------------------------------------
(* Raid: the array                                                          *)

\* The members are numbered in the order of their ports, and requests are for
\* whole Kbytes.
Usual == Number = <<0, 1>> /\ ~Unaligned

Disks == [Port -> [events : Nat, data : [Sector -> Nat]]]

RaidTypeOK ==
  /\ level \in {"RAID1", "LINEAR"} /\ flaky \in Port
  /\ disk \in Disks /\ sbUpdate \in BOOLEAN /\ count \in Nat
  /\ last \in [Address(level) -> SUBSET (0 .. count)]

\* The disk that is never missing.
Steady == 3 - flaky

Level(d) == disk[d].events = disk[3 - d].events

\* The disk that is never missing is never behind, both are in the array only
\* when neither is, and a member alone has outrun the other one before its
\* first write is over.
Members ==
  /\ disk[Steady].events >= disk[flaky].events
  /\ level = "LINEAR" => Level(1) /\ array \in {<<>>, <<1, 2>>}
  /\ array \in {<<>>, <<Steady>>, <<1, 2>>}
  /\ array = <<1, 2>> => Level(1)
  /\ array = <<Steady>> /\ sbUpdate /\ todo = <<>> => ~Level(1)

\* The copies that a boot may choose hold one of the writes that count.
Copies ==
  IF level = "RAID1"
  THEN \A s \in Sector : /\ disk[Steady].data[s] \in last[s]
                         /\ Level(1) => disk[flaky].data[s] \in last[s]
  ELSE \A s \in Sector : /\ disk[1].data[s] \in last[s]
                         /\ disk[2].data[s] \in last[s + 2 * Blocks]

\* What is left of the request for the n sectors at a.
LeftOf(a, n) ==
  IF level = "RAID1"
  THEN \/ array = <<Steady>> /\ todo = <<Super(Steady), Part(Steady, a, n)>>
       \/ array = <<Steady>> /\ todo = <<Part(Steady, a, n)>> /\ ~Level(1)
       \/ array = <<1, 2>> /\ todo = <<Part(1, a, n), Part(2, a, n)>>
       \/ /\ array = <<1, 2>> /\ todo = <<Part(2, a, n)>>
          /\ \A s \in Sector : s \in a .. a + n - 1 => disk[1].data[s] = count
  ELSE LET c == 2 * Blocks - a
       IN  \/ a + n <= 2 * Blocks /\ todo = <<Part(1, a, n)>>
           \/ a >= 2 * Blocks /\ todo = <<Part(2, a - 2 * Blocks, n)>>
           \/ /\ c \in 1 .. n - 1
              /\ \/ todo = <<Part(1, a, c), Part(2, 0, n - c)>>
                 \/ /\ todo = <<Part(2, 0, n - c)>>
                    /\ \A s \in Sector : s >= a => disk[1].data[s] = count

\* The request in progress: its number is where it is being written, and
\* nowhere else.
Working ==
  \/ todo = <<>>
  \/ /\ array # <<>>
     /\ \E a \in Nat, n \in Nat \ {0} :
          /\ LeftOf(a, n)
          /\ a + n - 1 \in Address(level)
          /\ \A s \in Address(level) : count \in last[s] <=> s \in a .. a + n - 1

RaidInv == RaidTypeOK /\ Members /\ Copies /\ Working

\* Members of an array, and their number.
LEMMA Tuples ==
  ASSUME NEW d, NEW e
  PROVE  /\ <<d>> # <<1, 2>> /\ <<d>> # <<>> /\ <<1, 2>> # <<>>
         /\ Len(<<d>>) = 1 /\ Len(<<d, e>>) = 2
         /\ <<d>>[1] = d /\ <<d, e>>[1] = d /\ <<d, e>>[2] = e
         /\ Tail(<<d>>) = <<>> /\ Tail(<<d, e>>) = <<e>>
<1>1. Len(<<d>>) = 1 /\ Len(<<1, 2>>) = 2 /\ Len(<<>>) = 0 /\ Len(<<d, e>>) = 2
  OBVIOUS
<1>2. <<d>>[1] = d /\ <<d, e>>[1] = d /\ <<d, e>>[2] = e
  OBVIOUS
<1>3. Tail(<<d>>) = <<>> /\ Tail(<<d, e>>) = <<e>>
  OBVIOUS
<1>4. <<d>> # <<1, 2>> /\ <<d>> # <<>> /\ <<1, 2>> # <<>>
  BY <1>1
<1> QED BY <1>1, <1>2, <1>3, <1>4

\* The two disks.
LEMMA TwoDisks ==
  ASSUME flaky \in Port
  PROVE  /\ Steady \in Port /\ Steady # flaky /\ Port \ {flaky} = {Steady}
         /\ \A d \in Port : d = Steady \/ d = flaky
         /\ Level(1) <=> disk[Steady].events = disk[flaky].events
BY DEF Port, Steady, Level

\* The sectors of a member are sectors of the array; a linear array has twice
\* as many.
LEMMA Sectors ==
  /\ Blocks \in Nat \ {0}
  /\ Sector \subseteq Nat
  /\ \A x \in Nat : x \in Sector <=> x < 2 * Blocks
  /\ Address("RAID1") = Sector
  /\ Address("LINEAR") \subseteq Nat
  /\ \A x \in Nat : x \in Address("LINEAR") <=> x < 4 * Blocks
BY RaidAssumption DEF Sector, Address

\* The disks after a write of the superblock of d, or of the sectors R of d.
Stamped(D, d) == [D EXCEPT ![d].events = @ + 2]
StoredOn(D, d, R, c) ==
  [D EXCEPT ![d].data = [s \in Sector |-> IF s \in R THEN c ELSE @[s]]]

\* A superblock is written.
LEMMA SuperWritten ==
  ASSUME NEW D \in Disks, NEW d \in Port, NEW E, E = Stamped(D, d)
  PROVE  /\ E \in Disks /\ E[d].events = D[d].events + 2 /\ E[d].data = D[d].data
         /\ \A e \in Port : e # d => E[e] = D[e]
<1>1. PICK r \in [events : Nat, data : [Sector -> Nat]] : r = D[d]
  BY DEF Disks
<1>2. PICK q : q = [r EXCEPT !.events = r.events + 2]
  OBVIOUS
<1>3. q \in [events : Nat, data : [Sector -> Nat]] /\ q.events = r.events + 2 /\ q.data = r.data
  BY <1>2
<1>4. E = [D EXCEPT ![d] = q]
  BY <1>1, <1>2 DEF Stamped
<1> QED BY <1>1, <1>3, <1>4 DEF Disks

\* Sectors are written.
LEMMA DataWritten ==
  ASSUME NEW D \in Disks, NEW d \in Port, NEW R, NEW c \in Nat,
         NEW E, E = StoredOn(D, d, R, c)
  PROVE  /\ E \in Disks /\ \A e \in Port : E[e].events = D[e].events
         /\ \A s \in Sector : E[d].data[s] = IF s \in R THEN c ELSE D[d].data[s]
         /\ \A e \in Port : e # d => E[e] = D[e]
<1>1. PICK r \in [events : Nat, data : [Sector -> Nat]] : r = D[d]
  BY DEF Disks
<1>2. PICK x : x = [s \in Sector |-> IF s \in R THEN c ELSE r.data[s]]
  OBVIOUS
<1>3. x \in [Sector -> Nat]
  BY <1>1, <1>2
<1>4. PICK q : q = [r EXCEPT !.data = x]
  OBVIOUS
<1>5. q \in [events : Nat, data : [Sector -> Nat]] /\ q.events = r.events /\ q.data = x
  BY <1>3, <1>4
<1>6. E = [D EXCEPT ![d] = q]
  BY <1>1, <1>2, <1>4 DEF StoredOn
<1> QED BY <1>1, <1>2, <1>5, <1>6 DEF Disks

\* Power fails or the system restarts: raid_init takes the copies that count.
LEMMA RebootKeeps ==
  ASSUME Usual, RaidInv, Reboot
  PROVE  RaidInv'
<1>0. RaidTypeOK /\ Members /\ Copies
  BY DEF RaidInv
<1>1. PICK S \in {Port, Port \ {flaky}} : RaidBoot(S)
  BY DEF Reboot
<1>2. /\ UNCHANGED <<level, flaky, disk, count, last>> /\ array' = Assemble(S)
      /\ sbUpdate' = FALSE /\ todo' = <<>>
  BY <1>1 DEF RaidBoot
<1>3. /\ Steady \in Port /\ Steady # flaky /\ Port \ {flaky} = {Steady}
      /\ Level(1) <=> disk[Steady].events = disk[flaky].events
  BY <1>0, TwoDisks DEF RaidTypeOK
<1>4. PICK x \in Nat, y \in Nat : x = disk[1].events /\ y = disk[2].events
  BY <1>0 DEF RaidTypeOK, Disks, Port
<1>5. Level(1) <=> x = y
  BY <1>4 DEF Level
<1>6. Steady = 1 => x >= y
  BY <1>0, <1>4 DEF Members, Steady, RaidTypeOK, Port
<1>7. Steady = 2 => y >= x
  BY <1>0, <1>4 DEF Members, Steady, RaidTypeOK, Port
<1>8. Import(1, 2) = IF x > y THEN <<1>> ELSE IF x < y THEN <<2>> ELSE <<1, 2>>
  BY <1>4 DEF Import, Usual
<1>9. CASE S = Port
  <2>1. array' = Import(1, 2)
    BY <1>2, <1>9 DEF Assemble
  <2>2. \/ x = y /\ array' = <<1, 2>>
        \/ x # y /\ array' = <<Steady>>
    BY <1>3, <1>4, <1>6, <1>7, <1>8, <2>1 DEF Port
  <2>3. level = "LINEAR" => x = y
    BY <1>0, <1>5 DEF Members
  <2>a. Level(1)' <=> x = y
    BY <1>2, <1>4 DEF Level
  <2>4. Members'
    <3>1. Steady' = Steady /\ <<Steady>> # <<1, 2>> /\ <<Steady>> # <<>> /\ <<1, 2>> # <<>>
      BY <1>2, Tuples DEF Steady
    <3>2. CASE x = y /\ array' = <<1, 2>>
      BY <1>0, <1>2, <2>a, <3>1, <3>2 DEF Members
    <3>3. CASE x # y /\ array' = <<Steady>>
      BY <1>0, <1>2, <2>a, <2>3, <3>1, <3>3 DEF Members, RaidTypeOK
    <3> QED BY <2>2, <3>2, <3>3
  <2>5. RaidTypeOK' /\ Copies' /\ Working'
    BY <1>0, <1>2 DEF RaidTypeOK, Copies, Working, Level, Steady
  <2> QED BY <2>4, <2>5 DEF RaidInv
<1>10. CASE S = Port \ {flaky}
  <2>1. S # Port /\ S = {Steady}
    BY <1>0, <1>3, <1>10 DEF RaidTypeOK
  <2>2. array' = IF level = "RAID1" THEN <<Steady>> ELSE <<>>
    BY <1>2, <2>1 DEF Assemble
  <2>3. Members'
    BY <1>0, <1>2, <2>2 DEF Members, Level, Steady, RaidTypeOK
  <2>4. RaidTypeOK' /\ Copies' /\ Working'
    BY <1>0, <1>2 DEF RaidTypeOK, Copies, Working, Level, Steady
  <2> QED BY <2>3, <2>4 DEF RaidInv
<1> QED BY <1>1, <1>9, <1>10

\* A sector 0 that stays in memory only counts.
LEMMA MbrKeeps ==
  ASSUME RaidInv, MbrWrite
  PROVE  RaidInv'
<1>0. RaidTypeOK /\ Members /\ Copies
  BY DEF RaidInv
<1>1. /\ UNCHANGED <<level, flaky, disk, array, sbUpdate, todo, last>>
      /\ count' = count + 1 /\ todo = <<>>
  BY DEF MbrWrite
<1>2. count' \in Nat /\ 0 .. count \subseteq 0 .. count'
  BY <1>0, <1>1 DEF RaidTypeOK
<1>3. RaidTypeOK'
  BY <1>0, <1>1, <1>2 DEF RaidTypeOK
<1>4. Members' /\ Copies' /\ Working'
  BY <1>0, <1>1 DEF Members, Copies, Working, Level, Steady
<1> QED BY <1>3, <1>4 DEF RaidInv

\* The kernel brings the member that is behind up to date.
LEMMA ResyncKeeps ==
  ASSUME RaidInv, Resync
  PROVE  RaidInv'
<1>0. RaidTypeOK /\ Members /\ Copies
  BY DEF RaidInv
<1>1. /\ UNCHANGED <<level, flaky, sbUpdate, todo, count, last>> /\ array' = <<>>
      /\ level = "RAID1" /\ todo = <<>> /\ disk[1].events # disk[2].events
      /\ disk' = [d \in Port |->
                    disk[IF disk[1].events > disk[2].events THEN 1 ELSE 2]]
  BY DEF Resync
<1>2. PICK x \in Nat, y \in Nat : x = disk[1].events /\ y = disk[2].events
  BY <1>0 DEF RaidTypeOK, Disks, Port
<1>3. (IF x > y THEN 1 ELSE 2) = Steady
  BY <1>0, <1>1, <1>2 DEF Members, Steady, RaidTypeOK, Port
<1>4. disk' = [d \in Port |-> disk[Steady]]
  BY <1>1, <1>2, <1>3
<1>5. Steady \in Port /\ flaky \in Port /\ Steady' = Steady /\ flaky' = flaky
  BY <1>0, <1>1, TwoDisks DEF RaidTypeOK, Steady
<1>6. disk' \in Disks /\ disk'[Steady] = disk[Steady] /\ disk'[flaky] = disk[Steady]
  BY <1>0, <1>4, <1>5 DEF RaidTypeOK, Disks
<1>7. RaidTypeOK'
  BY <1>0, <1>1, <1>6 DEF RaidTypeOK
<1>8. PICK z \in Nat : z = disk[Steady].events
  BY <1>0, <1>5 DEF RaidTypeOK, Disks
<1>9. Members'
  BY <1>1, <1>5, <1>6, <1>8 DEF Members
<1>10. Copies'
  BY <1>0, <1>1, <1>5, <1>6 DEF Copies
<1>11. Working'
  BY <1>1 DEF Working
<1> QED BY <1>7, <1>9, <1>10, <1>11 DEF RaidInv

\* Short sequences put together.
LEMMA Joined ==
  ASSUME NEW x, NEW y
  PROVE  <<>> \o <<y>> = <<y>> /\ <<>> \o <<x, y>> = <<x, y>> /\ <<x>> \o <<y>> = <<x, y>>
<1>1. PICK T : T = {x, y}
  OBVIOUS
<1>2. /\ <<y>> \in Seq(T) /\ <<x>> \in Seq(T) /\ <<x, y>> \in Seq(T)
  BY <1>1
<1>3. <<>> \o <<y>> = <<y>> /\ <<>> \o <<x, y>> = <<x, y>>
  BY <1>2, ConcatEmptySeq
<1>4. /\ <<x>> \o <<y>> \in Seq(T) /\ Len(<<x>> \o <<y>>) = 2
      /\ (<<x>> \o <<y>>)[1] = x /\ (<<x>> \o <<y>>)[2] = y
  BY <1>2
<1>5. <<x>> \o <<y>> = <<x, y>>
  <2>1. PICK s \in Seq(T), t \in Seq(T) : s = <<x>> \o <<y>> /\ t = <<x, y>>
    BY <1>2, <1>4
  <2>2. /\ Len(s) = 2 /\ Len(t) = 2 /\ s[1] = x /\ s[2] = y /\ t[1] = x /\ t[2] = y
    BY <1>4, <2>1, Tuples
  <2>3. \A i \in 1 .. 2 : i = 1 \/ i = 2
    OBVIOUS
  <2>4. s = t
    BY <2>2, <2>3, SeqEqual
  <2> QED BY <2>1, <2>4
<1> QED BY <1>3, <1>5

\* One piece for each member of the array.
LEMMA OnEach ==
  ASSUME NEW a, NEW n, NEW d, NEW e
  PROVE  /\ [i \in DOMAIN <<d>> |-> Part(<<d>>[i], a, n)] = <<Part(d, a, n)>>
         /\ [i \in DOMAIN <<d, e>> |-> Part(<<d, e>>[i], a, n)]
              = <<Part(d, a, n), Part(e, a, n)>>
OBVIOUS

\* A write request begins: its number may be read where it will be written.
LEMMA MdWriteKeeps ==
  ASSUME Usual, RaidInv, MdWrite
  PROVE  RaidInv'
<1>0. RaidTypeOK /\ Members /\ Copies
  BY DEF RaidInv
<1>1. PICK r \in Request :
        /\ todo' = IF level = "RAID1" THEN Raid1Write(r[1], r[2]) ELSE Linear(r[1], r[2])
        /\ last' = [s \in DOMAIN last |->
                      IF s \in r[1] .. r[1] + r[2] - 1
                      THEN last[s] \cup {count + 1} ELSE last[s]]
  BY DEF MdWrite
<1>2. /\ array # <<>> /\ todo = <<>> /\ count' = count + 1
      /\ sbUpdate' = (sbUpdate \/ level = "RAID1")
      /\ UNCHANGED <<level, flaky, disk, array>>
  BY DEF MdWrite
<1>3. PICK a \in Nat, n \in Nat \ {0} :
        /\ a = r[1] /\ n = r[2] /\ a \in Address(level) /\ a + n - 1 \in Address(level)
        /\ a % 2 = 0 /\ n % 2 = 0
  <2>1. /\ r[1] \in Address(level) /\ r[2] \in 1 .. 4 * Blocks
        /\ r[1] + r[2] - 1 \in Address(level) /\ r[1] % 2 = 0 /\ r[2] % 2 = 0
    BY DEF Request, Usual
  <2>2. Address(level) \subseteq Nat /\ 1 .. 4 * Blocks \subseteq Nat \ {0}
    <3>1. level = "RAID1" \/ level = "LINEAR"
      BY <1>0 DEF RaidTypeOK
    <3>2. Address("RAID1") \subseteq Nat /\ Address("LINEAR") \subseteq Nat
      BY Sectors
    <3>3. 1 .. 4 * Blocks \subseteq Nat \ {0}
      BY Sectors
    <3> QED BY <3>1, <3>2, <3>3
  <2> QED BY <2>1, <2>2
<1>4. PICK c \in Nat : c = count
  BY <1>0 DEF RaidTypeOK
<1>5. last' = [s \in Address(level) |->
                 IF s \in a .. a + n - 1 THEN last[s] \cup {c + 1} ELSE last[s]]
  BY <1>0, <1>1, <1>3, <1>4 DEF RaidTypeOK
<1>6. /\ last' \in [Address(level) -> SUBSET (0 .. c + 1)]
      /\ \A s \in Address(level) : /\ last[s] \subseteq last'[s]
                                   /\ c + 1 \in last'[s] <=> s \in a .. a + n - 1
  <2>1. \A s \in Address(level) : /\ last[s] \subseteq 0 .. c + 1 /\ c + 1 \notin last[s]
                                  /\ last[s] \cup {c + 1} \subseteq 0 .. c + 1
    BY <1>0, <1>4 DEF RaidTypeOK
  <2> QED BY <1>5, <2>1
<1>7. RaidTypeOK'
  BY <1>0, <1>2, <1>4, <1>6 DEF RaidTypeOK
<1>8. Copies'
  <2>1. CASE level = "RAID1"
    BY <1>0, <1>2, <1>6, <2>1, Sectors DEF Copies, Level, Steady
  <2>2. CASE level = "LINEAR"
    <3>1. \A s \in Sector : s \in Address(level) /\ s + 2 * Blocks \in Address(level)
      BY <2>2, Sectors
    <3> QED BY <1>0, <1>2, <1>6, <2>2, <3>1 DEF Copies
  <2> QED BY <1>0, <2>1, <2>2 DEF RaidTypeOK
<1>9. todo' # <<>> /\ LeftOf(a, n)'
  <2>1. CASE level = "RAID1"
    <3>1. todo' = (IF ~sbUpdate /\ Len(array) = 1 THEN <<Super(array[1])>> ELSE <<>>)
                    \o [i \in DOMAIN array |-> Part(array[i], a, n)]
      BY <1>1, <1>3, <2>1 DEF Raid1Write
    <3>2. Steady' = Steady /\ (Level(1)' <=> Level(1))
      BY <1>2 DEF Steady, Level
    <3>3. CASE array = <<Steady>> /\ ~sbUpdate
      <4>1. todo' = <<Super(Steady), Part(Steady, a, n)>>
        <5>1. Len(array) = 1 /\ array[1] = Steady
          BY <3>3, Tuples
        <5>2. PICK g, x, y : g = Steady /\ x = Super(g) /\ y = Part(g, a, n)
          OBVIOUS
        <5>3. [i \in DOMAIN <<g>> |-> Part(<<g>>[i], a, n)] = <<y>>
          BY <5>2, OnEach
        <5>4. todo' = <<x>> \o <<y>>
          BY <3>1, <3>3, <5>1, <5>2, <5>3
        <5> QED BY <5>2, <5>4, Joined
      <4>2. todo' # <<>>
        BY <4>1
      <4> QED BY <1>2, <2>1, <3>2, <3>3, <4>1, <4>2 DEF LeftOf
    <3>4. CASE array = <<Steady>> /\ sbUpdate
      <4>1. todo' = <<Part(Steady, a, n)>>
        <5>1. PICK g, y : g = Steady /\ y = Part(g, a, n)
          OBVIOUS
        <5>2. [i \in DOMAIN <<g>> |-> Part(<<g>>[i], a, n)] = <<y>>
          BY <5>1, OnEach
        <5>3. todo' = <<>> \o <<y>>
          BY <3>1, <3>4, <5>1, <5>2
        <5> QED BY <5>1, <5>3, Joined
      <4>2. ~Level(1)
        BY <1>0, <1>2, <3>4 DEF Members
      <4>3. todo' # <<>>
        BY <4>1
      <4> QED BY <1>2, <2>1, <3>2, <3>4, <4>1, <4>2, <4>3 DEF LeftOf
    <3>5. CASE array = <<1, 2>>
      <4>1. todo' = <<Part(1, a, n), Part(2, a, n)>>
        <5>1. Len(array) # 1
          BY <3>5, Tuples
        <5>2. PICK x, y : x = Part(1, a, n) /\ y = Part(2, a, n)
          OBVIOUS
        <5>3. [i \in DOMAIN <<1, 2>> |-> Part(<<1, 2>>[i], a, n)] = <<x, y>>
          BY <5>2, OnEach
        <5>4. todo' = <<>> \o <<x, y>>
          BY <3>1, <3>5, <5>1, <5>3
        <5> QED BY <5>2, <5>4, Joined
      <4>2. todo' # <<>>
        BY <4>1
      <4> QED BY <1>2, <2>1, <3>5, <4>1, <4>2 DEF LeftOf
    <3> QED BY <1>0, <1>2, <3>3, <3>4, <3>5 DEF Members
  <2>2. CASE level = "LINEAR"
    <3>1. array = <<1, 2>> /\ array[1] = 1 /\ array[2] = 2
      BY <1>0, <1>2, <2>2, Tuples DEF Members
    <3>2. todo' = Linear(a, n)
      BY <1>1, <1>3, <2>2
    <3>3. PICK x \in Nat, y \in Nat : /\ a = 2 * x /\ n = 2 * y
                                      /\ a \div 2 = x /\ n \div 2 = y
      BY <1>3
    <3>4. PICK b \in Nat \ {0} : b = Blocks
      BY Sectors
    <3>5. CASE x + y <= b
      <4>1. todo' = <<Part(1, a, n)>> /\ a + n <= 2 * Blocks
        BY <3>1, <3>2, <3>3, <3>4, <3>5 DEF Linear
      <4> QED BY <1>2, <2>2, <4>1, Tuples DEF LeftOf
    <3>6. CASE ~(x + y <= b) /\ x >= b
      <4>1. todo' = <<Part(2, a - 2 * Blocks, n)>> /\ a >= 2 * Blocks
        BY <3>1, <3>2, <3>3, <3>4, <3>6 DEF Linear
      <4> QED BY <1>2, <2>2, <4>1, Tuples DEF LeftOf
    <3>7. CASE ~(x + y <= b) /\ ~(x >= b)
      <4>1. todo' = <<Part(1, a, 2 * Blocks - a), Part(2, 0, n - (2 * Blocks - a))>>
        BY <3>1, <3>2, <3>3, <3>4, <3>7 DEF Linear
      <4>2. 2 * Blocks - a \in 1 .. n - 1
        BY <3>3, <3>4, <3>7
      <4>3. todo' # <<>>
        BY <4>1
      <4> QED BY <1>2, <2>2, <4>1, <4>2, <4>3 DEF LeftOf
    <3> QED BY <3>5, <3>6, <3>7
  <2> QED BY <1>0, <2>1, <2>2 DEF RaidTypeOK
<1>10. Members'
  BY <1>0, <1>2, <1>9 DEF Members, Level, Steady
<1>11. Working'
  BY <1>2, <1>3, <1>4, <1>6, <1>9 DEF Working
<1> QED BY <1>7, <1>8, <1>10, <1>11 DEF RaidInv

\* The last piece of a request: from now on only its number counts there.
LEMMA Settle ==
  ASSUME NEW A, NEW c \in Nat, NEW l \in [A -> SUBSET (0 .. c)],
         NEW m, m = [s \in DOMAIN l |-> IF c \in l[s] THEN {c} ELSE l[s]]
  PROVE  /\ m \in [A -> SUBSET (0 .. c)]
         /\ \A s \in A : /\ c \in l[s] => m[s] = {c}
                         /\ c \notin l[s] => m[s] = l[s]
<1>1. {c} \subseteq 0 .. c
  OBVIOUS
<1> QED BY <1>1

\* One write to a disk, of a mirror.
LEMMA MirrorWriteKeeps ==
  ASSUME RaidInv, DiskWrite, level = "RAID1"
  PROVE  RaidInv'
<1>0. RaidTypeOK /\ Members /\ Copies /\ Working
  BY DEF RaidInv
<1>1. /\ todo # <<>> /\ UNCHANGED <<level, flaky, array, sbUpdate, count>>
      /\ todo' = Tail(todo)
      /\ disk' = IF todo[1].n = 0 THEN [disk EXCEPT ![todo[1].disk].events = @ + 2]
                 ELSE [disk EXCEPT ![todo[1].disk].data = [s \in Sector |->
                        IF s \in todo[1].at .. todo[1].at + todo[1].n - 1
                        THEN count ELSE @[s]]]
      /\ last' = IF Len(todo) > 1 THEN last
                 ELSE [s \in DOMAIN last |->
                         IF count \in last[s] THEN {count} ELSE last[s]]
  BY DEF DiskWrite
<1>2. PICK a \in Nat, n \in Nat \ {0} :
        /\ LeftOf(a, n) /\ a + n - 1 \in Address(level)
        /\ \A s \in Address(level) : count \in last[s] <=> s \in a .. a + n - 1
  BY <1>0, <1>1 DEF Working
<1>3. Address(level) = Sector /\ level' = "RAID1" /\ Address(level') = Sector
  BY <1>1, Sectors
<1>a. PICK c \in Nat : c = count
  BY <1>0 DEF RaidTypeOK
<1>4. PICK D \in Disks, l \in [Sector -> SUBSET (0 .. c)] :
        D = disk /\ c = count /\ l = last
  BY <1>0, <1>a, <1>3 DEF RaidTypeOK
<1>5. PICK g \in Port, f \in Port :
        /\ g = Steady /\ f = flaky /\ g # f /\ \A d \in Port : d = g \/ d = f
        /\ Level(1) <=> D[g].events = D[f].events
        /\ g = Steady' /\ f = flaky'
  BY <1>0, <1>1, <1>4, TwoDisks DEF RaidTypeOK, Steady
<1>6. Level(1)' <=> disk'[g].events = disk'[f].events
  BY <1>5 DEF Level, Port, Steady
<1>7. /\ D[g].events \in Nat /\ D[f].events \in Nat /\ D[g].events >= D[f].events
      /\ \A s \in Sector : /\ D[g].data[s] \in l[s]
                           /\ Level(1) => D[f].data[s] \in l[s]
      /\ \A s \in Sector : c \in l[s] <=> s \in a .. a + n - 1
  <2>1. D[g].events \in Nat /\ D[f].events \in Nat
    BY DEF Disks
  <2>2. D[g].events >= D[f].events
    BY <1>0, <1>4, <1>5 DEF Members
  <2>3. \A s \in Sector : /\ D[g].data[s] \in l[s]
                          /\ Level(1) => D[f].data[s] \in l[s]
    BY <1>0, <1>4, <1>5 DEF Copies
  <2> QED BY <1>2, <1>3, <1>4, <2>1, <2>2, <2>3
<1>8. PICK m : m = [s \in DOMAIN l |-> IF c \in l[s] THEN {c} ELSE l[s]]
  OBVIOUS
<1>9. /\ m \in [Sector -> SUBSET (0 .. c)]
      /\ \A s \in Sector : /\ c \in l[s] => m[s] = {c}
                           /\ c \notin l[s] => m[s] = l[s]
  BY <1>8, Settle
<1>10. ASSUME disk' \in Disks, last' \in [Sector -> SUBSET (0 .. c)],
                       disk'[g].events >= disk'[f].events,
                       array = <<1, 2>> => Level(1)',
                       todo' = <<>> /\ array = <<g>> => ~Level(1)',
                       \A s \in Sector : /\ disk'[g].data[s] \in last'[s]
                                         /\ Level(1)' => disk'[f].data[s] \in last'[s],
                       todo' # <<>> =>
                         LeftOf(a, n)' /\ array # <<>> /\ last' = l
                PROVE  RaidInv'
  <2>1. RaidTypeOK'
    BY <1>0, <1>1, <1>3, <1>4, <1>10 DEF RaidTypeOK
  <2>2. Members'
    BY <1>0, <1>1, <1>5, <1>10 DEF Members
  <2>3. Copies'
    BY <1>3, <1>5, <1>10 DEF Copies
  <2>4. Working'
    BY <1>1, <1>2, <1>4, <1>10 DEF Working
  <2> QED BY <2>1, <2>2, <2>3, <2>4 DEF RaidInv
<1>11. ASSUME NEW d \in Port, NEW p, Len(todo) = 1 \/ Len(todo) = 2,
              p = todo[1], p = Part(d, a, n)
       PROVE  /\ disk' \in Disks /\ \A e \in Port : disk'[e].events = D[e].events
              /\ \A s \in Sector : disk'[d].data[s] =
                                     IF s \in a .. a + n - 1 THEN c ELSE D[d].data[s]
              /\ \A e \in Port : e # d => disk'[e] = D[e]
              /\ last' = IF Len(todo) = 2 THEN l ELSE m
  <2>1. p.disk = d /\ p.at = a /\ p.n = n /\ p.n # 0
    BY <1>11 DEF Part
  <2>2. PICK R : R = a .. a + n - 1
    OBVIOUS
  <2>3. disk' = StoredOn(D, d, R, c)
    BY <1>1, <1>4, <1>11, <2>1, <2>2 DEF StoredOn
  <2>4. last' = IF Len(todo) = 2 THEN l ELSE m
    <3>1. m = [s \in DOMAIN last |-> IF count \in last[s] THEN {count} ELSE last[s]]
      BY <1>4, <1>8
    <3>2. PICK k \in {1, 2} : k = Len(todo)
      BY <1>11
    <3> QED BY SMTT(30), <1>1, <1>4, <3>1, <3>2
  <2>5. PICK E : E = StoredOn(D, d, R, c)
    OBVIOUS
  <2>6. /\ E \in Disks /\ \A e \in Port : E[e].events = D[e].events
        /\ \A s \in Sector : E[d].data[s] = IF s \in R THEN c ELSE D[d].data[s]
        /\ \A e \in Port : e # d => E[e] = D[e]
    BY <1>a, <1>4, <1>11, <2>5, DataWritten
  <2> QED BY <2>2, <2>3, <2>4, <2>5, <2>6
<1>12. CASE array = <<Steady>> /\ todo = <<Super(Steady), Part(Steady, a, n)>>
  <2>1. PICK x, y : x = Super(g) /\ y = Part(g, a, n) /\ todo = <<x, y>>
    BY <1>5, <1>12
  <2>2. todo[1] = x /\ Len(todo) = 2 /\ Tail(todo) = <<y>>
    BY <2>1, Tuples
  <2>3. x.disk = g /\ x.n = 0
    BY <2>1 DEF Super
  <2>4. PICK E : E = Stamped(D, g)
    OBVIOUS
  <2>5. /\ E \in Disks /\ E[g].events = D[g].events + 2 /\ E[g].data = D[g].data
        /\ \A e \in Port : e # g => E[e] = D[e]
    BY <1>4, <1>5, <2>4, SuperWritten
  <2>6. disk' = E /\ last' = l /\ todo' = <<y>>
    BY <1>1, <1>4, <2>2, <2>3, <2>4 DEF Stamped
  <2>7. disk'[g].events > disk'[f].events /\ ~Level(1)'
    BY <1>5, <1>6, <1>7, <2>5, <2>6
  <2>8. LeftOf(a, n)'
    BY <1>1, <1>3, <1>5, <1>12, <2>1, <2>6, <2>7 DEF LeftOf
  <2>9. array # <<1, 2>> /\ array # <<>> /\ todo' # <<>>
    BY <1>12, <2>6, Tuples
  <2>10. disk'[g].events >= disk'[f].events
    BY <1>5, <1>7, <2>5, <2>6
  <2> QED BY <1>7, <1>10, <2>5, <2>6, <2>7, <2>8, <2>9, <2>10
<1>13. CASE array = <<Steady>> /\ todo = <<Part(Steady, a, n)>> /\ ~Level(1)
  <2>1. PICK y : y = Part(g, a, n) /\ todo = <<y>>
    BY <1>5, <1>13
  <2>2. todo[1] = y /\ Len(todo) = 1 /\ Tail(todo) = <<>>
    BY <2>1, Tuples
  <2>3. /\ disk' \in Disks /\ \A e \in Port : disk'[e].events = D[e].events
        /\ \A s \in Sector : disk'[g].data[s] =
                               IF s \in a .. a + n - 1 THEN c ELSE D[g].data[s]
        /\ last' = m
    BY <1>11, <2>1, <2>2
  <2>4. ~Level(1)' /\ disk'[g].events >= disk'[f].events
    BY <1>5, <1>6, <1>7, <1>13, <2>3
  <2>5. array # <<1, 2>> /\ todo' = <<>>
    BY <1>1, <1>13, <2>2, Tuples
  <2>6. \A s \in Sector : disk'[g].data[s] \in last'[s]
    BY <1>7, <1>9, <2>3
  <2> QED BY <1>9, <1>10, <2>3, <2>4, <2>5, <2>6
<1>14. CASE array = <<1, 2>> /\ todo = <<Part(1, a, n), Part(2, a, n)>>
  <2>1. PICK x, y : x = Part(1, a, n) /\ y = Part(2, a, n) /\ todo = <<x, y>>
    BY <1>14
  <2>2. todo[1] = x /\ Len(todo) = 2 /\ Tail(todo) = <<y>> /\ 1 \in Port
    BY <2>1, Tuples DEF Port
  <2>3. /\ disk' \in Disks /\ \A e \in Port : disk'[e].events = D[e].events
        /\ \A s \in Sector : disk'[1].data[s] =
                               IF s \in a .. a + n - 1 THEN c ELSE D[1].data[s]
        /\ \A e \in Port : e # 1 => disk'[e] = D[e]
        /\ last' = l
    BY <1>11, <2>1, <2>2
  <2>4. Level(1) /\ Level(1)' /\ disk'[g].events >= disk'[f].events
    BY <1>0, <1>5, <1>6, <1>7, <1>14, <2>3 DEF Members
  <2>5. array # <<g>> /\ array # <<>> /\ todo' = <<y>>
    BY <1>1, <1>14, <2>2, Tuples
  <2>6. \A e \in Port, s \in Sector : disk'[e].data[s] \in last'[s]
    <3>1. \A e \in Port, s \in Sector : D[e].data[s] \in l[s]
      BY <1>5, <1>7, <2>4
    <3> QED BY <1>7, <2>2, <2>3, <3>1
  <2>7. LeftOf(a, n)'
    BY <1>1, <1>3, <1>4, <1>14, <2>1, <2>3, <2>5 DEF LeftOf
  <2> QED BY <1>10, <2>3, <2>4, <2>5, <2>6, <2>7
<1>15. CASE /\ array = <<1, 2>> /\ todo = <<Part(2, a, n)>>
            /\ \A s \in Sector : s \in a .. a + n - 1 => disk[1].data[s] = count
  <2>1. PICK y : y = Part(2, a, n) /\ todo = <<y>>
    BY <1>15
  <2>2. todo[1] = y /\ Len(todo) = 1 /\ Tail(todo) = <<>> /\ 2 \in Port /\ 1 \in Port
    BY <2>1, Tuples DEF Port
  <2>3. /\ disk' \in Disks /\ \A e \in Port : disk'[e].events = D[e].events
        /\ \A s \in Sector : disk'[2].data[s] =
                               IF s \in a .. a + n - 1 THEN c ELSE D[2].data[s]
        /\ \A e \in Port : e # 2 => disk'[e] = D[e]
        /\ last' = m
    BY <1>11, <2>1, <2>2
  <2>4. Level(1) /\ Level(1)' /\ disk'[g].events >= disk'[f].events
    BY <1>0, <1>5, <1>6, <1>7, <1>15, <2>3 DEF Members
  <2>5. array # <<g>> /\ todo' = <<>>
    BY <1>1, <1>15, <2>2, Tuples
  <2>6. \A e \in Port, s \in Sector : disk'[e].data[s] \in last'[s]
    <3>1. \A e \in Port, s \in Sector : D[e].data[s] \in l[s]
      BY <1>5, <1>7, <2>4
    <3>2. ASSUME NEW s \in Sector, s \in a .. a + n - 1
          PROVE  \A e \in Port : disk'[e].data[s] = c
      BY <1>4, <1>15, <2>2, <2>3, <3>2 DEF Port
    <3>3. ASSUME NEW s \in Sector, s \notin a .. a + n - 1
          PROVE  \A e \in Port : disk'[e].data[s] = D[e].data[s]
      BY <2>3, <3>3 DEF Port
    <3> QED BY <1>7, <1>9, <2>3, <3>1, <3>2, <3>3
  <2> QED BY <1>9, <1>10, <2>3, <2>4, <2>5, <2>6
<1> QED BY <1>2, <1>12, <1>13, <1>14, <1>15 DEF LeftOf

\* One write to a disk, of a linear array.
LEMMA LinearWriteKeeps ==
  ASSUME RaidInv, DiskWrite, level = "LINEAR"
  PROVE  RaidInv'
<1>0. RaidTypeOK /\ Members /\ Copies /\ Working
  BY DEF RaidInv
<1>1. /\ todo # <<>> /\ UNCHANGED <<level, flaky, array, sbUpdate, count>>
      /\ todo' = Tail(todo)
      /\ disk' = IF todo[1].n = 0 THEN [disk EXCEPT ![todo[1].disk].events = @ + 2]
                 ELSE [disk EXCEPT ![todo[1].disk].data = [s \in Sector |->
                        IF s \in todo[1].at .. todo[1].at + todo[1].n - 1
                        THEN count ELSE @[s]]]
      /\ last' = IF Len(todo) > 1 THEN last
                 ELSE [s \in DOMAIN last |->
                         IF count \in last[s] THEN {count} ELSE last[s]]
  BY DEF DiskWrite
<1>2. PICK a \in Nat, n \in Nat \ {0} :
        /\ LeftOf(a, n) /\ a + n - 1 \in Address(level) /\ array # <<>>
        /\ \A s \in Address(level) : count \in last[s] <=> s \in a .. a + n - 1
  BY <1>0, <1>1 DEF Working
<1>3. PICK b \in Nat \ {0}, A \in {Address("LINEAR")} : b = Blocks
  BY Sectors
<1>4. /\ level' = "LINEAR" /\ Address(level) = A /\ Address(level') = A
      /\ Sector = 0 .. 2 * b - 1 /\ A = 0 .. 4 * b - 1
  BY <1>1, <1>3 DEF Sector, Address
<1>5. PICK c \in Nat : c = count
  BY <1>0 DEF RaidTypeOK
<1>6. PICK D \in Disks, l \in [A -> SUBSET (0 .. c)] : D = disk /\ l = last
  BY <1>0, <1>4, <1>5 DEF RaidTypeOK
<1>7. /\ array = <<1, 2>> /\ D[1].events = D[2].events /\ flaky \in Port
      /\ \A s \in Sector : D[1].data[s] \in l[s] /\ D[2].data[s] \in l[s + 2 * b]
      /\ \A s \in A : c \in l[s] <=> s \in a .. a + n - 1
  <2>1. array = <<1, 2>> /\ D[1].events = D[2].events
    BY <1>0, <1>2, <1>6 DEF Members, Level
  <2>2. \A s \in Sector : D[1].data[s] \in l[s] /\ D[2].data[s] \in l[s + 2 * b]
    BY <1>0, <1>3, <1>6 DEF Copies
  <2>3. \A s \in A : c \in l[s] <=> s \in a .. a + n - 1
    BY <1>2, <1>4, <1>5, <1>6
  <2> QED BY <1>0, <2>1, <2>2, <2>3 DEF RaidTypeOK
<1>8. PICK m : m = [s \in DOMAIN l |-> IF c \in l[s] THEN {c} ELSE l[s]]
  OBVIOUS
<1>9. /\ m \in [A -> SUBSET (0 .. c)]
      /\ \A s \in A : /\ c \in l[s] => m[s] = {c}
                      /\ c \notin l[s] => m[s] = l[s]
  BY <1>5, <1>6, <1>8, Settle
<1>10. ASSUME disk' \in Disks, \A e \in Port : disk'[e].events = D[e].events,
              last' \in [A -> SUBSET (0 .. c)],
              \A s \in Sector : /\ disk'[1].data[s] \in last'[s]
                                /\ disk'[2].data[s] \in last'[s + 2 * b],
              todo' # <<>> => LeftOf(a, n)' /\ last' = l
       PROVE  RaidInv'
  <2>1. RaidTypeOK'
    BY <1>0, <1>1, <1>4, <1>5, <1>10 DEF RaidTypeOK
  <2>2. Members'
    <3>1. /\ Steady' \in Port /\ Steady' # flaky /\ 1 \in Port /\ 2 \in Port
          /\ \A d \in Port : d = 1 \/ d = 2
      BY <1>1, <1>7 DEF Steady, Port
    <3>2. PICK x \in Nat : x = D[1].events /\ x = D[2].events
      BY <1>6, <1>7, <3>1 DEF Disks
    <3>3. \A e \in Port : disk'[e].events = x
      BY <1>10, <3>1, <3>2
    <3>4. Level(1)' /\ disk'[Steady'].events >= disk'[flaky'].events
      <4>1. disk'[Steady'].events = x /\ disk'[flaky'].events = x
        BY <1>1, <1>7, <3>1, <3>3
      <4>2. disk'[1].events = x /\ disk'[2].events = x
        BY <3>1, <3>3
      <4> QED BY <3>2, <4>1, <4>2 DEF Level
    <3>5. PICK h : h = Steady'
      OBVIOUS
    <3>6. <<h>> # <<1, 2>>
      BY Tuples
    <3> QED BY <1>1, <1>4, <1>7, <3>4, <3>5, <3>6 DEF Members
  <2>3. Copies'
    BY <1>3, <1>4, <1>10 DEF Copies
  <2>4. Working'
    BY <1>1, <1>2, <1>4, <1>6, <1>10 DEF Working
  <2> QED BY <2>1, <2>2, <2>3, <2>4 DEF RaidInv
<1>11. ASSUME NEW d \in Port, NEW q \in Nat, NEW k \in Nat \ {0}, NEW p,
              Len(todo) = 1 \/ Len(todo) = 2, p = todo[1], p = Part(d, q, k)
       PROVE  /\ disk' \in Disks /\ \A e \in Port : disk'[e].events = D[e].events
              /\ \A s \in Sector : disk'[d].data[s] =
                                     IF s \in q .. q + k - 1 THEN c ELSE D[d].data[s]
              /\ \A e \in Port : e # d => disk'[e] = D[e]
              /\ last' = IF Len(todo) = 2 THEN l ELSE m
  <2>1. p.disk = d /\ p.at = q /\ p.n = k /\ p.n # 0
    BY <1>11 DEF Part
  <2>2. PICK R : R = q .. q + k - 1
    OBVIOUS
  <2>3. disk' = StoredOn(D, d, R, c)
    BY <1>1, <1>5, <1>6, <1>11, <2>1, <2>2 DEF StoredOn
  <2>4. last' = IF Len(todo) = 2 THEN l ELSE m
    <3>1. m = [s \in DOMAIN last |-> IF count \in last[s] THEN {count} ELSE last[s]]
      BY <1>5, <1>6, <1>8
    <3>2. PICK j \in {1, 2} : j = Len(todo)
      BY <1>11
    <3>3. last' = IF j > 1 THEN last ELSE m
      BY <1>1, <3>1, <3>2
    <3>4. (j > 1 <=> j = 2) /\ l = last
      BY <1>6, <3>2
    <3> QED BY <3>2, <3>3, <3>4
  <2>5. PICK E : E = StoredOn(D, d, R, c)
    OBVIOUS
  <2>6. /\ E \in Disks /\ \A e \in Port : E[e].events = D[e].events
        /\ \A s \in Sector : E[d].data[s] = IF s \in R THEN c ELSE D[d].data[s]
        /\ \A e \in Port : e # d => E[e] = D[e]
    BY <1>5, <1>6, <1>11, <2>5, DataWritten
  <2> QED BY <2>2, <2>3, <2>4, <2>5, <2>6
<1>12. 1 \in Port /\ 2 \in Port
  BY DEF Port
<1>13. \A s \in Sector : s \in A /\ s + 2 * b \in A /\ s \in Nat
  BY <1>4
<1>14. CASE a + n <= 2 * b /\ todo = <<Part(1, a, n)>>
  <2>1. PICK y : y = Part(1, a, n) /\ todo = <<y>>
    BY <1>14
  <2>2. todo[1] = y /\ Len(todo) = 1 /\ Tail(todo) = <<>>
    BY <2>1, Tuples
  <2>3. /\ disk' \in Disks /\ \A e \in Port : disk'[e].events = D[e].events
        /\ \A s \in Sector : disk'[1].data[s] =
                               IF s \in a .. a + n - 1 THEN c ELSE D[1].data[s]
        /\ disk'[2] = D[2] /\ last' = m
    BY <1>11, <1>12, <2>1, <2>2
  <2>4. \A s \in Sector : disk'[1].data[s] \in last'[s]
    BY <1>7, <1>9, <1>13, <2>3
  <2>5. \A s \in Sector : s + 2 * b \notin a .. a + n - 1
    BY <1>13, <1>14
  <2>6. \A s \in Sector : disk'[2].data[s] \in last'[s + 2 * b]
    BY <1>7, <1>9, <1>13, <2>3, <2>5
  <2> QED BY <1>1, <1>9, <1>10, <2>2, <2>3, <2>4, <2>6
<1>15. CASE a >= 2 * b /\ todo = <<Part(2, a - 2 * b, n)>>
  <2>1. PICK k \in Nat, y \in {todo[1]} :
          k = a - 2 * b /\ a = k + 2 * b /\ y = Part(2, k, n) /\ todo = <<y>>
    BY <1>15
  <2>2. todo[1] = y /\ Len(todo) = 1 /\ Tail(todo) = <<>>
    BY <2>1, Tuples
  <2>3. /\ disk' \in Disks /\ \A e \in Port : disk'[e].events = D[e].events
        /\ \A s \in Sector : disk'[2].data[s] =
                               IF s \in k .. k + n - 1 THEN c ELSE D[2].data[s]
        /\ disk'[1] = D[1] /\ last' = m
    BY <1>11, <1>12, <2>1, <2>2
  <2>4. \A s \in Sector : /\ s + 2 * b \in a .. a + n - 1 <=> s \in k .. k + n - 1
                          /\ s \notin a .. a + n - 1
    BY <1>4, <1>13, <2>1
  <2>5. \A s \in Sector : disk'[1].data[s] \in last'[s]
    BY <1>7, <1>9, <1>13, <2>3, <2>4
  <2>6. \A s \in Sector : disk'[2].data[s] \in last'[s + 2 * b]
    BY <1>7, <1>9, <1>13, <2>3, <2>4
  <2> QED BY <1>1, <1>9, <1>10, <2>2, <2>3, <2>5, <2>6
<1>16. CASE /\ 2 * b - a \in 1 .. n - 1
            /\ todo = <<Part(1, a, 2 * b - a), Part(2, 0, n - (2 * b - a))>>
  <2>1. PICK k \in Nat \ {0}, x \in {todo[1]}, y \in {todo[2]} :
          /\ k = 2 * b - a /\ a + k = 2 * b
          /\ x = Part(1, a, k) /\ y = Part(2, 0, n - k) /\ todo = <<x, y>>
    BY <1>16
  <2>2. todo[1] = x /\ Len(todo) = 2 /\ Tail(todo) = <<y>>
    BY <2>1, Tuples
  <2>3. /\ disk' \in Disks /\ \A e \in Port : disk'[e].events = D[e].events
        /\ \A s \in Sector : disk'[1].data[s] =
                               IF s \in a .. a + k - 1 THEN c ELSE D[1].data[s]
        /\ disk'[2] = D[2] /\ last' = l
    BY <1>11, <1>12, <2>1, <2>2
  <2>4. \A s \in Sector : /\ s \in a .. a + k - 1 => s \in a .. a + n - 1
                          /\ s >= a => s \in a .. a + k - 1
    BY <1>4, <1>13, <1>16, <2>1
  <2>5. \A s \in Sector : disk'[1].data[s] \in last'[s]
    BY <1>7, <1>13, <2>3, <2>4
  <2>6. \A s \in Sector : disk'[2].data[s] \in last'[s + 2 * b]
    BY <1>7, <2>3
  <2>7. \A s \in Sector : s >= a => disk'[1].data[s] = count'
    BY <1>1, <1>5, <2>3, <2>4
  <2>8. todo' = <<Part(2, 0, n - (2 * Blocks - a))>> /\ 2 * Blocks - a \in 1 .. n - 1
    BY <1>1, <1>3, <1>16, <2>1, <2>2
  <2>9. LeftOf(a, n)'
    BY <1>4, <2>7, <2>8 DEF LeftOf
  <2> QED BY <1>6, <1>10, <2>3, <2>5, <2>6, <2>9
<1>17. CASE /\ 2 * b - a \in 1 .. n - 1 /\ todo = <<Part(2, 0, n - (2 * b - a))>>
            /\ \A s \in Sector : s >= a => disk[1].data[s] = count
  <2>1. PICK k \in Nat \ {0}, y \in {todo[1]} :
          /\ k = n - (2 * b - a) /\ a + n = 2 * b + k
          /\ y = Part(2, 0, k) /\ todo = <<y>>
    BY <1>17
  <2>2. todo[1] = y /\ Len(todo) = 1 /\ Tail(todo) = <<>>
    BY <2>1, Tuples
  <2>3. /\ disk' \in Disks /\ \A e \in Port : disk'[e].events = D[e].events
        /\ \A s \in Sector : disk'[2].data[s] =
                               IF s \in 0 .. k - 1 THEN c ELSE D[2].data[s]
        /\ disk'[1] = D[1] /\ last' = m
    <3>1. PICK z \in Nat : z = 0 /\ y = Part(2, z, k) /\ z + k - 1 = k - 1
      BY <2>1
    <3>2. /\ disk' \in Disks /\ \A e \in Port : disk'[e].events = D[e].events
          /\ \A s \in Sector : disk'[2].data[s] =
                                 IF s \in z .. z + k - 1 THEN c ELSE D[2].data[s]
          /\ disk'[1] = D[1] /\ last' = m
      <4>1. z \in Nat /\ k \in Nat \ {0} /\ todo[1] = y /\ y = Part(2, z, k)
        BY <2>1, <2>2, <3>1
      <4>2. Len(todo) = 1 /\ 1 # 2
        BY <2>2
      <4> QED BY <1>11, <1>12, <4>1, <4>2
    <3> QED BY <3>1, <3>2
  <2>4. \A s \in Sector : /\ s + 2 * b \in a .. a + n - 1 <=> s \in 0 .. k - 1
                          /\ s \in a .. a + n - 1 => s >= a
    <3>1. a < 2 * b /\ a + n - 1 = 2 * b + k - 1
      BY <1>17, <2>1
    <3>2. SUFFICES ASSUME NEW s \in Nat
                   PROVE  /\ s + 2 * b \in a .. a + n - 1 <=> s \in 0 .. k - 1
                          /\ s \in a .. a + n - 1 => s >= a
      BY <1>13
    <3>3. s + 2 * b >= a /\ (s + 2 * b <= 2 * b + k - 1 <=> s <= k - 1)
      BY <3>1
    <3> QED BY <3>1, <3>3
  <2>5. \A s \in Sector : disk'[1].data[s] \in last'[s]
    BY <1>5, <1>6, <1>7, <1>9, <1>13, <1>17, <2>3, <2>4
  <2>6. \A s \in Sector : disk'[2].data[s] \in last'[s + 2 * b]
    BY <1>7, <1>9, <1>13, <2>3, <2>4
  <2> QED BY <1>1, <1>9, <1>10, <2>2, <2>3, <2>5, <2>6
<1>18. level # "RAID1"
  OBVIOUS
<1> QED BY <1>2, <1>3, <1>14, <1>15, <1>16, <1>17, <1>18 DEF LeftOf

\* The array reads as what the copies that count hold.
LEMMA ReadsCopies ==
  ASSUME Usual, RaidInv
  PROVE  ReadsLast
<1>0. RaidTypeOK /\ Members /\ Copies
  BY DEF RaidInv
<1>1. SUFFICES ASSUME array # <<>>, NEW s \in Address(level)
               PROVE  Reads(s) \in last[s]
  BY <1>0 DEF ReadsLast, RaidTypeOK
<1>2. CASE level = "RAID1"
  <2>1. PICK d \in Port, p \in {Part(array[1], s, 1)} : d = array[1]
    BY <1>0, <1>1, TwoDisks, Tuples DEF Members, RaidTypeOK, Port
  <2>2. Raid1Read(s, 1)[1] = p /\ p.disk = d /\ p.at = s
    BY <2>1 DEF Raid1Read, Part
  <2>3. Reads(s) = disk[d].data[s]
    BY <1>2, <2>2 DEF Reads
  <2>4. d = Steady \/ (d \in Port /\ Level(1))
    BY <1>0, <1>1, <2>1, Tuples DEF Members
  <2>5. d = Steady \/ d = flaky
    BY <1>0, <2>1, TwoDisks DEF RaidTypeOK
  <2> QED BY <1>0, <1>2, <2>3, <2>4, <2>5, Sectors DEF Copies
<1>3. CASE level = "LINEAR"
  <2>1. array[1] = 1 /\ array[2] = 2
    BY <1>0, <1>1, <1>3, Tuples DEF Members
  <2>2. PICK b \in Nat \ {0} : b = Blocks
    BY Sectors
  <2>3. PICK x \in Nat, y \in {0, 1} : /\ s = 2 * x + y /\ s % 2 = y /\ s - (s % 2) = 2 * x
                                       /\ (s - (s % 2)) \div 2 = x
    <3>1. s \in Nat
      BY <1>1, <1>3, Sectors
    <3>2. PICK x \in Nat, y \in {0, 1} : x = s \div 2 /\ y = s % 2 /\ s = 2 * x + y
      BY <3>1
    <3>3. s - (s % 2) = 2 * x /\ (2 * x) \div 2 = x
      BY <3>1, <3>2
    <3> QED BY <3>2, <3>3
  <2>4. x < 2 * b /\ s \in Nat /\ Sector = 0 .. 2 * b - 1
    BY <1>1, <1>3, <2>2, <2>3, Sectors DEF Sector
  <2>5. Linear(2 * x, 2)[1] = IF x + 1 <= b THEN Part(1, 2 * x, 2)
                              ELSE Part(2, 2 * x - 2 * b, 2)
    <3>1. (2 * x) \div 2 = x /\ 2 \div 2 = 1
      OBVIOUS
    <3>2. CASE x + 1 <= b
      BY <2>1, <2>2, <3>1, <3>2 DEF Linear
    <3>3. CASE ~(x + 1 <= b)
      <4>1. x >= b
        BY <2>2, <3>3
      <4> QED BY <2>1, <2>2, <3>1, <3>3, <4>1 DEF Linear
    <3> QED BY <3>2, <3>3
  <2>6. PICK p : p = Linear(2 * x, 2)[1]
    OBVIOUS
  <2>7. Reads(s) = disk[p.disk].data[p.at + y]
    BY <1>3, <2>3, <2>6 DEF Reads
  <2>8. CASE x + 1 <= b
    <3>1. p.disk = 1 /\ p.at = 2 * x
      BY <2>5, <2>6, <2>8 DEF Part
    <3>2. s \in Sector /\ p.at + y = s
      BY <2>3, <2>4, <2>8, <3>1
    <3> QED BY <1>0, <1>3, <2>7, <3>1, <3>2 DEF Copies
  <2>9. CASE ~(x + 1 <= b)
    <3>1. p.disk = 2 /\ p.at = 2 * x - 2 * b
      BY <2>5, <2>6, <2>9 DEF Part
    <3>2. PICK t : t = p.at + y
      OBVIOUS
    <3>3. t \in Sector /\ t + 2 * Blocks = s
      BY <2>2, <2>3, <2>4, <2>9, <3>1, <3>2
    <3> QED BY <1>0, <1>3, <2>7, <3>1, <3>2, <3>3 DEF Copies
  <2> QED BY <2>8, <2>9
<1> QED BY <1>0, <1>2, <1>3 DEF RaidTypeOK

\* Both disks begin alike.
LEMMA RaidInitInv ==
  ASSUME RaidInit
  PROVE  RaidInv
<1>1. PICK z \in [events : Nat, data : [Sector -> Nat]] :
        z = [events |-> 0, data |-> [s \in Sector |-> 0]]
  OBVIOUS
<1>2. /\ disk = [d \in Port |-> z] /\ z.events = 0 /\ z.data = [s \in Sector |-> 0]
      /\ level \in {"RAID1", "LINEAR"} /\ flaky \in Port /\ array = <<>>
      /\ sbUpdate = FALSE /\ todo = <<>> /\ count = 0
      /\ last = [s \in Address(level) |-> {0}]
  BY <1>1 DEF RaidInit
<1>3. disk \in Disks /\ \A d \in Port : disk[d] = z
  BY <1>1, <1>2 DEF Disks
<1>4. {0} \in SUBSET (0 .. count) /\ count \in Nat
  BY <1>2
<1>5. RaidTypeOK
  BY <1>2, <1>3, <1>4 DEF RaidTypeOK
<1>6. Steady \in Port /\ 1 \in Port /\ 2 \in Port /\ 3 - 1 = 2
  BY <1>2 DEF Steady, Port
<1>7. disk[Steady] = z /\ disk[flaky] = z /\ disk[1] = z /\ disk[2] = z
  BY <1>2, <1>3, <1>6
<1>8. Members
  BY <1>2, <1>6, <1>7 DEF Members, Level
<1>9. \A s \in Sector : z.data[s] = 0
  BY <1>2
<1>10. Copies
  <2>1. CASE level = "RAID1"
    BY <1>2, <1>7, <1>9, <2>1, Sectors DEF Copies
  <2>2. CASE level = "LINEAR"
    <3>1. \A s \in Sector : s \in Address(level) /\ s + 2 * Blocks \in Address(level)
      BY <2>2, Sectors
    <3> QED BY <1>2, <1>7, <1>9, <2>2, <3>1 DEF Copies
  <2> QED BY <1>2, <2>1, <2>2
<1> QED BY <1>2, <1>5, <1>8, <1>10 DEF RaidInv, Working

\* Whatever disk was missing at earlier boots, and wherever power failed, the
\* array reads as the last write that finished, or as one cut short after it
\* (raid_init, raid1_write, linear_write), for members of any size and any
\* number of requests, when the members are numbered in the order of their
\* ports and requests are for whole Kbytes.
THEOREM ReadsAlwaysLast ==
  ASSUME Usual
  PROVE  RaidSpec => []ReadsLast
<1>1. RaidInit => RaidInv
  BY RaidInitInv
<1>2. RaidInv /\ [RaidNext]_raidVars => RaidInv'
  <2>1. SUFFICES ASSUME RaidInv, [RaidNext]_raidVars
                 PROVE  RaidInv'
    OBVIOUS
  <2>2. CASE MdWrite
    BY <2>1, <2>2, MdWriteKeeps
  <2>3. CASE MbrWrite
    BY <2>1, <2>3, MbrKeeps
  <2>4. CASE DiskWrite
    <3>1. level = "RAID1" \/ level = "LINEAR"
      BY <2>1 DEF RaidInv, RaidTypeOK
    <3> QED BY <2>1, <2>4, <3>1, MirrorWriteKeeps, LinearWriteKeeps
  <2>5. CASE Reboot
    BY <2>1, <2>5, RebootKeeps
  <2>6. CASE Resync
    BY <2>1, <2>6, ResyncKeeps
  <2>7. CASE UNCHANGED raidVars
    BY <2>1, <2>7 DEF raidVars, RaidInv, RaidTypeOK, Members, Copies, Working,
                      LeftOf, Level, Steady
  <2> QED BY <2>1, <2>2, <2>3, <2>4, <2>5, <2>6, <2>7 DEF RaidNext
<1>3. RaidInv => ReadsLast
  BY ReadsCopies
<1> QED BY <1>1, <1>2, <1>3, PTL DEF RaidSpec
-----------------------------------------------------------------------------
(* Vctl: the store of settings                                              *)

Entry == [type : VctlType, val : Stored]
AreaImage == [num : Int, cells : Seq(Entry)]

VctlTypeOK ==
  /\ area \in AreaImage /\ datap \in AreaImage
  /\ cfg \in [VctlType -> Stored]
  /\ save \in [at : {"no", "stuck", "erase", "header", "entries"}, new : Seq(Entry)]
  /\ tried \subseteq VctlType \X Stored

\* No type has two entries.
Distinct(s) == \A i, j \in 1 .. Len(s) : s[i].type = s[j].type => i = j

\* An area that was never written or was just erased, or one with a header.
Sound(a) == (a = Blank \/ (a.num >= 1 /\ Len(a.cells) <= a.num)) /\ Distinct(a.cells)

\* A save writes the entries of the copy in memory with one of the values that
\* were tried; what it has programmed is the beginning of that.
Saving ==
  save.at \in {"erase", "header", "entries"} =>
    /\ ~Torn(datap)
    /\ \E p \in tried : save.new = Rebuilt(datap, p[1], p[2])
    /\ save.at = "entries" =>
         /\ area.num = Len(save.new) /\ Len(area.cells) <= Len(save.new)
         /\ \A i \in 1 .. Len(area.cells) : area.cells[i] = save.new[i]

\* What a restart would find: nothing, what the copy has, or a value that a
\* save has tried.
Agrees ==
  \A t \in VctlType :
    \/ Get(area, t) = NoEntry \/ Get(area, t) = Get(datap, t)
    \/ <<t, Get(area, t)>> \in tried

\* Between saves the copy in memory is the area.
Settled == tried = {} => area = datap

VctlInv == VctlTypeOK /\ Sound(area) /\ Sound(datap) /\ Saving /\ Agrees /\ Settled

-----------------------------------------------------------------------------
\* sys_get_vctl_entry finds the entry of a type, when there is one.
LEMMA GetFound ==
  ASSUME NEW a \in AreaImage, Distinct(a.cells), a.num >= 1,
         NEW t, NEW i \in 1 .. Len(a.cells), a.cells[i].type = t
  PROVE  Get(a, t) = a.cells[i].val
<1> DEFINE hits == {j \in DOMAIN a.cells : a.cells[j].type = t}
<1>1. a.cells \in Seq(Entry) /\ a.num \in Int
  BY DEF AreaImage
<1>2. DOMAIN a.cells = 1 .. Len(a.cells) /\ Len(a.cells) \in Nat
  BY <1>1
<1>3. hits = {i}
  BY <1>2 DEF Distinct
<1>4. (CHOOSE j \in hits : \A k \in hits : j <= k) = i
  BY <1>2, <1>3
<1> QED BY <1>1, <1>3, <1>4 DEF Get

\* And none, when there is none.
LEMMA GetNone ==
  ASSUME NEW a \in AreaImage, NEW t,
         a.num < 1 \/ \A i \in 1 .. Len(a.cells) : a.cells[i].type # t
  PROVE  Get(a, t) = NoEntry
<1>1. a.cells \in Seq(Entry) /\ a.num \in Int
  BY DEF AreaImage
<1>2. DOMAIN a.cells = 1 .. Len(a.cells)
  BY <1>1
<1> QED BY <1>1, <1>2 DEF Get

\* What it returns is a value an entry can have, or none.
LEMMA GetType ==
  ASSUME NEW a \in AreaImage, Distinct(a.cells), NEW t
  PROVE  Get(a, t) \in Stored \cup {NoEntry}
<1>1. CASE a.num >= 1 /\ \E i \in 1 .. Len(a.cells) : a.cells[i].type = t
  <2>1. PICK i \in 1 .. Len(a.cells) : a.cells[i].type = t
    BY <1>1
  <2>2. a.cells[i] \in Entry
    BY DEF AreaImage
  <2>3. Get(a, t) = a.cells[i].val
    BY <1>1, <2>1, GetFound
  <2> QED BY <2>2, <2>3 DEF Entry
<1>2. CASE ~(a.num >= 1 /\ \E i \in 1 .. Len(a.cells) : a.cells[i].type = t)
  <2>1. a.num \in Int
    BY DEF AreaImage
  <2>2. Get(a, t) = NoEntry
    BY <1>2, <2>1, GetNone
  <2> QED BY <2>2
<1> QED BY <1>1, <1>2

\* The entries a save writes: a type that is there keeps its place.
LEMMA RebuiltIs ==
  ASSUME NEW a \in AreaImage, Sound(a), NEW t \in VctlType, NEW v \in Stored
  PROVE  LET new == Rebuilt(a, t, v)
         IN  /\ new \in Seq(Entry) /\ Len(new) >= 1 /\ Len(new) >= Len(a.cells)
             /\ Distinct(new)
             /\ \E i \in 1 .. Len(new) : new[i].type = t
             /\ \A i \in 1 .. Len(new) : new[i].type = t => new[i].val = v
             /\ \A i \in 1 .. Len(new) : new[i].type # t =>
                  i \in 1 .. Len(a.cells) /\ new[i] = a.cells[i] /\ a.num >= 1
             /\ \A i \in 1 .. Len(a.cells) : a.cells[i].type # t => new[i] = a.cells[i]
<1> DEFINE old == IF a.num < 0 THEN <<>> ELSE a.cells
           e   == [type |-> t, val |-> v]
           new == Rebuilt(a, t, v)
<1>1. a.cells \in Seq(Entry) /\ a.num \in Int /\ Len(a.cells) \in Nat
  BY DEF AreaImage
<1>2. old = a.cells /\ (a.num >= 1 \/ Len(a.cells) = 0)
  <2>1. CASE a = Blank
    BY <2>1 DEF Blank
  <2>2. CASE a.num >= 1
    BY <1>1, <2>2
  <2> QED BY <2>1, <2>2 DEF Sound
<1>3. e \in Entry /\ e.type = t /\ e.val = v
  BY DEF Entry
<1>4. DOMAIN a.cells = 1 .. Len(a.cells) /\ Distinct(a.cells)
  BY <1>1 DEF Sound
<1> HIDE DEF e
<1>5. new = IF \E i \in DOMAIN a.cells : a.cells[i].type = t
            THEN [i \in DOMAIN a.cells |-> IF a.cells[i].type = t THEN e ELSE a.cells[i]]
            ELSE Append(a.cells, e)
  BY <1>2 DEF Rebuilt, e
<1> HIDE DEF old, new
<1>6. CASE \E i \in 1 .. Len(a.cells) : a.cells[i].type = t
  <2>1. new = [i \in 1 .. Len(a.cells) |-> IF a.cells[i].type = t THEN e ELSE a.cells[i]]
    BY <1>4, <1>5, <1>6
  <2>2. new \in Seq(Entry) /\ Len(new) = Len(a.cells)
    BY <1>1, <1>3, <2>1
  <2>3. \A i \in 1 .. Len(a.cells) :
          /\ new[i] = IF a.cells[i].type = t THEN e ELSE a.cells[i]
          /\ new[i].type = a.cells[i].type
    BY <1>3, <2>1
  <2>4. Distinct(new)
    BY <1>4, <2>2, <2>3 DEF Distinct
  <2>5. \E i \in 1 .. Len(new) : new[i].type = t
    BY <1>6, <2>2, <2>3
  <2>6. \A i \in 1 .. Len(new) : new[i].type = t => new[i].val = v
    BY <1>3, <2>2, <2>3
  <2>7. Len(new) >= 1 /\ a.num >= 1
    BY <1>1, <1>2, <1>6, <2>2
  <2> QED BY <1>1, <2>2, <2>3, <2>4, <2>5, <2>6, <2>7 DEF new
<1>7. CASE \A i \in 1 .. Len(a.cells) : a.cells[i].type # t
  <2>1. new = Append(a.cells, e)
    BY <1>4, <1>5, <1>7
  <2>2. /\ new \in Seq(Entry) /\ Len(new) = Len(a.cells) + 1 /\ new[Len(a.cells) + 1] = e
        /\ \A i \in 1 .. Len(a.cells) : new[i] = a.cells[i]
    BY <1>1, <1>3, <2>1
  <2>3. \A i \in 1 .. Len(new) : i \in 1 .. Len(a.cells) \/ i = Len(a.cells) + 1
    BY <1>1, <2>2
  <2>4. Distinct(new)
    BY <1>3, <1>4, <1>7, <2>2, <2>3 DEF Distinct
  <2>5. \A i \in 1 .. Len(new) : new[i].type = t <=> i = Len(a.cells) + 1
    BY <1>3, <1>7, <2>2, <2>3
  <2>6. Len(a.cells) + 1 \in 1 .. Len(new) /\ Len(new) >= 1 /\ Len(new) >= Len(a.cells)
    BY <1>1, <2>2
  <2>7. \A i \in 1 .. Len(new) : new[i].type # t =>
                  i \in 1 .. Len(a.cells) /\ new[i] = a.cells[i] /\ a.num >= 1
    BY <1>1, <1>2, <2>2, <2>3, <2>5
  <2> QED BY <1>3, <2>2, <2>4, <2>5, <2>6, <2>7 DEF new
<1> QED BY <1>6, <1>7

\* What a lookup finds in the beginning of a rebuilt area: nothing, what the
\* copy has, or the new value.
LEMMA PartFound ==
  ASSUME NEW a \in AreaImage, Sound(a), NEW t \in VctlType, NEW v \in Stored,
         NEW b \in AreaImage, b.num >= 1, Distinct(b.cells),
         Len(b.cells) <= Len(Rebuilt(a, t, v)),
         \A i \in 1 .. Len(b.cells) : b.cells[i] = Rebuilt(a, t, v)[i],
         NEW u \in VctlType
  PROVE  /\ Get(b, u) = NoEntry \/ Get(b, u) = Get(a, u) \/ (u = t /\ Get(b, u) = v)
         /\ Len(b.cells) = Len(Rebuilt(a, t, v)) =>
              Get(b, u) = IF u = t THEN v ELSE Get(a, u)
<1> DEFINE new == Rebuilt(a, t, v)
<1>1. /\ new \in Seq(Entry) /\ Len(new) >= Len(a.cells) /\ Distinct(a.cells)
      /\ \E i \in 1 .. Len(new) : new[i].type = t
      /\ \A i \in 1 .. Len(new) : new[i].type = t => new[i].val = v
      /\ \A i \in 1 .. Len(new) : new[i].type # t =>
                  i \in 1 .. Len(a.cells) /\ new[i] = a.cells[i] /\ a.num >= 1
      /\ \A i \in 1 .. Len(a.cells) : a.cells[i].type # t => new[i] = a.cells[i]
  <2>1. Distinct(a.cells)
    BY DEF Sound
  <2> QED BY <2>1, RebuiltIs
<1>2. /\ Len(b.cells) <= Len(new) /\ Len(b.cells) \in Nat /\ Len(new) \in Nat
      /\ \A i \in 1 .. Len(b.cells) : b.cells[i] = new[i]
      /\ Len(a.cells) \in Nat /\ a.num \in Int
  BY <1>1 DEF AreaImage
<1> HIDE DEF new
<1>3. CASE \E i \in 1 .. Len(b.cells) : b.cells[i].type = u
  <2>1. PICK i \in 1 .. Len(b.cells) : b.cells[i].type = u
    BY <1>3
  <2>2. Get(b, u) = b.cells[i].val
    BY <2>1, GetFound
  <2>3. i \in 1 .. Len(new) /\ new[i].type = u /\ Get(b, u) = new[i].val
    BY <1>2, <2>1, <2>2
  <2>4. CASE u = t
    BY <1>1, <2>3, <2>4
  <2>5. CASE u # t
    <3>1. i \in 1 .. Len(a.cells) /\ new[i] = a.cells[i] /\ a.num >= 1
      BY <1>1, <2>3, <2>5
    <3>2. Get(a, u) = a.cells[i].val
      BY <1>1, <2>3, <3>1, GetFound
    <3> QED BY <2>3, <2>5, <3>1, <3>2
  <2> QED BY <2>4, <2>5
<1>4. CASE \A i \in 1 .. Len(b.cells) : b.cells[i].type # u
  <2>1. Get(b, u) = NoEntry
    BY <1>4, GetNone
  <2>2. ASSUME Len(b.cells) = Len(new) PROVE u # t /\ Get(a, u) = NoEntry
    <3>1. \A i \in 1 .. Len(new) : new[i].type # u
      BY <1>2, <1>4, <2>2
    <3>2. u # t
      BY <1>1, <3>1
    <3>3. \A i \in 1 .. Len(a.cells) : a.cells[i].type # u
      <4>1. ASSUME NEW i \in 1 .. Len(a.cells), a.cells[i].type = u PROVE FALSE
        <5>1. new[i] = a.cells[i] /\ i \in 1 .. Len(new)
          BY <1>1, <1>2, <3>2, <4>1
        <5> QED BY <3>1, <4>1, <5>1
      <4> QED BY <4>1
    <3> QED BY <3>2, <3>3, GetNone
  <2> QED BY <2>1, <2>2 DEF new
<1> QED BY <1>3, <1>4

\* A blank area holds nothing.
LEMMA BlankHolds == Blank \in AreaImage /\ Sound(Blank) /\ \A t : Get(Blank, t) = NoEntry
<1>1. Blank \in AreaImage /\ Blank.num = -1 /\ Blank.cells = <<>>
  BY DEF Blank, AreaImage
<1>2. Sound(Blank)
  BY <1>1 DEF Sound, Distinct
<1>3. \A t : Get(Blank, t) = NoEntry
  BY <1>1, GetNone
<1> QED BY <1>1, <1>2, <1>3

-----------------------------------------------------------------------------
(* The invariant                                                            *)

\* A first start: the board's flash is blank and the default entry is saved.
LEMMA VctlInitOK == VctlInit => VctlInv
<1> SUFFICES ASSUME VctlInit PROVE VctlInv
  OBVIOUS
<1>1. /\ area = Blank /\ datap = Blank /\ cfg = [t \in VctlType |-> 0]
      /\ save = [at |-> "erase", new |-> Rebuilt(Blank, "VLAN", 0)]
      /\ tried = {<<"VLAN", 0>>}
  BY DEF VctlInit
<1>2. "VLAN" \in VctlType /\ 0 \in Stored
  BY DEF VctlType, Stored
<1>3. ~Torn(Blank)
  BY DEF Torn, Blank
<1>4. Rebuilt(Blank, "VLAN", 0) \in Seq(Entry)
  BY <1>2, <1>3, BlankHolds, RebuiltIs
<1>5. VctlTypeOK
  BY <1>1, <1>2, <1>4, BlankHolds DEF VctlTypeOK
<1>6. Saving
  <2>1. <<"VLAN", 0>> \in tried /\ save.new = Rebuilt(datap, <<"VLAN", 0>>[1], <<"VLAN", 0>>[2])
    BY <1>1
  <2> QED BY <1>1, <1>3, <2>1 DEF Saving
<1> QED BY <1>1, <1>5, <1>6, BlankHolds DEF VctlInv, Agrees, Settled

\* sys_save_vctl_entry begins, for an entry of the copy in memory.
LEMMA SaveBegins ==
  ASSUME VctlInv, NEW t \in VctlType, NEW v \in Stored, SaveEntry(datap, t, v),
         UNCHANGED <<area, datap>>, cfg' \in [VctlType -> Stored]
  PROVE  VctlInv'
<1>0. /\ area \in AreaImage /\ datap \in AreaImage /\ tried \subseteq VctlType \X Stored
      /\ Sound(area) /\ Sound(datap)
  BY DEF VctlInv, VctlTypeOK
<1> DEFINE stage == IF Torn(datap) THEN "stuck" ELSE "erase"
           new == Rebuilt(datap, t, v)
<1>1. /\ tried' = tried \cup {<<t, v>>} /\ save' = [at |-> stage, new |-> new]
  BY DEF SaveEntry
<1>2. new \in Seq(Entry)
  BY <1>0, RebuiltIs
<1>3. stage \in {"stuck", "erase"} /\ (stage = "erase" => ~Torn(datap))
  OBVIOUS
<1>4. VctlTypeOK'
  <2> HIDE DEF new, stage
  <2>1. save' \in [at : {"no", "stuck", "erase", "header", "entries"}, new : Seq(Entry)]
    BY <1>1, <1>2, <1>3
  <2>2. tried' \subseteq VctlType \X Stored
    BY <1>0, <1>1
  <2> QED BY <1>0, <2>1, <2>2 DEF VctlTypeOK
<1>5. Saving'
  <2>1. <<t, v>> \in tried' /\ save'.at = stage /\ save'.new = Rebuilt(datap', <<t, v>>[1], <<t, v>>[2])
    BY <1>1
  <2>2. ~Torn(datap) => ~Torn(datap)'
    BY DEF Torn
  <2> HIDE DEF stage
  <2> QED BY <1>3, <2>1, <2>2 DEF Saving
<1>6. Agrees'
  BY <1>1 DEF VctlInv, Agrees
<1>7. Settled'
  BY <1>1 DEF Settled
<1> QED BY <1>0, <1>4, <1>5, <1>6, <1>7 DEF VctlInv

\* The menu sets a value in memory, and may go on to save it.
LEMMA MenuOK ==
  ASSUME VctlInv, SetIp \/ SetMac \/ UpdateBootFile
  PROVE  /\ VctlInv' /\ UNCHANGED <<area, datap, era>>
         /\ tried' = tried \/ \E t \in VctlType, v \in Stored : tried' = tried \cup {<<t, v>>}
<1>0. cfg \in [VctlType -> Stored] /\ Setting \subseteq Stored
      /\ "IP" \in VctlType /\ "VLAN" \in VctlType /\ "BOOT_FILE" \in VctlType
  BY DEF VctlInv, VctlTypeOK, VctlType, Stored
<1>1. ASSUME cfg' \in [VctlType -> Stored], UNCHANGED <<area, datap, era, save, tried>>
      PROVE  VctlInv'
  <2>1. VctlTypeOK'
    BY <1>1 DEF VctlInv, VctlTypeOK
  <2>2. Saving'
    BY <1>1 DEF VctlInv, Saving, Torn
  <2>3. Agrees' /\ Settled' /\ Sound(area)' /\ Sound(datap)'
    BY <1>1 DEF VctlInv, Agrees, Settled
  <2> QED BY <2>1, <2>2, <2>3 DEF VctlInv
<1>2. PICK t \in VctlType :
        /\ cfg' \in [VctlType -> Stored] /\ UNCHANGED <<area, datap, era>>
        /\ \/ UNCHANGED <<save, tried>>
           \/ \E v \in Stored : SaveEntry(datap, t, v)
  <2>1. ASSUME NEW t \in VctlType, Dialogue(t)
        PROVE  cfg' \in [VctlType -> Stored] /\ cfg'[t] \in Stored /\ UNCHANGED <<area, datap, era>>
    <3>1. PICK v \in Setting : \E w \in Verified(t, v) : cfg' = [cfg EXCEPT ![t] = w]
      BY <2>1 DEF Dialogue
    <3>2. PICK w \in Verified(t, v) : cfg' = [cfg EXCEPT ![t] = w]
      BY <3>1
    <3>3. w \in Stored
      BY <1>0, <2>1, <3>1, <3>2 DEF Verified
    <3> QED BY <1>0, <2>1, <3>2, <3>3 DEF Dialogue
  <2>2. CASE SetIp
    BY <1>0, <2>1, <2>2 DEF SetIp, SetVctlIp
  <2>3. CASE SetMac
    BY <1>0, <2>1, <2>3 DEF SetMac, SetVctlMac
  <2>4. CASE UpdateBootFile
    <3>1. PICK v \in Setting \cup {cfg["BOOT_FILE"]} :
            /\ cfg' = [cfg EXCEPT !["BOOT_FILE"] = v]
            /\ SaveEntry(datap, "BOOT_FILE", v) \/ UNCHANGED <<save, tried>>
      BY <2>4 DEF UpdateBootFile, SetFiles, SetVctlBootFile
    <3>2. v \in Stored /\ cfg' \in [VctlType -> Stored]
      BY <1>0, <3>1
    <3> QED BY <1>0, <2>4, <3>1, <3>2 DEF UpdateBootFile
  <2> QED BY <2>2, <2>3, <2>4
<1>3. CASE UNCHANGED <<save, tried>>
  BY <1>1, <1>2, <1>3
<1>4. CASE \E v \in Stored : SaveEntry(datap, t, v)
  <2>1. PICK v \in Stored : SaveEntry(datap, t, v)
    BY <1>4
  <2>2. VctlInv'
    BY <1>2, <2>1, SaveBegins
  <2>3. tried' = tried \cup {<<t, v>>}
    BY <2>1 DEF SaveEntry
  <2> QED BY <1>2, <2>2, <2>3
<1> QED BY <1>2, <1>3, <1>4

SaveType == [at : {"no", "stuck", "erase", "header", "entries"}, new : Seq(Entry)]

\* A save goes on to its next place.
LEMMA AtUpdate ==
  ASSUME NEW s \in SaveType, NEW a \in {"header", "entries"}
  PROVE  LET r == [s EXCEPT !.at = a] IN r \in SaveType /\ r.at = a /\ r.new = s.new
  BY DEF SaveType

\* A save in progress: what it writes, and of which value.
LEMMA SavingFacts ==
  ASSUME VctlInv, save.at \in {"erase", "header", "entries"}
  PROVE  \E t \in VctlType, v \in Stored :
           /\ <<t, v>> \in tried /\ save.new = Rebuilt(datap, t, v)
           /\ save.new \in Seq(Entry) /\ Len(save.new) >= 1 /\ Distinct(save.new)
<1>0. datap \in AreaImage /\ Sound(datap) /\ tried \subseteq VctlType \X Stored
  BY DEF VctlInv, VctlTypeOK
<1>1. PICK p \in tried : save.new = Rebuilt(datap, p[1], p[2])
  BY DEF VctlInv, Saving
<1>2. PICK t \in VctlType, v \in Stored : p = <<t, v>>
  BY <1>0, <1>1
<1>3. save.new = Rebuilt(datap, t, v) /\ <<t, v>> \in tried
  BY <1>1, <1>2
<1>4. save.new \in Seq(Entry) /\ Len(save.new) >= 1 /\ Distinct(save.new)
  BY <1>0, <1>3, RebuiltIs
<1> QED BY <1>3, <1>4

\* The area is erased.
LEMMA EraseOK ==
  ASSUME VctlInv, Erase
  PROVE  VctlInv'
<1>0. /\ datap \in AreaImage /\ Sound(datap) /\ save \in SaveType /\ cfg \in [VctlType -> Stored]
      /\ tried \subseteq VctlType \X Stored
  BY DEF VctlInv, VctlTypeOK, SaveType
<1>1. /\ save.at = "erase" /\ area' = Blank /\ save' = [save EXCEPT !.at = "header"]
      /\ UNCHANGED <<datap, cfg, tried>>
  BY DEF Erase
<1>2. save' \in SaveType /\ save'.at = "header" /\ save'.new = save.new
  BY <1>0, <1>1, AtUpdate
<1>3. VctlTypeOK' /\ Sound(area')
  BY <1>0, <1>1, <1>2, BlankHolds DEF VctlTypeOK, SaveType
<1>4. ~Torn(datap) /\ \E p \in tried : save.new = Rebuilt(datap, p[1], p[2])
  BY <1>1 DEF VctlInv, Saving
<1>5. Saving'
  BY <1>1, <1>2, <1>4 DEF Saving, Torn
<1>6. Agrees'
  BY <1>1, BlankHolds DEF Agrees
<1>7. Settled'
  BY <1>1, <1>4 DEF Settled
<1> QED BY <1>0, <1>1, <1>3, <1>5, <1>6, <1>7 DEF VctlInv

\* The header or one more entry is programmed.
LEMMA ProgramOK ==
  ASSUME VctlInv, Program
  PROVE  VctlInv'
<1>0. /\ datap \in AreaImage /\ Sound(datap) /\ save \in SaveType /\ cfg \in [VctlType -> Stored]
      /\ tried \subseteq VctlType \X Stored /\ area \in AreaImage
  BY DEF VctlInv, VctlTypeOK, SaveType
<1>1. /\ save.at \in {"header", "entries"} /\ save' = [save EXCEPT !.at = "entries"]
      /\ UNCHANGED <<datap, cfg, tried>>
  BY DEF Program
<1>2. save' \in SaveType /\ save'.at = "entries" /\ save'.new = save.new
  BY <1>0, <1>1, AtUpdate
<1>3. PICK t \in VctlType, v \in Stored :
           /\ <<t, v>> \in tried /\ save.new = Rebuilt(datap, t, v)
           /\ save.new \in Seq(Entry) /\ Len(save.new) >= 1 /\ Distinct(save.new)
  BY <1>1, SavingFacts
<1>4. ~Torn(datap) /\ \E p \in tried : save.new = Rebuilt(datap, p[1], p[2])
  BY <1>1 DEF VctlInv, Saving
<1>5. /\ area' \in AreaImage /\ area'.num = Len(save.new) /\ Len(area'.cells) <= Len(save.new)
      /\ \A i \in 1 .. Len(area'.cells) : area'.cells[i] = save.new[i]
  <2>1. CASE save.at = "header" /\ area' = [num |-> Len(save.new), cells |-> <<>>]
    <3>1. area'.num = Len(save.new) /\ area'.cells = <<>> /\ Len(save.new) \in Nat
      BY <1>3, <2>1
    <3>2. area' \in AreaImage
      BY <2>1, <3>1 DEF AreaImage
    <3>3. Len(area'.cells) = 0
      BY <3>1
    <3> QED BY <3>1, <3>2, <3>3
  <2>2. CASE /\ save.at = "entries" /\ Torn(area)
             /\ area' = [area EXCEPT !.cells = SubSeq(save.new, 1, Len(area.cells) + 1)]
    <3>1. /\ area.num = Len(save.new) /\ Len(area.cells) <= Len(save.new)
          /\ Len(area.cells) \in Nat /\ Len(save.new) \in Nat
      BY <1>0, <1>3, <2>2 DEF VctlInv, Saving, AreaImage
    <3>2. Len(area.cells) < Len(save.new)
      BY <2>2, <3>1 DEF Torn
    <3>3. PICK n \in Nat : n = Len(area.cells) + 1 /\ n <= Len(save.new)
      BY <3>1, <3>2
    <3>4. PICK c : c = SubSeq(save.new, 1, n)
      OBVIOUS
    <3>5. c \in Seq(Entry) /\ Len(c) = n /\ \A i \in 1 .. n : c[i] = save.new[i]
      BY <1>3, <3>3, <3>4, SubSeqProperties
    <3>6. area' = [area EXCEPT !.cells = c]
      BY <2>2, <3>3, <3>4
    <3>7. area' \in AreaImage /\ area'.num = area.num /\ area'.cells = c
      BY <1>0, <3>5, <3>6 DEF AreaImage
    <3> QED BY <3>1, <3>3, <3>5, <3>7
  <2> QED BY <2>1, <2>2 DEF Program
<1>6. Len(area'.cells) \in Nat /\ Len(save.new) \in Nat
  BY <1>3, <1>5 DEF AreaImage
<1>7. Distinct(area'.cells)
  BY <1>3, <1>5, <1>6 DEF Distinct
<1>8. Sound(area')
  BY <1>3, <1>5, <1>6, <1>7 DEF Sound
<1>9. VctlTypeOK'
  BY <1>0, <1>1, <1>2, <1>5 DEF VctlTypeOK, SaveType
<1>10. Saving'
  BY <1>1, <1>2, <1>4, <1>5 DEF Saving, Torn
<1>11. Agrees'
  <2>1. ASSUME NEW u \in VctlType
        PROVE  \/ Get(area', u) = NoEntry \/ Get(area', u) = Get(datap, u)
               \/ u = t /\ Get(area', u) = v
    <3>1. /\ area'.num >= 1 /\ Len(area'.cells) <= Len(Rebuilt(datap, t, v))
          /\ \A i \in 1 .. Len(area'.cells) : area'.cells[i] = Rebuilt(datap, t, v)[i]
      BY <1>3, <1>5, <1>6
    <3>2. PICK b \in AreaImage : b = area'
      BY <1>5
    <3>3. /\ b.num >= 1 /\ Len(b.cells) <= Len(Rebuilt(datap, t, v)) /\ Distinct(b.cells)
          /\ \A i \in 1 .. Len(b.cells) : b.cells[i] = Rebuilt(datap, t, v)[i]
      BY <1>7, <3>1, <3>2
    <3>4. \/ Get(b, u) = NoEntry \/ Get(b, u) = Get(datap, u)
          \/ u = t /\ Get(b, u) = v
      BY <1>0, <3>3, PartFound
    <3> QED BY <3>2, <3>4
  <2> QED BY <1>1, <1>3, <2>1 DEF Agrees
<1>12. Settled'
  BY <1>1, <1>3 DEF Settled
<1> QED BY <1>0, <1>1, <1>8, <1>9, <1>10, <1>11, <1>12 DEF VctlInv

\* All is programmed: the copy in memory takes over what was saved, of which
\* exactly one type has changed.
LEMMA SaveDoneOK ==
  ASSUME VctlInv, SaveDone, ~NAND
  PROVE  /\ VctlInv' /\ tried' = {}
         /\ \E t \in VctlType, v \in Stored :
              /\ <<t, v>> \in tried
              /\ \A u \in VctlType : Get(datap', u) = IF u = t THEN v ELSE Get(datap, u)
<1>0. /\ datap \in AreaImage /\ Sound(datap) /\ area \in AreaImage /\ Sound(area)
      /\ cfg \in [VctlType -> Stored]
  BY DEF VctlInv, VctlTypeOK
<1>1. /\ save.at = "entries" /\ ~Torn(area) /\ datap' = area /\ save' = NoSave /\ tried' = {}
      /\ UNCHANGED <<area, cfg>>
  BY DEF SaveDone
<1>2. PICK t \in VctlType, v \in Stored :
           /\ <<t, v>> \in tried /\ save.new = Rebuilt(datap, t, v)
           /\ save.new \in Seq(Entry) /\ Len(save.new) >= 1 /\ Distinct(save.new)
  BY <1>1, SavingFacts
<1>3. /\ area.num = Len(save.new) /\ Len(area.cells) <= Len(save.new)
      /\ \A i \in 1 .. Len(area.cells) : area.cells[i] = save.new[i]
  BY <1>1 DEF VctlInv, Saving
<1>4. Len(area.cells) = Len(save.new) /\ area.num >= 1
  <2>1. Len(area.cells) \in Nat /\ Len(save.new) \in Nat
    BY <1>0, <1>2 DEF AreaImage
  <2> QED BY <1>1, <1>2, <1>3, <2>1 DEF Torn
<1>5. ASSUME NEW u \in VctlType PROVE Get(area, u) = IF u = t THEN v ELSE Get(datap, u)
  <2>1. /\ Len(area.cells) = Len(Rebuilt(datap, t, v))
        /\ Len(area.cells) <= Len(Rebuilt(datap, t, v))
        /\ \A i \in 1 .. Len(area.cells) : area.cells[i] = Rebuilt(datap, t, v)[i]
        /\ Distinct(area.cells)
    BY <1>0, <1>2, <1>3, <1>4 DEF Sound
  <2> QED BY <1>0, <1>4, <2>1, PartFound
<1>6. save' \in SaveType /\ save'.at = "no"
  BY <1>1 DEF NoSave, SaveType
<1>7. VctlTypeOK'
  BY <1>0, <1>1, <1>6 DEF VctlTypeOK, SaveType
<1>8. Saving'
  BY <1>6 DEF Saving
<1>9. Agrees' /\ Settled' /\ Sound(area)' /\ Sound(datap)'
  BY <1>0, <1>1 DEF Agrees, Settled
<1>10. VctlInv'
  BY <1>7, <1>8, <1>9 DEF VctlInv
<1> QED BY <1>1, <1>2, <1>5, <1>10

\* The flash refuses, and the save is given up where it is.
LEMMA FlashFailsOK ==
  ASSUME VctlInv, FlashFails
  PROVE  VctlInv'
<1>1. save' = NoSave /\ UNCHANGED <<area, datap, cfg, tried>>
  BY DEF FlashFails
<1>2. save' \in SaveType /\ save'.at = "no"
  BY <1>1 DEF NoSave, SaveType
<1>3. VctlTypeOK' /\ Saving'
  BY <1>1, <1>2 DEF VctlInv, VctlTypeOK, SaveType, Saving
<1>4. Agrees' /\ Settled' /\ Sound(area)' /\ Sound(datap)'
  BY <1>1 DEF VctlInv, Agrees, Settled
<1> QED BY <1>3, <1>4 DEF VctlInv

\* A reset, at any point of a save.
LEMMA VctlBootOK ==
  ASSUME VctlInv, VctlBoot
  PROVE  /\ VctlInv' /\ datap' = area
         /\ tried' = {} \/ tried' = {<<"VLAN", 0>>}
<1>0. /\ area \in AreaImage /\ Sound(area) /\ "VLAN" \in VctlType /\ 0 \in Stored
  BY DEF VctlInv, VctlTypeOK, VctlType, Stored
<1>1. datap' = area /\ area' = area /\ cfg' = InitCfg(area)
  BY DEF VctlBoot
<1>2. cfg' \in [VctlType -> Stored]
  <2>1. \A t \in VctlType : Fetched(area, t) \in Stored
    BY <1>0, GetType DEF Fetched, Sound
  <2>2. cfg' = [VLAN |-> Fetched(area, "VLAN"), IP |-> Fetched(area, "IP"),
                BOOT_FILE |-> Fetched(area, "BOOT_FILE")]
    BY <1>1 DEF InitCfg, GetMac, GetIp, GetBootFile
  <2>3. /\ Fetched(area, "VLAN") \in Stored /\ Fetched(area, "IP") \in Stored
        /\ Fetched(area, "BOOT_FILE") \in Stored
    BY <2>1 DEF VctlType
  <2> QED BY <2>2, <2>3 DEF VctlType
<1>3. CASE save' = NoSave /\ tried' = {}
  <2>1. save' \in SaveType /\ save'.at = "no"
    BY <1>3 DEF NoSave, SaveType
  <2>2. VctlTypeOK' /\ Saving'
    BY <1>0, <1>1, <1>2, <1>3, <2>1 DEF VctlTypeOK, SaveType, Saving
  <2>3. Agrees' /\ Settled' /\ Sound(area)' /\ Sound(datap)'
    BY <1>0, <1>1 DEF Agrees, Settled
  <2> QED BY <1>1, <1>3, <2>2, <2>3 DEF VctlInv
<1>4. CASE /\ tried' = {<<"VLAN", 0>>}
           /\ save' = [at |-> IF Torn(area) THEN "stuck" ELSE "erase",
                       new |-> Rebuilt(area, "VLAN", 0)]
  <2> DEFINE stage == IF Torn(area) THEN "stuck" ELSE "erase"
             new == Rebuilt(area, "VLAN", 0)
  <2>1. new \in Seq(Entry)
    BY <1>0, RebuiltIs
  <2>2. stage \in {"stuck", "erase"} /\ (stage = "erase" => ~Torn(area))
    OBVIOUS
  <2>3. save' = [at |-> stage, new |-> new]
    BY <1>4
  <2> HIDE DEF stage, new
  <2>4. save' \in SaveType /\ save'.at = stage /\ save'.new = new
    BY <2>1, <2>2, <2>3 DEF SaveType
  <2>5. VctlTypeOK'
    BY <1>0, <1>1, <1>2, <1>4, <2>4 DEF VctlTypeOK, SaveType
  <2>6. Saving'
    <3>1. <<"VLAN", 0>> \in tried'
          /\ save'.new = Rebuilt(datap', <<"VLAN", 0>>[1], <<"VLAN", 0>>[2])
      BY <1>1, <1>4, <2>4 DEF new
    <3>2. ~Torn(area) => ~Torn(datap')
      BY <1>1
    <3> QED BY <2>2, <2>4, <3>1, <3>2 DEF Saving, Torn
  <2>7. Agrees' /\ Settled' /\ Sound(area)' /\ Sound(datap)'
    BY <1>0, <1>1 DEF Agrees, Settled
  <2> QED BY <1>1, <1>4, <2>5, <2>6, <2>7 DEF VctlInv
<1> QED BY <1>3, <1>4 DEF VctlBoot

-----------------------------------------------------------------------------
(* The refinement                                                           *)

\* The store that the copy in memory is.
Held == [t \in VctlType |-> Get(datap, t)]

\* Every step of the vendor control data is one of the store, or none.
LEMMA StepImplements ==
  ASSUME VctlInv, VctlNext, ~NAND
  PROVE  VctlInv' /\ (Store!Next \/ (Held' = Held /\ tried' = tried /\ era' = era))
<1>0. /\ area \in AreaImage /\ Sound(area) /\ datap \in AreaImage /\ Sound(datap)
  BY DEF VctlInv, VctlTypeOK
<1>1. CASE VctlBoot
  <2>1. VctlInv' /\ datap' = area /\ era' = 1 - era
        /\ (tried' = {} \/ tried' = {<<"VLAN", 0>>})
    BY <1>1, VctlBootOK DEF VctlBoot
  <2>2. Held' = [t \in VctlType |-> Get(area, t)]
    BY <2>1 DEF Held
  <2>3. Held' \in [VctlType -> Stored \cup {NoEntry}]
    BY <1>0, <2>2, GetType DEF Sound
  <2>4. tried = {} => Held' = Held
    BY <2>1 DEF VctlInv, Settled, Held
  <2>5. \A t \in VctlType : Held'[t] \in {NoEntry, Held[t]} \/ <<t, Held'[t]>> \in tried
    BY <2>2 DEF VctlInv, Agrees, Held
  <2>6. "VLAN" \in VctlType /\ 0 \in Stored
    BY DEF VctlType, Stored
  <2>7. Store!Restart
    BY <2>1, <2>3, <2>4, <2>5, <2>6 DEF Store!Restart, Held
  <2> QED BY <2>1, <2>7 DEF Store!Next
<1>2. CASE SetIp \/ SetMac \/ UpdateBootFile
  <2>1. /\ VctlInv' /\ UNCHANGED <<area, datap, era>>
        /\ tried' = tried \/ \E t \in VctlType, v \in Stored : tried' = tried \cup {<<t, v>>}
    BY <1>2, MenuOK
  <2>2. Held' = Held
    BY <2>1 DEF Held
  <2>3. CASE \E t \in VctlType, v \in Stored : tried' = tried \cup {<<t, v>>}
    <3>1. Store!Begin
      BY <2>1, <2>2, <2>3 DEF Store!Begin, Held
    <3> QED BY <2>1, <3>1 DEF Store!Next
  <2> QED BY <2>1, <2>2, <2>3
<1>3. CASE Erase
  <2>1. VctlInv'
    BY <1>3, EraseOK
  <2> QED BY <1>3, <2>1 DEF Erase, Held
<1>4. CASE Program
  <2>1. VctlInv'
    BY <1>4, ProgramOK
  <2> QED BY <1>4, <2>1 DEF Program, Held
<1>5. CASE SaveDone
  <2>1. VctlInv' /\ tried' = {} /\ era' = era
    BY <1>5, SaveDoneOK DEF SaveDone
  <2>2. PICK t \in VctlType, v \in Stored :
              /\ <<t, v>> \in tried
              /\ \A u \in VctlType : Get(datap', u) = IF u = t THEN v ELSE Get(datap, u)
    BY <1>5, SaveDoneOK
  <2>3. Held' = [Held EXCEPT ![t] = v]
    BY <2>2 DEF Held
  <2>4. Held' = [Held EXCEPT ![<<t, v>>[1]] = <<t, v>>[2]]
    BY <2>3
  <2>5. Store!Commit
    BY <2>1, <2>2, <2>4 DEF Store!Commit, Held
  <2> QED BY <2>1, <2>5 DEF Store!Next
<1>6. CASE FlashFails
  <2>1. VctlInv'
    BY <1>6, FlashFailsOK
  <2> QED BY <1>6, <2>1 DEF FlashFails, Held
<1> QED BY <1>1, <1>2, <1>3, <1>4, <1>5, <1>6 DEF VctlNext

\* The vendor control data of the NOR build, which reads the area back after a
\* save (sys_save_vctl_entry), implement the store whose saves are atomic and
\* that never goes back to an older value: whatever the flash refuses and
\* wherever the power fails, for every set of values.
THEOREM StoreImplemented ==
  ASSUME ~NAND
  PROVE  VctlSpec => StoreSpec
<1>1. VctlInit => VctlInv /\ Store!Init
  <2> SUFFICES ASSUME VctlInit PROVE VctlInv /\ Store!Init
    OBVIOUS
  <2>1. VctlInv
    BY VctlInitOK
  <2>2. Held \in [VctlType -> Stored \cup {NoEntry}] /\ tried \subseteq VctlType \X Stored
    BY <2>1, GetType DEF Held, VctlInv, VctlTypeOK, Sound
  <2>3. era = 0
    BY DEF VctlInit
  <2> QED BY <2>1, <2>2, <2>3 DEF Store!Init, Held
<1>2. VctlInv /\ [VctlNext]_vctlVars => VctlInv'
  <2> SUFFICES ASSUME VctlInv, UNCHANGED vctlVars PROVE VctlInv'
    BY StepImplements
  <2>1. /\ area' = area /\ datap' = datap /\ cfg' = cfg /\ save' = save /\ tried' = tried
    BY DEF vctlVars
  <2>2. VctlTypeOK' /\ Saving'
    BY <2>1 DEF VctlInv, VctlTypeOK, Saving, Torn
  <2> QED BY <2>1, <2>2 DEF VctlInv, Agrees, Settled
<1>3. VctlInv /\ [VctlNext]_vctlVars =>
        [Store!Next]_<<[t \in VctlType |-> Get(datap, t)], tried, era>>
  <2>1. ASSUME VctlInv, VctlNext
        PROVE  [Store!Next]_<<[t \in VctlType |-> Get(datap, t)], tried, era>>
    BY <2>1, StepImplements DEF Held
  <2>2. ASSUME UNCHANGED vctlVars
        PROVE  UNCHANGED <<[t \in VctlType |-> Get(datap, t)], tried, era>>
    BY <2>2 DEF vctlVars
  <2> QED BY <2>1, <2>2
<1> QED BY <1>1, <1>2, <1>3, PTL DEF VctlSpec, StoreSpec, Store!Spec

-----------------------------------------------------------------------------
(* Disk: transfers                                                          *)

DriveRec == [disk : BOOLEAN, lba48 : BOOLEAN, mbr : SUBSET PartId, busy : BOOLEAN,
             err : BOOLEAN, irq : BOOLEAN, count : Nat]
IdeRec   == [present : BOOLEAN, expect : BOOLEAN, mode : Int]
ReqRec   == [at : {"no", "command", "expect", "start", "wait"}, ctl : Ctl,
             write : BOOLEAN, n : 0 .. MaxReq, prd : BOOLEAN, moved : Nat,
             res : {None, 0, 1}]

DiskTypeOK ==
  drive \in [Ctl -> DriveRec] /\ ide \in [Ctl -> IdeRec] /\ req \in ReqRec

\* The drive at work on the command in progress, and nothing reported yet.
AtWork(d) == d.busy /\ ~d.err /\ ~d.irq /\ d.count = req.n

Failed(d) == ~d.busy /\ d.err

\* How far the command in progress is: an interrupt that irq_expect shows can
\* only be its own, and before the bus master runs only that of a failure.
Underway ==
  LET d == drive[req.ctl]
      x == ide[req.ctl].expect
  IN  /\ req.at # "no" => req.n >= 1 /\ req.res = None
      /\ req.prd => req.n >= 1
      /\ req.at \in {"command", "expect", "start"} => ~req.prd
      /\ req.at = "command" => ~d.busy /\ ~d.irq
      /\ req.at = "expect" => AtWork(d) \/ Failed(d)
      /\ req.at = "start" => (AtWork(d) /\ ~x) \/ Failed(d)
      /\ req.at = "wait" => /\ req.prd /\ ~Piped
                            /\ \/ AtWork(d) /\ ~x
                               \/ Failed(d)
                               \/ ~d.busy /\ req.moved = req.n

\* A transfer that was waited for leaves no drive at work.
Ended ==
  req.at = "no" /\ req.res = 1 /\ req.prd /\ ~Piped => ~drive[req.ctl].busy

DiskInv == DiskTypeOK /\ Underway /\ Ended /\ DoneIsMoved

\* Every nonempty set of naturals has a least element.
LEMMA LeastNat ==
  ASSUME NEW S \in SUBSET Nat, S # {}
  PROVE  \E n \in S : \A m \in S : n <= m
<1>1. PICK R : R = {ss \in Nat \X Nat : ss[1] < ss[2]}
  OBVIOUS
<1>2. IsWellFoundedOn(R, Nat)
  BY <1>1, NatLessThanWellFounded DEF OpToRel
<1>3. PICK n \in S : \A m \in S : ~(<<m, n>> \in R)
  BY <1>2, WFMin
<1>4. \A m \in S : ~(m < n)
  BY <1>1, <1>3
<1> QED BY <1>4

\* The entries of the table: k - 1 full ones and a rest of 1 to p sectors.
LEMMA Entries ==
  ASSUME NEW p \in Nat \ {0}, NEW n \in Nat \ {0}
  PROVE  LET k == (n + p - 1) \div p
         IN  /\ k \in Nat \ {0}
             /\ n - (k - 1) * p \in 1 .. p
<1>1. PICK q \in Nat, r \in 0 .. p - 1 : q = (n + p - 1) \div p /\ n + p - 1 = p * q + r
  <2>1. n + p - 1 \in Nat
    OBVIOUS
  <2>2. PICK x \in Nat : x = n + p - 1
    BY <2>1
  <2>3. x = p * (x \div p) + (x % p) /\ x \div p \in Nat /\ x % p \in 0 .. p - 1
    OBVIOUS
  <2> QED BY <2>2, <2>3
<1>2. q # 0
  <2>1. q = 0 => p * q = 0
    OBVIOUS
  <2> QED BY <1>1, <2>1
<1>3. (q - 1) * p = p * q - p /\ p * q \in Nat
  OBVIOUS
<1> QED BY <1>1, <1>2, <1>3

\* ide_build_prd covers the request exactly: the entries add up to it.
LEMMA PrdExact ==
  ASSUME NEW n \in Nat \ {0}
  PROVE  PrdSum(Prd(n)) = n
<1>0. PICK p \in Nat \ {0} : p = PrdMax
  BY DiskAssumption
<1>1. PICK k \in Nat \ {0} : k = (n + p - 1) \div p /\ n - (k - 1) * p \in 1 .. p
  BY Entries
<1>2. PICK t : t = Prd(n)
  OBVIOUS
<1>3. t = [i \in 1 .. k |-> (IF i < k THEN 0 ELSE n - (k - 1) * p) % p]
  BY <1>0, <1>1, <1>2 DEF Prd
<1>4. Len(t) = k
  BY <1>3
<1>5. PICK w : w = [i \in 1 .. k |-> IF t[i] = 0 THEN PrdMax ELSE t[i]]
  OBVIOUS
<1>6. \A i \in 1 .. k : w[i] = IF i < k THEN p ELSE n - (k - 1) * p
  <2>1. ASSUME NEW i \in 1 .. k, i < k PROVE w[i] = p
    BY <1>0, <1>3, <1>5, <2>1
  <2>2. ASSUME NEW i \in 1 .. k, i = k PROVE w[i] = n - (k - 1) * p
    <3>1. PICK r \in 1 .. p : r = n - (k - 1) * p
      BY <1>1
    <3>2. t[i] = r % p
      BY <1>3, <2>2, <3>1
    <3>3. CASE r = p
      BY <1>0, <1>5, <3>1, <3>2, <3>3
    <3>4. CASE r # p
      BY <1>0, <1>5, <3>1, <3>2, <3>4
    <3> QED BY <3>3, <3>4
  <2> QED BY <2>1, <2>2
<1>7. PICK F : F = [i \in 0 .. k |-> IF i < k THEN i * p ELSE n]
  OBVIOUS
\* The partial sums, in closed form, satisfy the recursion.
<1>8. F = [i \in 0 .. k |-> IF i = 0 THEN 0 ELSE F[i - 1] + w[i]]
  <2>1. ASSUME NEW i \in 0 .. k, i # 0
        PROVE  F[i] = F[i - 1] + w[i]
    <3>1. i - 1 \in 0 .. k /\ i - 1 < k /\ F[i - 1] = (i - 1) * p
      BY <1>7, <2>1
    <3>2. (i - 1) * p = i * p - p /\ i * p \in Nat
      OBVIOUS
    <3>3. CASE i < k
      BY <1>6, <1>7, <2>1, <3>1, <3>2, <3>3
    <3>4. CASE i = k
      <4>1. w[i] = n - (k - 1) * p /\ F[i] = n /\ (k - 1) * p \in Nat
        BY <1>6, <1>7, <2>1, <3>4
      <4> QED BY <3>1, <3>4, <4>1
    <3> QED BY <3>3, <3>4
  <2>2. F[0] = 0
    BY <1>7
  <2> QED BY <1>7, <2>1, <2>2
<1>9. PICK g : /\ g = [i \in 0 .. k |-> IF i = 0 THEN 0 ELSE g[i - 1] + w[i]]
               /\ PrdSum(t) = g[k]
  <2> DEFINE Rec(h) == h = [i \in 0 .. Len(t) |-> IF i = 0 THEN 0
                            ELSE h[i - 1] + (IF t[i] = 0 THEN PrdMax ELSE t[i])]
  <2>1. PrdSum(t) = (CHOOSE h : Rec(h))[Len(t)]
    BY DEF PrdSum
  <2>2. Rec(F)
    <3>1. \A i \in 0 .. k : i # 0 => w[i] = IF t[i] = 0 THEN PrdMax ELSE t[i]
      BY <1>5
    <3>2. F = [i \in 0 .. k |-> IF i = 0 THEN 0
                                ELSE F[i - 1] + (IF t[i] = 0 THEN PrdMax ELSE t[i])]
      BY <1>8, <3>1
    <3> QED BY <1>4, <3>2
  <2>3. Rec(CHOOSE h : Rec(h))
    BY <2>2
  <2>4. PICK g : g = (CHOOSE h : Rec(h))
    OBVIOUS
  <2>5. Rec(g)
    BY <2>3, <2>4
  <2>6. g = [i \in 0 .. k |-> IF i = 0 THEN 0
                             ELSE g[i - 1] + (IF t[i] = 0 THEN PrdMax ELSE t[i])]
    BY <1>4, <2>5
  <2>7. g = [i \in 0 .. k |-> IF i = 0 THEN 0 ELSE g[i - 1] + w[i]]
    <3>1. \A i \in 0 .. k : i # 0 => w[i] = IF t[i] = 0 THEN PrdMax ELSE t[i]
      BY <1>5
    <3> HIDE DEF Rec
    <3> QED BY <2>6, <3>1
  <2>8. PrdSum(t) = g[k]
    BY <1>4, <2>1, <2>4
  <2> HIDE DEF Rec
  <2> QED BY <2>7, <2>8
\* It has one solution: at a least difference the step before is equal.
<1>10. \A i \in 0 .. k : g[i] = F[i]
  <2>0. PICK S : S = {i \in 0 .. k : g[i] # F[i]}
    OBVIOUS
  <2>1. SUFFICES ASSUME S # {} PROVE FALSE
    BY <2>0
  <2>2. PICK i \in 0 .. k : g[i] # F[i] /\ \A m \in 0 .. k : g[m] # F[m] => i <= m
    <3>1. S \in SUBSET Nat
      BY <2>0
    <3>2. PICK i \in S : \A m \in S : i <= m
      BY <2>1, <3>1, LeastNat
    <3> QED BY <2>0, <3>2
  <2>3. i # 0
    BY <1>8, <1>9, <2>2
  <2>4. i - 1 \in 0 .. k /\ g[i - 1] = F[i - 1]
    BY <2>2, <2>3
  <2>5. g[i] = g[i - 1] + w[i]
    BY <1>9, <2>3
  <2>6. F[i] = F[i - 1] + w[i]
    BY <1>8, <2>3
  <2> QED BY <2>2, <2>4, <2>5, <2>6
<1> QED BY <1>2, <1>7, <1>9, <1>10

LEMMA Controllers == 0 \in Ctl /\ MaxReq \in Nat /\ None \in Int /\ None # 1 /\ None # 0
  BY DiskAssumption DEF Ctl, None

\* The task file asks for the sectors of the request: the 8-bit count of
\* LBA28 wraps only at its whole range, which stands for itself.
LEMMA TaskIsRequest ==
  ASSUME NEW c \in Ctl, NEW n \in 1 .. MaxReq
  PROVE  TaskCount(c, n) = n
<1>1. PICK m \in Nat \ {0, 1} : m = Count8
  BY DiskAssumption
<1>2. n \in 1 .. m
  BY <1>1, DiskAssumption
<1>3. CASE n = m
  <2>1. m % m = 0
    BY <1>2
  <2> QED BY <1>1, <1>3, <2>1 DEF TaskCount
<1>4. CASE n # m
  <2>1. n % m = n
    BY <1>2, <1>4
  <2> QED BY <1>1, <1>2, <1>4, <2>1 DEF TaskCount
<1> QED BY <1>3, <1>4

\* One drive changes: what the others are does not.
LEMMA InitDisk == DiskInit => DiskInv
<1> SUFFICES ASSUME DiskInit PROVE DiskInv
  OBVIOUS
<1>1. drive \in [Ctl -> DriveRec]
  <2>1. Drives \subseteq DriveRec
    <3>1. \A m \in {{}, PartId} : m \in SUBSET PartId
      OBVIOUS
    <3>2. SUFFICES ASSUME NEW x \in Drives PROVE x \in DriveRec
      OBVIOUS
    <3>3. PICK d, l \in BOOLEAN, m \in {{}, PartId} :
            x = [disk |-> d, lba48 |-> l, mbr |-> m, busy |-> FALSE, err |-> FALSE,
                 irq |-> FALSE, count |-> 0]
      BY DEF Drives
    <3>4. m \in SUBSET PartId
      BY <3>1, <3>3
    <3> QED BY <3>3, <3>4 DEF DriveRec
  <2> QED BY <2>1 DEF DiskInit
<1>2. ide \in [Ctl -> IdeRec]
  BY Controllers DEF DiskInit, IdeRec
<1>3. req \in ReqRec /\ req.at = "no" /\ req.res = None /\ ~req.prd
  BY Controllers DEF DiskInit, NoReq, ReqRec
<1> QED BY <1>1, <1>2, <1>3, Controllers
        DEF DiskInv, DiskTypeOK, Underway, Ended, DoneIsMoved

\* ide_init leaves transfers alone: it clears no irq_expect.
LEMMA ScanDisk ==
  ASSUME DiskInv, IdeInit \/ ScanCtl
  PROVE  DiskInv'
<1>1. drive' = drive /\ req' = req
  BY DEF IdeInit, ScanCtl
<1>2. ide' \in [Ctl -> IdeRec] /\ \A c \in Ctl : ide'[c].expect = ide[c].expect
  <2>1. CASE ide' = ide
    BY <2>1 DEF DiskInv, DiskTypeOK
  <2>2. ASSUME NEW c, ide' = [ide EXCEPT ![c].present = FALSE]
        PROVE  ide' \in [Ctl -> IdeRec] /\ \A x \in Ctl : ide'[x].expect = ide[x].expect
    BY <2>2 DEF DiskInv, DiskTypeOK, IdeRec
  <2>3. ASSUME NEW c, NEW m \in Int, ide' = [ide EXCEPT ![c].present = TRUE, ![c].mode = m]
        PROVE  ide' \in [Ctl -> IdeRec] /\ \A x \in Ctl : ide'[x].expect = ide[x].expect
    BY <2>3 DEF DiskInv, DiskTypeOK, IdeRec
  <2>4. ASSUME NEW c, NEW id \in Ident(c) PROVE SetXferMode(id.udma) \in Int
    <3>1. id.udma \in SUBSET Udma
      BY <2>4 DEF Ident
    <3>2. CASE id.udma = {}
      BY <3>2, Controllers DEF SetXferMode
    <3>3. CASE id.udma # {}
      <4>1. id.udma = {5}
        BY <3>1, <3>3 DEF Udma
      <4> QED BY <4>1 DEF SetXferMode
    <3> QED BY <3>2, <3>3
  <2>5. CASE IdeInit
    BY <2>1, <2>5 DEF IdeInit
  <2>6. CASE ScanCtl
    <3>1. CASE UNCHANGED ide
      BY <2>1, <3>1
    <3>2. CASE InitDisks(scan.ctl)
      BY <2>2, <2>3, <2>4, <3>2 DEF InitDisks
    <3> QED BY <2>6, <3>1, <3>2 DEF ScanCtl
  <2> QED BY <2>5, <2>6
<1>3. req.ctl \in Ctl
  BY DEF DiskInv, DiskTypeOK, ReqRec
<1> QED BY <1>1, <1>2, <1>3 DEF DiskInv, DiskTypeOK, Underway, Ended, DoneIsMoved,
           AtWork, Failed, Piped

\* A transfer begins, with the status read and the interrupt cleared, or is
\* refused because the drive is busy.
LEMMA StartDmaDisk ==
  ASSUME DiskInv, StartDma
  PROVE  DiskInv'
<1>1. PICK c \in Ctl, n \in 1 .. MaxReq, w \in BOOLEAN :
        WaitBusy(c, [at |-> "command", ctl |-> c, write |-> w, n |-> n,
                     prd |-> FALSE, moved |-> 0, res |-> None])
  BY DEF StartDma
<1>2. drive \in [Ctl -> DriveRec] /\ ide \in [Ctl -> IdeRec] /\ ide' = ide
  BY DEF DiskInv, DiskTypeOK, StartDma
<1>3. CASE ~drive[c].busy
  <2>1. /\ drive' = [drive EXCEPT ![c].irq = FALSE]
        /\ req' = [at |-> "command", ctl |-> c, write |-> w, n |-> n,
                   prd |-> FALSE, moved |-> 0, res |-> None]
    BY <1>1, <1>3 DEF WaitBusy
  <2>2. drive' \in [Ctl -> DriveRec] /\ ~drive'[c].busy /\ ~drive'[c].irq
    BY <1>2, <1>3, <2>1 DEF DriveRec
  <2>3. req' \in ReqRec
    BY <2>1, Controllers DEF ReqRec
  <2> QED BY <1>2, <2>1, <2>2, <2>3, Controllers
          DEF DiskInv, DiskTypeOK, Underway, Ended, DoneIsMoved
<1>4. CASE drive[c].busy
  <2>1. /\ drive' = drive
        /\ req' = [at |-> "no", ctl |-> c, write |-> w, n |-> n,
                   prd |-> FALSE, moved |-> 0, res |-> 0]
    BY <1>1, <1>4 DEF WaitBusy
  <2>2. req' \in ReqRec
    BY <2>1, Controllers DEF ReqRec
  <2> QED BY <1>2, <2>1, <2>2 DEF DiskInv, DiskTypeOK, Underway, Ended, DoneIsMoved
<1> QED BY <1>3, <1>4

LEMMA CommandDisk ==
  ASSUME DiskInv, Command
  PROVE  DiskInv'
<1>1. PICK c \in Ctl, n \in 1 .. MaxReq : c = req.ctl /\ n = req.n
  BY DEF DiskInv, DiskTypeOK, ReqRec, Command, Underway
<1>2. /\ drive \in [Ctl -> DriveRec] /\ ide \in [Ctl -> IdeRec] /\ ide' = ide
      /\ req \in ReqRec /\ req.at = "command" /\ ~req.prd /\ req.res = None
      /\ ~drive[c].irq
  BY <1>1 DEF DiskInv, DiskTypeOK, Command, Underway
<1>3. TaskCount(c, n) = n
  BY TaskIsRequest
<1>4. drive' = [drive EXCEPT ![c].busy = TRUE, ![c].err = FALSE, ![c].count = n]
  BY <1>1, <1>3 DEF Command
<1>5. drive' \in [Ctl -> DriveRec] /\ drive'[c].busy /\ ~drive'[c].err
      /\ drive'[c].count = n /\ ~drive'[c].irq
  <2>1. n \in Nat
    BY Controllers
  <2>2. drive'[c].busy /\ ~drive'[c].err /\ drive'[c].count = n /\ ~drive'[c].irq
    BY <1>2, <1>4 DEF DriveRec
  <2>3. drive' \in [Ctl -> DriveRec]
    <3>1. PICK r : r = [drive[c] EXCEPT !.busy = TRUE, !.err = FALSE, !.count = n]
      OBVIOUS
    <3>2. r \in DriveRec
      BY <1>2, <2>1, <3>1 DEF DriveRec
    <3>3. drive' = [drive EXCEPT ![c] = r]
      BY <1>2, <1>4, <3>1 DEF DriveRec
    <3> QED BY <1>2, <3>2, <3>3
  <2> QED BY <2>2, <2>3
<1>6. /\ req' = [req EXCEPT !.at = "expect"] /\ req' \in ReqRec
      /\ req'.ctl = c /\ req'.n = n /\ req'.at = "expect" /\ req'.res = None /\ ~req'.prd
  BY <1>1, <1>2 DEF Command, ReqRec
<1> QED BY <1>2, <1>5, <1>6, Controllers
        DEF DiskInv, DiskTypeOK, Underway, Ended, DoneIsMoved, AtWork

\* What the handler did before irq_expect was cleared was about a failure.
LEMMA ExpectDisk ==
  ASSUME DiskInv, Expect
  PROVE  DiskInv'
<1>1. PICK c \in Ctl, n \in 1 .. MaxReq : c = req.ctl /\ n = req.n
  BY DEF DiskInv, DiskTypeOK, ReqRec, Expect, Underway
<1>2. /\ drive \in [Ctl -> DriveRec] /\ ide \in [Ctl -> IdeRec] /\ drive' = drive
      /\ req \in ReqRec /\ req.at = "expect" /\ ~req.prd /\ req.res = None
      /\ AtWork(drive[c]) \/ Failed(drive[c])
  BY <1>1 DEF DiskInv, DiskTypeOK, Expect, Underway
<1>3. ide' \in [Ctl -> IdeRec] /\ ~ide'[c].expect
  BY <1>1, <1>2 DEF Expect, IdeRec
<1>4. /\ req' = [req EXCEPT !.at = "start"] /\ req' \in ReqRec
      /\ req'.ctl = c /\ req'.n = n /\ req'.at = "start" /\ req'.res = None /\ ~req'.prd
  BY <1>1, <1>2 DEF Expect, ReqRec
<1> QED BY <1>1, <1>2, <1>3, <1>4, Controllers
        DEF DiskInv, DiskTypeOK, Underway, Ended, DoneIsMoved, AtWork, Failed

LEMMA StartDisk ==
  ASSUME DiskInv, Start
  PROVE  DiskInv'
<1>1. PICK c \in Ctl, n \in 1 .. MaxReq : c = req.ctl /\ n = req.n
  BY DEF DiskInv, DiskTypeOK, ReqRec, Start, Underway
<1>2. /\ drive' = drive /\ ide' = ide
      /\ req \in ReqRec /\ req.at = "start" /\ req.res = None
      /\ (AtWork(drive[c]) /\ ~ide[c].expect) \/ Failed(drive[c])
  BY <1>1 DEF DiskInv, DiskTypeOK, Start, Underway
<1>3. CASE Piped
  <2>1. /\ req' = [req EXCEPT !.at = "no", !.prd = TRUE, !.res = 1] /\ req' \in ReqRec
        /\ req'.at = "no" /\ req'.prd /\ req'.write = req.write /\ req'.n = req.n
    BY <1>2, <1>3 DEF Start, ReqRec
  <2>2. Piped'
    BY <1>3, <2>1 DEF Piped
  <2> QED BY <1>2, <2>1, <2>2 DEF DiskInv, DiskTypeOK, Underway, Ended, DoneIsMoved
<1>4. CASE ~Piped
  <2>1. /\ req' = [req EXCEPT !.at = "wait", !.prd = TRUE] /\ req' \in ReqRec
        /\ req'.at = "wait" /\ req'.prd /\ req'.write = req.write /\ req'.n = n
        /\ req'.ctl = c /\ req'.res = None
    BY <1>1, <1>2, <1>4 DEF Start, ReqRec
  <2>2. ~Piped'
    BY <1>1, <1>4, <2>1 DEF Piped
  <2> QED BY <1>1, <1>2, <2>1, <2>2, Controllers
          DEF DiskInv, DiskTypeOK, Underway, Ended, DoneIsMoved, AtWork, Failed
<1> QED BY <1>3, <1>4

LEMMA WaitInterruptDisk ==
  ASSUME DiskInv, WaitInterrupt
  PROVE  DiskInv'
<1>1. PICK c \in Ctl : c = req.ctl
  BY DEF DiskInv, DiskTypeOK, ReqRec
<1>2. /\ drive \in [Ctl -> DriveRec] /\ ide \in [Ctl -> IdeRec] /\ ide' = ide
      /\ req \in ReqRec /\ req.at = "wait"
      /\ \/ AtWork(drive[c]) /\ ~ide[c].expect
         \/ Failed(drive[c])
         \/ ~drive[c].busy /\ req.moved = req.n
  BY <1>1 DEF DiskInv, DiskTypeOK, WaitInterrupt, Underway
<1>3. PICK r \in {0, 1} : /\ req' = [req EXCEPT !.at = "no", !.res = r]
                          /\ r = 1 => ide[c].expect /\ ~drive[c].err
  <2>1. CASE ide[c].expect
    <3>1. Return(IF drive[c].err THEN 0 ELSE 1)
      BY <1>1, <2>1 DEF WaitInterrupt
    <3>2. CASE drive[c].err
      <4>1. Return(0)
        BY <3>1, <3>2
      <4> QED BY <4>1 DEF Return
    <3>3. CASE ~drive[c].err
      <4>1. Return(1)
        BY <3>1, <3>3
      <4> QED BY <2>1, <3>3, <4>1 DEF Return
    <3> QED BY <3>2, <3>3
  <2>2. CASE ~ide[c].expect
    <3>1. Return(0)
      BY <1>1, <2>2 DEF WaitInterrupt
    <3> QED BY <3>1 DEF Return
  <2> QED BY <2>1, <2>2
<1>4. /\ req' \in ReqRec /\ req'.at = "no" /\ req'.res = r /\ req'.ctl = c
      /\ req'.moved = req.moved /\ req'.n = req.n
  BY <1>1, <1>2, <1>3 DEF ReqRec
<1>5. drive' \in [Ctl -> DriveRec] /\ drive'[c].busy = drive[c].busy
  <2>1. CASE drive' = drive
    BY <1>2, <2>1
  <2>2. CASE drive' = [drive EXCEPT ![c].irq = FALSE]
    BY <1>2, <2>2 DEF DriveRec
  <2> QED BY <1>1, <2>1, <2>2 DEF WaitInterrupt
<1>6. r = 1 => ~drive[c].busy /\ req.moved = req.n
  BY <1>2, <1>3 DEF AtWork, Failed
<1> QED BY <1>2, <1>4, <1>5, <1>6 DEF DiskInv, DiskTypeOK, Underway, Ended, DoneIsMoved

\* PIO: the whole transfer in one call.
LEMMA PioDisk ==
  ASSUME DiskInv, ReadSectors \/ WriteSectors
  PROVE  DiskInv'
<1>1. drive \in [Ctl -> DriveRec] /\ ide \in [Ctl -> IdeRec] /\ ide' = ide
  BY DEF DiskInv, DiskTypeOK, ReadSectors, WriteSectors
<1>2. /\ req'.at = "no" /\ req' \in ReqRec /\ ~req'.prd
      /\ req'.res = 1 => req'.moved = req'.n
  <2>1. CASE ReadSectors
    <3>1. PICK c \in Ctl, n \in 1 .. MaxReq : \E m \in 0 .. TaskCount(c, n) :
            WaitBusy(c, [NoReq EXCEPT !.ctl = c, !.n = n, !.moved = m,
                                      !.res = IF m = n THEN 1 ELSE 0])
      BY <2>1 DEF ReadSectors
    <3>2. PICK m \in 0 .. n :
            WaitBusy(c, [NoReq EXCEPT !.ctl = c, !.n = n, !.moved = m,
                                      !.res = IF m = n THEN 1 ELSE 0])
      BY <3>1, TaskIsRequest
    <3>3. PICK z \in {0, 1} : z = IF m = n THEN 1 ELSE 0
      OBVIOUS
    <3>4. PICK e : e = [NoReq EXCEPT !.ctl = c, !.n = n, !.moved = m, !.res = z]
      OBVIOUS
    <3>5. e \in ReqRec /\ e.at = "no" /\ ~e.prd /\ e.moved = m /\ e.n = n /\ e.res = z
      <4>1. NoReq \in ReqRec /\ NoReq.at = "no" /\ ~NoReq.prd
        BY Controllers DEF NoReq, ReqRec
      <4>2. n \in 0 .. MaxReq /\ m \in Nat
        BY Controllers
      <4> QED BY <3>4, <4>1, <4>2 DEF ReqRec
    <3>6. WaitBusy(c, e)
      BY <3>2, <3>3, <3>4
    <3>7. CASE req' = e
      BY <3>3, <3>5, <3>7
    <3>8. CASE req' = [e EXCEPT !.at = "no", !.res = 0]
      <4>1. req'.at = "no" /\ req'.res = 0 /\ req'.prd = e.prd
        BY <3>5, <3>8 DEF ReqRec
      <4>2. req' \in ReqRec
        BY <3>5, <3>8 DEF ReqRec
      <4> QED BY <3>5, <4>1, <4>2
    <3> QED BY <3>6, <3>7, <3>8 DEF WaitBusy
  <2>2. CASE WriteSectors
    <3>1. PICK c \in Ctl, drq \in BOOLEAN :
            req' = [at |-> "no", ctl |-> c, write |-> TRUE, n |-> 1, prd |-> FALSE,
                    moved |-> IF drq THEN 1 ELSE 0, res |-> IF drq THEN 1 ELSE 0]
      BY <2>2 DEF WriteSectors, NoReq
    <3>2. 1 \in 0 .. MaxReq
      BY DiskAssumption
    <3> QED BY <3>1, <3>2 DEF ReqRec
  <2> QED BY <2>1, <2>2
<1>3. drive' \in [Ctl -> DriveRec]
  <2>1. PICK c \in Ctl, b \in BOOLEAN :
          \/ drive' = drive
          \/ drive' = [drive EXCEPT ![c].irq = FALSE]
          \/ drive' = [drive EXCEPT ![c].irq = FALSE, ![c].busy = b]
    BY DEF ReadSectors, WriteSectors, WaitBusy
  <2>2. CASE drive' = drive
    BY <1>1, <2>2
  <2>3. CASE drive' = [drive EXCEPT ![c].irq = FALSE]
    BY <1>1, <2>3 DEF DriveRec
  <2>4. CASE drive' = [drive EXCEPT ![c].irq = FALSE, ![c].busy = b]
    <3>1. PICK r : r = [drive[c] EXCEPT !.irq = FALSE, !.busy = b]
      OBVIOUS
    <3>2. r \in DriveRec
      BY <1>1, <3>1 DEF DriveRec
    <3>3. drive' = [drive EXCEPT ![c] = r]
      BY <1>1, <2>4, <3>1 DEF DriveRec
    <3> QED BY <1>1, <3>2, <3>3
  <2> QED BY <2>1, <2>2, <2>3, <2>4
<1> QED BY <1>1, <1>2, <1>3 DEF DiskInv, DiskTypeOK, Underway, Ended, DoneIsMoved

LEMMA DriveDoneDisk ==
  ASSUME DiskInv, DriveDone
  PROVE  DiskInv'
<1>1. PICK c \in Ctl :
        /\ drive[c].busy /\ drive[c].count > 0 /\ req.ctl = c /\ req.prd
        /\ req' = [req EXCEPT !.moved =
                     IF drive[c].count < PrdSum(Prd(req.n)) THEN drive[c].count
                     ELSE PrdSum(Prd(req.n))]
        /\ drive' = [drive EXCEPT ![c].busy = FALSE, ![c].irq = TRUE, ![c].count = 0]
  BY DEF DriveDone
<1>2. /\ drive \in [Ctl -> DriveRec] /\ ide \in [Ctl -> IdeRec] /\ ide' = ide
      /\ req \in ReqRec
  BY DEF DiskInv, DiskTypeOK, DriveDone
<1>3. drive' \in [Ctl -> DriveRec] /\ ~drive'[c].busy
  BY <1>1, <1>2 DEF DriveRec
<1>4. PICK n \in 1 .. MaxReq : n = req.n
  BY <1>1, <1>2 DEF DiskInv, Underway, ReqRec
<1>5. PrdSum(Prd(n)) = n /\ n \in Nat
  BY <1>4, PrdExact, Controllers
<1>6. PICK m \in Nat : /\ req' = [req EXCEPT !.moved = m]
                       /\ drive[c].count = n => m = n
  <2>1. drive[c].count \in Nat
    BY <1>2 DEF DriveRec
  <2> QED BY <1>1, <1>4, <1>5, <2>1
<1>7. /\ req' \in ReqRec /\ req'.at = req.at /\ req'.prd = req.prd /\ req'.n = n
      /\ req'.write = req.write /\ req'.ctl = c /\ req'.res = req.res /\ req'.moved = m
  BY <1>1, <1>2, <1>4, <1>6 DEF ReqRec
<1>8. Piped' <=> Piped
  BY <1>4, <1>7 DEF Piped
<1>9. req.at \in {"no", "wait"}
  BY <1>1, <1>2 DEF DiskInv, Underway, ReqRec
<1>10. CASE req.at = "wait"
  <2>1. AtWork(drive[c]) /\ ~Piped /\ req.res = None
    BY <1>1, <1>10 DEF DiskInv, Underway, Failed
  <2>2. m = n
    BY <1>4, <1>6, <2>1 DEF AtWork
  <2> QED BY <1>1, <1>2, <1>3, <1>4, <1>7, <1>8, <1>10, <2>1, <2>2, Controllers
          DEF DiskInv, DiskTypeOK, Underway, Ended, DoneIsMoved
<1>11. CASE req.at = "no"
  <2>1. req.res = 1 => Piped
    BY <1>1, <1>11 DEF DiskInv, Ended
  <2> QED BY <1>1, <1>2, <1>3, <1>4, <1>7, <1>8, <1>11, <2>1
          DEF DiskInv, DiskTypeOK, Underway, Ended, DoneIsMoved
<1> QED BY <1>9, <1>10, <1>11

\* The end of a PIO write, and a failure: the drive reports both.
LEMMA DriveEndsDisk ==
  ASSUME DiskInv, DriveStored \/ DriveFails
  PROVE  DiskInv'
<1>1. PICK c \in Ctl :
        /\ drive[c].busy
        /\ \/ /\ drive[c].count = 0
              /\ drive' = [drive EXCEPT ![c].busy = FALSE, ![c].irq = TRUE]
           \/ drive' = [drive EXCEPT ![c].busy = FALSE, ![c].irq = TRUE, ![c].err = TRUE,
                                     ![c].count = 0]
  BY DEF DriveStored, DriveFails
<1>2. /\ drive \in [Ctl -> DriveRec] /\ ide' = ide /\ req' = req /\ req \in ReqRec
  BY DEF DiskInv, DiskTypeOK, DriveStored, DriveFails
<1>3. drive' \in [Ctl -> DriveRec]
  <2>1. CASE drive' = [drive EXCEPT ![c].busy = FALSE, ![c].irq = TRUE]
    BY <1>2, <2>1 DEF DriveRec
  <2>2. CASE drive' = [drive EXCEPT ![c].busy = FALSE, ![c].irq = TRUE, ![c].err = TRUE,
                                    ![c].count = 0]
    <3>1. PICK r : r = [drive[c] EXCEPT !.busy = FALSE, !.irq = TRUE, !.err = TRUE,
                                        !.count = 0]
      OBVIOUS
    <3>2. drive[c] \in DriveRec
      BY <1>2
    <3>3. r \in DriveRec
      BY <3>1, <3>2 DEF DriveRec
    <3>4. drive' = [drive EXCEPT ![c] = r]
      BY <2>2, <3>1
    <3> QED BY <1>2, <3>3, <3>4
  <2> QED BY <1>1, <2>1, <2>2
<1>4. /\ ~drive'[c].busy /\ (drive[c].count # 0 => drive'[c].err)
      /\ \A x \in Ctl : x # c => drive'[x] = drive[x]
  BY <1>1, <1>2 DEF DriveRec
<1>5. CASE req.ctl # c
  <2>1. drive'[req.ctl] = drive[req.ctl]
    BY <1>2, <1>4, <1>5 DEF ReqRec
  <2> QED BY <1>2, <1>3, <2>1 DEF DiskInv, DiskTypeOK, Underway, Ended, DoneIsMoved,
             AtWork, Failed, Piped
<1>6. CASE req.ctl = c
  <2>1. req.at # "command"
    BY <1>1, <1>6 DEF DiskInv, Underway
  <2>2. req.at \in {"expect", "start", "wait"} => drive'[c].err
    <3>1. req.at # "no" => req.n # 0
      BY <1>2, Controllers DEF DiskInv, Underway, ReqRec
    <3> QED BY <1>1, <1>4, <1>6, <3>1 DEF DiskInv, Underway, AtWork, Failed
  <2>3. ~drive'[req.ctl].busy /\ (req.at # "no" => Failed(drive[req.ctl])')
    BY <1>2, <1>4, <1>6, <2>1, <2>2 DEF Failed, ReqRec
  <2> QED BY <1>2, <1>3, <2>1, <2>3 DEF DiskInv, DiskTypeOK, Underway, Ended, DoneIsMoved,
             Failed, Piped
<1> QED BY <1>5, <1>6

LEMMA InterruptDisk ==
  ASSUME DiskInv, Interrupt
  PROVE  DiskInv'
<1>1. PICK c \in Ctl :
        /\ drive[c].irq
        /\ ide' = [ide EXCEPT ![c].expect = TRUE]
        /\ drive' = [drive EXCEPT ![c].irq = FALSE]
  BY DEF Interrupt
<1>2. /\ drive \in [Ctl -> DriveRec] /\ ide \in [Ctl -> IdeRec] /\ req' = req
      /\ req \in ReqRec
  BY DEF DiskInv, DiskTypeOK, Interrupt
<1>3. /\ drive' \in [Ctl -> DriveRec]
      /\ \A x \in Ctl : /\ drive'[x].busy = drive[x].busy /\ drive'[x].err = drive[x].err
                        /\ drive'[x].count = drive[x].count
                        /\ drive'[x].irq => drive[x].irq
                        /\ x # c => drive'[x] = drive[x]
  BY <1>1, <1>2 DEF DriveRec
<1>4. /\ ide' \in [Ctl -> IdeRec] /\ \A x \in Ctl : x # c => ide'[x] = ide[x]
  BY <1>1, <1>2 DEF IdeRec
<1>5. PICK k \in Ctl : k = req.ctl
  BY <1>2 DEF ReqRec
<1>6. k = c => ~AtWork(drive[k])
  BY <1>1 DEF AtWork
<1>7. /\ AtWork(drive[k]) => AtWork(drive[k])' /\ ide'[k] = ide[k]
      /\ Failed(drive[k]) => Failed(drive[k])'
  BY <1>2, <1>3, <1>4, <1>5, <1>6 DEF AtWork, Failed
<1> QED BY <1>2, <1>3, <1>4, <1>5, <1>7
        DEF DiskInv, DiskTypeOK, Underway, Ended, DoneIsMoved, Piped

LEMMA NextDisk ==
  ASSUME DiskInv, [DiskNext]_diskVars
  PROVE  DiskInv'
<1>1. CASE UNCHANGED diskVars
  BY <1>1 DEF diskVars, DiskInv, DiskTypeOK, Underway, Ended, DoneIsMoved, AtWork,
     Failed, Piped
<1>2. CASE DiskNext
  BY <1>2, ScanDisk, StartDmaDisk, CommandDisk, ExpectDisk, StartDisk, WaitInterruptDisk,
     PioDisk, DriveDoneDisk, DriveEndsDisk, InterruptDisk DEF DiskNext
<1> QED BY <1>1, <1>2

\* A transfer that ide_disk_read_dma, ide_disk_write_dma or the PIO routines
\* report as done has moved every sector, for every number of controllers,
\* width of the sector count, size of a PRD entry and of a request, whatever
\* the interrupt handler does between any two of their statements.
THEOREM DoneAlwaysMoved == DiskSpec => []DoneIsMoved
<1>1. DiskInv => DoneIsMoved
  BY DEF DiskInv
<1> QED BY <1>1, InitDisk, NextDisk, PTL DEF DiskSpec

-----------------------------------------------------------------------------
(* Scsi: writes of the USB host                                             *)

Commands == Scsi6 \cup Scsi10 \cup Scsi16

PipeRec == [at : {"no", "wait", "look", "write"}, block : Nat, n : Nat, i : Nat,
            j : Nat, bulk : Nat]

ScsiTypeOK ==
  /\ asked \in [lba : Nat, len : Nat] /\ arrived \in Nat /\ pipe \in PipeRec
  /\ wrote \in Seq(Nat \X Nat)

\* The program reads in the command what the host meant.
Understood == cdb = NoCmd \/ (cdb.op \in Commands /\ LbaLen(cdb) = asked)

\* A command begins with nothing written and is not done while it goes on.
Begun ==
  /\ cdb # NoCmd => reply = "none"
  /\ cdb # NoCmd /\ pipe.at = "no" => wrote = <<>>

\* The pieces before i are written, and the bulk pieces from i on are there.
Piping ==
  pipe.at # "no" =>
    /\ cdb # NoCmd /\ pipe.block = asked.lba /\ pipe.n = asked.len
    /\ pipe.i <= Pieces /\ Len(wrote) = pipe.i * Chunk
    /\ pipe.at = "look" => pipe.i + pipe.bulk <= pipe.j /\ pipe.j <= Pieces
    /\ pipe.at \in {"look", "write"} =>
         pipe.i + pipe.bulk <= Pieces /\ Seen((pipe.i + pipe.bulk) * Chunk)

ScsiInv == ScsiTypeOK /\ Understood /\ Begun /\ Piping /\ WriteWhole

-----------------------------------------------------------------------------
(* Bytes of a command                                                       *)

\* Division is the only way to write x as a multiple of u and a rest below u.
LEMMA QuotientIs ==
  ASSUME NEW u \in Nat \ {0}, NEW b \in Nat, NEW r \in 0 .. u - 1, NEW x \in Nat,
         x = b * u + r
  PROVE  x \div u = b /\ x % u = r
<1>1. x = u * (x \div u) + (x % u) /\ x \div u \in Nat /\ x % u \in 0 .. u - 1
  OBVIOUS
<1>2. PICK q \in Nat, s \in 0 .. u - 1 : q = x \div u /\ s = x % u
  BY <1>1
<1>3. u * (b - q) = s - r
  <2>1. u * (b - q) = b * u - u * q /\ b * u \in Nat /\ u * q \in Nat
    BY <1>2
  <2> QED BY <1>1, <1>2, <2>1
<1>4. b - q = 0
  <2>1. CASE b - q >= 1
    <3>1. u * (b - q) >= u
      BY <2>1
    <3> QED BY <1>2, <1>3, <3>1
  <2>2. CASE b - q <= -1
    <3>1. u * (b - q) <= -u
      BY <2>2
    <3> QED BY <1>2, <1>3, <3>1
  <2> QED BY <2>1, <2>2
<1>5. b = q /\ u * (b - q) = 0
  BY <1>4
<1> QED BY <1>2, <1>3, <1>5

\* Dividing in two steps.
LEMMA DivideTwice ==
  ASSUME NEW x \in Nat, NEW p \in Nat \ {0}, NEW u \in Nat \ {0}
  PROVE  x \div (u * p) = (x \div p) \div u
<1>1. PICK q \in Nat, r \in 0 .. p - 1 : q = x \div p /\ x = p * q + r
  <2>1. x = p * (x \div p) + (x % p) /\ x \div p \in Nat /\ x % p \in 0 .. p - 1
    OBVIOUS
  <2> QED BY <2>1
<1>2. PICK v \in Nat, s \in 0 .. u - 1 : v = q \div u /\ q = u * v + s
  <2>1. q = u * (q \div u) + (q % u) /\ q \div u \in Nat /\ q % u \in 0 .. u - 1
    OBVIOUS
  <2> QED BY <2>1
<1>3. PICK w \in Nat \ {0} : w = u * p
  <2>1. u * p \in Nat /\ u * p # 0
    OBVIOUS
  <2> QED BY <2>1
<1>4. x = v * w + (p * s + r)
  <2>1. p * q = p * (u * v) + p * s
    BY <1>2
  <2>2. p * (u * v) = v * (u * p)
    OBVIOUS
  <2> QED BY <1>1, <1>3, <2>1, <2>2
<1>5. p * s + r \in 0 .. w - 1
  <2>1. p * s \in Nat /\ p * s <= p * (u - 1)
    OBVIOUS
  <2>2. p * (u - 1) = w - p
    BY <1>3
  <2> QED BY <2>1, <2>2
<1>6. x \div w = v
  BY <1>4, <1>5, QuotientIs
<1> QED BY <1>1, <1>2, <1>3, <1>6

\* The powers of Byte up to the k-th, as Power computes them.
IsPowers(f, k) == f = [i \in 0 .. k |-> IF i = 0 THEN 1 ELSE Byte * f[i - 1]]

LEMMA PowersExist ==
  ASSUME NEW k \in Nat
  PROVE  \E f : IsPowers(f, k)
<1>1. PICK S : S = {m \in Nat : ~ \E f : IsPowers(f, m)}
  OBVIOUS
<1>2. SUFFICES ASSUME S # {} PROVE FALSE
  BY <1>1
<1>3. PICK m \in S : \A n \in S : m <= n
  BY <1>1, <1>2, LeastNat
<1>4. m \in Nat /\ ~ \E f : IsPowers(f, m)
  BY <1>1, <1>3
<1>5. CASE m = 0
  <2>1. PICK f : f = [i \in 0 .. 0 |-> 1]
    OBVIOUS
  <2>2. f = [i \in 0 .. 0 |-> IF i = 0 THEN 1 ELSE Byte * f[i - 1]]
    BY <2>1
  <2> QED BY <1>4, <1>5, <2>2 DEF IsPowers
<1>6. CASE m # 0
  <2>1. m - 1 \in Nat /\ m - 1 \notin S
    BY <1>3, <1>4, <1>6
  <2>2. PICK g : IsPowers(g, m - 1)
    BY <1>1, <2>1
  <2>3. PICK f : f = [i \in 0 .. m |-> IF i < m THEN g[i] ELSE Byte * g[m - 1]]
    OBVIOUS
  <2>4. ASSUME NEW i \in 0 .. m
        PROVE  f[i] = IF i = 0 THEN 1 ELSE Byte * f[i - 1]
    <3>1. CASE i < m
      <4>1. i \in 0 .. m - 1 /\ f[i] = g[i]
        BY <1>4, <2>3, <3>1
      <4>2. g[i] = IF i = 0 THEN 1 ELSE Byte * g[i - 1]
        BY <2>2, <4>1 DEF IsPowers
      <4>3. i # 0 => f[i - 1] = g[i - 1]
        BY <1>4, <2>3, <3>1
      <4> QED BY <4>1, <4>2, <4>3
    <3>2. CASE i = m
      BY <1>4, <1>6, <2>3, <3>2
    <3> QED BY <1>4, <3>1, <3>2
  <2>5. f = [i \in 0 .. m |-> IF i = 0 THEN 1 ELSE Byte * f[i - 1]]
    BY <2>3, <2>4
  <2> QED BY <1>4, <2>5 DEF IsPowers
<1> QED BY <1>5, <1>6

\* Two such tables agree where both are defined.
LEMMA PowersAgree ==
  ASSUME NEW k \in Nat, NEW m \in Nat, k <= m, NEW f, NEW g,
         IsPowers(f, k), IsPowers(g, m)
  PROVE  \A i \in 0 .. k : f[i] = g[i] /\ f[i] \in Nat \ {0}
<1>1. PICK S : S = {i \in 0 .. k : ~(f[i] = g[i] /\ f[i] \in Nat \ {0})}
  OBVIOUS
<1>2. SUFFICES ASSUME S # {} PROVE FALSE
  BY <1>1
<1>3. S \in SUBSET Nat
  BY <1>1
<1>4. PICK i \in S : \A n \in S : i <= n
  BY <1>2, <1>3, LeastNat
<1>5. i \in 0 .. k /\ i \in 0 .. m /\ ~(f[i] = g[i] /\ f[i] \in Nat \ {0})
  BY <1>1, <1>4
<1>6. /\ f[i] = IF i = 0 THEN 1 ELSE Byte * f[i - 1]
      /\ g[i] = IF i = 0 THEN 1 ELSE Byte * g[i - 1]
  BY <1>5 DEF IsPowers
<1>7. i # 0
  BY <1>5, <1>6
<1>8. i - 1 \in 0 .. k /\ i - 1 \notin S
  BY <1>4, <1>5, <1>7
<1>9. f[i - 1] = g[i - 1] /\ f[i - 1] \in Nat \ {0}
  BY <1>1, <1>8
<1>10. PICK h \in Nat \ {0}, b \in Nat \ {0} : h = f[i - 1] /\ b = Byte
  BY <1>9, ScsiAssumption
<1>11. b * h \in Nat \ {0}
  BY <1>10
<1> QED BY <1>5, <1>6, <1>7, <1>9, <1>10, <1>11

LEMMA PowerIs ==
  ASSUME NEW k \in Nat
  PROVE  \E f : IsPowers(f, k) /\ Power(k) = f[k]
<1> DEFINE Rec(f) == f = [i \in 0 .. k |-> IF i = 0 THEN 1 ELSE Byte * f[i - 1]]
<1>1. Power(k) = (CHOOSE f : Rec(f))[k]
  BY DEF Power
<1>2. \E f : Rec(f)
  BY PowersExist DEF IsPowers
<1>3. Rec(CHOOSE f : Rec(f))
  BY <1>2
<1> QED BY <1>1, <1>3 DEF IsPowers

LEMMA Powers ==
  /\ Power(0) = 1
  /\ \A k \in Nat : Power(k) \in Nat \ {0} /\ Power(k + 1) = Byte * Power(k)
<1>1. Power(0) = 1
  <2>1. PICK f : IsPowers(f, 0) /\ Power(0) = f[0]
    BY PowerIs
  <2> QED BY <2>1 DEF IsPowers
<1>2. ASSUME NEW k \in Nat
      PROVE  Power(k) \in Nat \ {0} /\ Power(k + 1) = Byte * Power(k)
  <2>1. PICK f : IsPowers(f, k) /\ Power(k) = f[k]
    BY PowerIs
  <2>2. PICK g : IsPowers(g, k + 1) /\ Power(k + 1) = g[k + 1]
    BY PowerIs
  <2>3. f[k] = g[k] /\ f[k] \in Nat \ {0}
    BY <2>1, <2>2, PowersAgree
  <2>4. g[k + 1] = Byte * g[k]
    <3>1. k + 1 \in 0 .. k + 1 /\ k + 1 # 0 /\ (k + 1) - 1 = k
      OBVIOUS
    <3>2. g[k + 1] = IF k + 1 = 0 THEN 1 ELSE Byte * g[(k + 1) - 1]
      BY <2>2, <3>1 DEF IsPowers
    <3> QED BY <3>1, <3>2
  <2> QED BY <2>1, <2>2, <2>3, <2>4
<1> QED BY <1>1, <1>2

\* A number that fits into k bytes is read back from them.
LEMMA ReadBack ==
  ASSUME NEW k \in Nat, NEW x \in Nat, x < Power(k)
  PROVE  Weigh(Digits(x, k)) = x
<1>0. PICK b \in Nat \ {0} : b = Byte
  BY ScsiAssumption
<1>1. PICK d : d = Digits(x, k)
  OBVIOUS
<1>2. d = [i \in 1 .. k |-> (x \div Power(k - i)) % b] /\ Len(d) = k
  BY <1>0, <1>1 DEF Digits
<1>3. PICK F : F = [i \in 0 .. k |-> x \div Power(k - i)]
  OBVIOUS
<1>4. \A i \in 0 .. k : F[i] \in Nat
  <2>1. ASSUME NEW i \in 0 .. k PROVE F[i] \in Nat
    <3>1. PICK p \in Nat \ {0} : p = Power(k - i)
      BY Powers
    <3>2. x \div p \in Nat
      OBVIOUS
    <3> QED BY <1>3, <3>1, <3>2
  <2> QED BY <2>1
<1>5. F[0] = 0
  <2>1. PICK p \in Nat \ {0} : p = Power(k)
    BY Powers
  <2>2. x = 0 * p + x /\ x \in 0 .. p - 1
    BY <2>1
  <2>3. x \div p = 0
    BY <2>2, QuotientIs
  <2>4. F[0] = x \div Power(k)
    BY <1>3
  <2> QED BY <2>1, <2>3, <2>4
<1>6. F[k] = x
  <2>1. F[k] = x \div Power(0)
    BY <1>3
  <2>2. x \div 1 = x
    OBVIOUS
  <2> QED BY <2>1, <2>2, Powers
<1>7. ASSUME NEW i \in 0 .. k, i # 0
      PROVE  F[i] = Byte * F[i - 1] + d[i]
  <2>1. PICK p \in Nat \ {0} : p = Power(k - i)
    BY Powers
  <2>2. Power(k - (i - 1)) = b * p
    <3>1. k - i \in Nat /\ (k - i) + 1 = k - (i - 1)
      OBVIOUS
    <3> QED BY <1>0, <2>1, <3>1, Powers
  <2>3. PICK y \in Nat : y = x \div p
    OBVIOUS
  <2>4. F[i] = y /\ d[i] = y % b
    BY <1>2, <1>3, <1>7, <2>1, <2>3
  <2>5. F[i - 1] = y \div b
    <3>1. F[i - 1] = x \div Power(k - (i - 1))
      BY <1>3, <1>7
    <3>2. x \div (b * p) = (x \div p) \div b
      BY DivideTwice
    <3> QED BY <2>2, <2>3, <3>1, <3>2
  <2>6. y = b * (y \div b) + (y % b)
    OBVIOUS
  <2> QED BY <1>0, <2>4, <2>5, <2>6
<1>8. F = [i \in 0 .. k |-> IF i = 0 THEN 0 ELSE Byte * F[i - 1] + d[i]]
  BY <1>3, <1>5, <1>7
<1>9. PICK g : /\ g = [i \in 0 .. k |-> IF i = 0 THEN 0 ELSE Byte * g[i - 1] + d[i]]
               /\ Weigh(d) = g[k]
  <2> DEFINE Rec(h) == h = [i \in 0 .. Len(d) |-> IF i = 0 THEN 0 ELSE Byte * h[i - 1] + d[i]]
  <2>1. Weigh(d) = (CHOOSE h : Rec(h))[Len(d)]
    BY DEF Weigh
  <2>2. Rec(F)
    BY <1>2, <1>8
  <2>3. Rec(CHOOSE h : Rec(h))
    BY <2>2
  <2>4. PICK g : g = (CHOOSE h : Rec(h))
    OBVIOUS
  <2>5. g = [i \in 0 .. k |-> IF i = 0 THEN 0 ELSE Byte * g[i - 1] + d[i]]
    BY <1>2, <2>3, <2>4
  <2>6. Weigh(d) = g[k]
    BY <1>2, <2>1, <2>4
  <2> HIDE DEF Rec
  <2> QED BY <2>5, <2>6
<1>10. \A i \in 0 .. k : g[i] = F[i]
  <2>0. PICK S : S = {i \in 0 .. k : g[i] # F[i]}
    OBVIOUS
  <2>1. SUFFICES ASSUME S # {} PROVE FALSE
    BY <2>0
  <2>2. PICK i \in 0 .. k : g[i] # F[i] /\ \A m \in 0 .. k : g[m] # F[m] => i <= m
    <3>1. S \in SUBSET Nat
      BY <2>0
    <3>2. PICK i \in S : \A m \in S : i <= m
      BY <2>1, <3>1, LeastNat
    <3> QED BY <2>0, <3>2
  <2>3. i # 0
    BY <1>8, <1>9, <2>2
  <2>4. i - 1 \in 0 .. k /\ g[i - 1] = F[i - 1]
    BY <2>2, <2>3
  <2>5. g[i] = Byte * g[i - 1] + d[i]
    BY <1>9, <2>3
  <2>6. F[i] = Byte * F[i - 1] + d[i]
    BY <1>7, <2>3
  <2> QED BY <2>2, <2>4, <2>5, <2>6
<1> QED BY <1>1, <1>6, <1>9, <1>10

LEMMA PowersGrow ==
  ASSUME NEW k \in Nat
  PROVE  Power(k) <= Power(k + 1)
<1>1. PICK b \in Nat \ {0}, p \in Nat \ {0} : b = Byte /\ p = Power(k)
  BY ScsiAssumption, Powers
<1>2. p <= b * p
  OBVIOUS
<1> QED BY <1>1, <1>2, Powers

LEMMA MoreBytes == Power(2) <= Power(4) /\ Power(4) <= Power(8)
<1>1. \A k \in Nat : Power(k) \in Nat
  BY Powers
<1>2. Power(2) <= Power(2 + 1) /\ Power(3) <= Power(3 + 1) /\ Power(4) <= Power(4 + 1)
      /\ Power(5) <= Power(5 + 1) /\ Power(6) <= Power(6 + 1) /\ Power(7) <= Power(7 + 1)
  BY PowersGrow
<1>3. /\ Power(2) <= Power(3) /\ Power(3) <= Power(4) /\ Power(4) <= Power(5)
      /\ Power(5) <= Power(6) /\ Power(6) <= Power(7) /\ Power(7) <= Power(8)
  <2>1. 2 + 1 = 3 /\ 3 + 1 = 4 /\ 4 + 1 = 5 /\ 5 + 1 = 6 /\ 6 + 1 = 7 /\ 7 + 1 = 8
    OBVIOUS
  <2> QED BY <1>2, <2>1
<1>4. PICK p2 \in Nat, p3 \in Nat, p4 \in Nat, p5 \in Nat, p6 \in Nat, p7 \in Nat, p8 \in Nat :
        /\ p2 = Power(2) /\ p3 = Power(3) /\ p4 = Power(4) /\ p5 = Power(5)
        /\ p6 = Power(6) /\ p7 = Power(7) /\ p8 = Power(8)
  BY <1>1
<1>5. p2 <= p4 /\ p4 <= p8
  BY <1>3, <1>4
<1> QED BY <1>4, <1>5

\* The 6-byte form leaves out the byte with the upper bits of the address.
LEMMA ShortAddress ==
  ASSUME NEW x
  PROVE  SubSeq(Digits(x, 3), 2, 3) = Digits(x, 2)
<1>1. PICK d : d = Digits(x, 3)
  OBVIOUS
<1>2. d = [i \in 1 .. 3 |-> (x \div Power(3 - i)) % Byte]
  BY <1>1 DEF Digits
<1>3. SubSeq(d, 2, 3) = [i \in 1 .. 2 |-> d[i + 1]]
  OBVIOUS
<1>4. ASSUME NEW i \in 1 .. 2 PROVE d[i + 1] = (x \div Power(2 - i)) % Byte
  <2>1. i + 1 \in 1 .. 3 /\ 3 - (i + 1) = 2 - i
    OBVIOUS
  <2> QED BY <1>2, <2>1
<1> QED BY <1>1, <1>3, <1>4 DEF Digits

LEMMA ShortLength ==
  ASSUME NEW n \in Nat, n < Power(1)
  PROVE  Digits(n, 1)[1] = n
<1>1. PICK b \in Nat \ {0} : b = Byte
  BY ScsiAssumption
<1>2. Power(1) = b
  <2>1. Power(0 + 1) = Byte * Power(0) /\ 0 + 1 = 1
    BY Powers
  <2> QED BY <1>1, <2>1, Powers
<1>3. Digits(n, 1)[1] = (n \div Power(1 - 1)) % Byte
  BY DEF Digits
<1>4. n \div 1 = n /\ n % b = n /\ 1 - 1 = 0
  BY <1>2
<1> QED BY <1>1, <1>3, <1>4, Powers

\* What the host encodes is what the program decodes, in all three forms.
LEMMA Decoded ==
  ASSUME NEW op \in Commands, NEW lba \in Nat, NEW len \in Nat, lba < Power(2),
         len < Power(IF op \in Scsi6 THEN 1 ELSE IF op \in Scsi10 THEN 2 ELSE 4)
  PROVE  /\ Encode(op, lba, len).op = op /\ Encode(op, lba, len) # NoCmd
         /\ LbaLen(Encode(op, lba, len))
            = [lba |-> lba, len |-> IF op \in Scsi6 /\ len = 0 THEN Data0 ELSE len]
<1>0. op # "none"
  BY DEF Commands, Scsi6, Scsi10, Scsi16
<1>1. lba < Power(4) /\ lba < Power(8)
  <2>1. PICK p2 \in Nat, p4 \in Nat, p8 \in Nat : p2 = Power(2) /\ p4 = Power(4) /\ p8 = Power(8)
    BY Powers
  <2> QED BY <2>1, MoreBytes
<1>2. PICK c : c = Encode(op, lba, len)
  OBVIOUS
<1>3. c.op = op /\ c # NoCmd
  BY <1>0, <1>2 DEF Encode, NoCmd
<1>4. CASE op \in Scsi6
  <2>1. c.lba = Digits(lba, 3) /\ c.len = Digits(len, 1)
    BY <1>2, <1>4 DEF Encode
  <2>2. Lba6(c) = lba
    BY <2>1, ShortAddress, ReadBack DEF Lba6
  <2>3. c.len[1] = len
    BY <1>4, <2>1, ShortLength
  <2>4. Len6(c) = IF len = 0 THEN Data0 ELSE len
    BY <2>3 DEF Len6
  <2> QED BY <1>2, <1>3, <1>4, <2>2, <2>4 DEF LbaLen
<1>5. CASE op \notin Scsi6 /\ op \in Scsi10
  <2>1. c.lba = Digits(lba, 4) /\ c.len = Digits(len, 2)
    BY <1>2, <1>5 DEF Encode
  <2>2. LbaLong(c) = lba /\ LenLong(c) = len
    BY <1>1, <1>5, <2>1, ReadBack DEF LbaLong, LenLong
  <2> QED BY <1>2, <1>3, <1>5, <2>2 DEF LbaLen
<1>6. CASE op \notin Scsi6 /\ op \notin Scsi10
  <2>1. c.lba = Digits(lba, 8) /\ c.len = Digits(len, 4)
    BY <1>2, <1>6 DEF Encode
  <2>2. LbaLong(c) = lba /\ LenLong(c) = len
    BY <1>1, <1>6, <2>1, ReadBack DEF LbaLong, LenLong
  <2> QED BY <1>2, <1>3, <1>6, <2>2 DEF LbaLen
<1> QED BY <1>4, <1>5, <1>6

-----------------------------------------------------------------------------
(* The pipe                                                                 *)

\* The first l sectors of the data are on the disk, in order, from base on.
InOrder(w, base, l) ==
  /\ w \in Seq(Nat \X Nat) /\ Len(w) = l
  /\ \A k \in 1 .. l : w[k] = <<base + k - 1, k - 1>>

\* write_dma of the next n sectors continues the order.
LEMMA WriteOn ==
  ASSUME NEW w, NEW base \in Nat, NEW l \in Nat, NEW n \in Nat, InOrder(w, base, l)
  PROVE  InOrder(w \o [k \in 1 .. n |-> <<(base + l) + k - 1, l + k - 1>>], base, l + n)
<1>1. PICK v : v = [k \in 1 .. n |-> <<(base + l) + k - 1, l + k - 1>>]
  OBVIOUS
<1>2. v \in Seq(Nat \X Nat) /\ Len(v) = n
  <2>1. \A k \in 1 .. n : <<(base + l) + k - 1, l + k - 1>> \in Nat \X Nat
    OBVIOUS
  <2> QED BY <1>1, <2>1
<1>3. w \in Seq(Nat \X Nat) /\ Len(w) = l
  BY DEF InOrder
<1>4. w \o v \in Seq(Nat \X Nat) /\ Len(w \o v) = l + n
  BY <1>2, <1>3, ConcatProperties
<1>5. ASSUME NEW k \in 1 .. l + n
      PROVE  (w \o v)[k] = <<base + k - 1, k - 1>>
  <2>1. (w \o v)[k] = IF k <= l THEN w[k] ELSE v[k - l]
    BY <1>2, <1>3, ConcatProperties
  <2>2. CASE k <= l
    <3>1. k \in 1 .. l
      BY <2>2
    <3>2. w[k] = <<base + k - 1, k - 1>>
      BY <3>1 DEF InOrder
    <3> QED BY <2>1, <2>2, <3>2
  <2>3. CASE k > l
    <3>1. k - l \in 1 .. n
      BY <2>3
    <3>2. v[k - l] = <<(base + l) + (k - l) - 1, l + (k - l) - 1>>
      BY <1>1, <3>1
    <3>3. (base + l) + (k - l) - 1 = base + k - 1 /\ l + (k - l) - 1 = k - 1
      OBVIOUS
    <3> QED BY <2>1, <2>3, <3>2, <3>3
  <2>4. k <= l \/ k > l
    OBVIOUS
  <2> QED BY <2>2, <2>3, <2>4
<1> QED BY <1>1, <1>4, <1>5 DEF InOrder

\* WriteWhole in terms of the order.
LEMMA WholeIs ==
  ASSUME ScsiTypeOK
  PROVE  WriteWhole <=> /\ InOrder(wrote, asked.lba, Len(wrote)) /\ Len(wrote) <= arrived
                        /\ reply = "done" => Len(wrote) = asked.len
<1>1. DOMAIN wrote = 1 .. Len(wrote) /\ wrote \in Seq(Nat \X Nat) /\ Len(wrote) \in Nat
  BY DEF ScsiTypeOK
<1> QED BY <1>1 DEF WriteWhole, InOrder

LEMMA InitScsi == ScsiInit => ScsiInv
<1> SUFFICES ASSUME ScsiInit PROVE ScsiInv
  OBVIOUS
<1>1. ScsiTypeOK
  BY DEF ScsiInit, ScsiTypeOK, NoPipe, PipeRec
<1>2. wrote = <<>> /\ Len(wrote) = 0 /\ reply = "none" /\ arrived = 0 /\ cdb = NoCmd
      /\ pipe.at = "no"
  BY DEF ScsiInit, NoPipe
<1>3. WriteWhole
  BY <1>2 DEF WriteWhole
<1> QED BY <1>1, <1>2, <1>3 DEF ScsiInv, Understood, Begun, Piping

\* The parameters of the pipe: whole pieces and a rest.
LEMMA PiecesAre ==
  ASSUME NEW n \in Nat
  PROVE  /\ Chunk \in Nat \ {0} /\ n \div Chunk \in Nat /\ n % Chunk \in 0 .. Chunk - 1
         /\ n = (n \div Chunk) * Chunk + (n % Chunk)
<1>1. PICK c \in Nat \ {0} : c = Chunk
  BY ScsiAssumption
<1>2. n = c * (n \div c) + (n % c) /\ n \div c \in Nat /\ n % c \in 0 .. c - 1
  OBVIOUS
<1>3. PICK q \in Nat : q = n \div c
  BY <1>2
<1>4. c * q = q * c
  OBVIOUS
<1> QED BY <1>1, <1>2, <1>3, <1>4

LEMMA NoPipeType == NoPipe \in PipeRec /\ NoPipe.at = "no"
  BY DEF NoPipe, PipeRec

LEMMA HostScsi ==
  ASSUME ScsiInv, Host
  PROVE  ScsiInv'
<1>1. PICK op \in Commands, lba \in {0, 1, DevSectors - 1}, len \in 0 .. LenMax + 1 :
        /\ len < Power(IF op \in Scsi6 THEN 1 ELSE IF op \in Scsi10 THEN 2 ELSE 4)
        /\ lba < Power(2)
        /\ cdb' = Encode(op, lba, len)
        /\ asked' = [lba |-> lba, len |-> IF op \in Scsi6 /\ len = 0 THEN Data0 ELSE len]
  BY DEF Host, Commands
<1>2. lba \in Nat /\ len \in Nat /\ Data0 \in Nat
  BY ScsiAssumption
<1>3. cdb'.op = op /\ cdb' # NoCmd /\ LbaLen(cdb') = asked'
  BY <1>1, <1>2, Decoded
<1>4. arrived' = 0 /\ wrote' = <<>> /\ reply' = "none" /\ pipe' = pipe /\ cdb = NoCmd
  BY DEF Host
<1>5. pipe.at = "no"
  BY <1>4 DEF ScsiInv, Piping
<1>6. asked' \in [lba : Nat, len : Nat]
  BY <1>1, <1>2
<1>7. ScsiTypeOK'
  BY <1>4, <1>6 DEF ScsiInv, ScsiTypeOK
<1>8. WriteWhole'
  BY <1>4 DEF WriteWhole
<1>9. LbaLen(cdb)' = asked'
  BY <1>3 DEF LbaLen, Lba6, Len6, LbaLong, LenLong
<1> QED BY <1>1, <1>3, <1>4, <1>5, <1>7, <1>8, <1>9 DEF ScsiInv, Understood, Begun, Piping

LEMMA ArriveScsi ==
  ASSUME ScsiInv, Arrive
  PROVE  ScsiInv'
<1>1. UNCHANGED <<cdb, asked, pipe, wrote, reply>> /\ arrived' = arrived + 1 /\ arrived \in Nat
  BY DEF Arrive, ScsiInv, ScsiTypeOK
<1>2. ScsiTypeOK'
  BY <1>1 DEF ScsiInv, ScsiTypeOK
<1>3. Understood' /\ Begun'
  BY <1>1 DEF ScsiInv, Understood, Begun, LbaLen, Lba6, Len6, LbaLong, LenLong
<1>4. Piping'
  <2>1. pipe \in PipeRec
    BY DEF ScsiInv, ScsiTypeOK
  <2>2. PICK s \in Int : s = (pipe.i + pipe.bulk) * Chunk
    BY <2>1, ScsiAssumption DEF PipeRec
  <2>3. Seen(s) => Seen(s)'
    BY <1>1 DEF Seen
  <2>4. Seen((pipe.i + pipe.bulk) * Chunk) => Seen((pipe.i + pipe.bulk) * Chunk)'
    BY <1>1, <2>2, <2>3 DEF Seen
  <2> QED BY <1>1, <2>4 DEF ScsiInv, Piping, Pieces
<1>5. WriteWhole'
  <2>1. Len(wrote) \in Nat
    BY DEF ScsiInv, ScsiTypeOK
  <2> QED BY <1>1, <2>1 DEF ScsiInv, WriteWhole
<1> QED BY <1>2, <1>3, <1>4, <1>5 DEF ScsiInv

\* A command ends with nothing written: refused, empty, a read, or one of
\* those that are only answered.
LEMMA EndScsi ==
  ASSUME ScsiInv, NEW r, r # "done", Finish(r), UNCHANGED <<asked, arrived, wrote>>
  PROVE  ScsiInv'
<1>1. ScsiTypeOK'
  BY NoPipeType DEF Finish, ScsiInv, ScsiTypeOK
<1>2. cdb' = NoCmd /\ pipe'.at = "no" /\ reply' # "done"
  BY NoPipeType DEF Finish
<1>3. WriteWhole'
  BY <1>2 DEF ScsiInv, WriteWhole
<1> QED BY <1>1, <1>2, <1>3 DEF ScsiInv, Understood, Begun, Piping

LEMMA AnswersAre ==
  ASSUME NEW op \in DOMAIN Answers, NEW a \in Answers[op]
  PROVE  a # "done"
  BY DEF Answers, Inquiry, ModeSense, ModeSense10, ReadCap, ReadCap16, ReportLuns

LEMMA OtherScsi ==
  ASSUME ScsiInv, Verify \/ StartStop \/ Simulate
  PROVE  ScsiInv'
<1>1. CASE Verify
  BY <1>1, EndScsi DEF Verify, Sense
<1>2. CASE StartStop
  BY <1>2, EndScsi DEF StartStop, Sense
<1>3. CASE Simulate
  BY <1>3, AnswersAre, EndScsi DEF Simulate
<1> QED BY <1>1, <1>2, <1>3

\* The pipe takes a state of its own from the command.
LEMMA RwXlatScsi ==
  ASSUME ScsiInv, RwXlat
  PROVE  ScsiInv'
<1>1. PICK r : r = LbaLen(cdb)
  OBVIOUS
<1>2. cdb # NoCmd /\ pipe.at = "no" /\ asked' = asked /\ arrived' = arrived
  BY DEF RwXlat, Scsi6, Scsi10, Scsi16, NoCmd
<1>3. /\ r = asked /\ r.lba \in Nat /\ r.len \in Nat /\ wrote = <<>> /\ reply = "none"
      /\ asked \in [lba : Nat, len : Nat] /\ arrived \in Nat
  BY <1>1, <1>2 DEF ScsiInv, ScsiTypeOK, Understood, Begun
<1>4. CASE wrote' = wrote /\ \E a \in {"none", "sense", "data"} : Finish(a)
  BY <1>2, <1>4, EndScsi
<1>5. CASE /\ cdb.op \in Writes /\ r.len >= Chunk
           /\ pipe' = [NoPipe EXCEPT !.at = "wait", !.block = r.lba, !.n = r.len]
           /\ UNCHANGED <<cdb, reply, wrote>>
  <2>1. /\ pipe' \in PipeRec /\ pipe'.at = "wait" /\ pipe'.block = asked.lba
        /\ pipe'.n = asked.len /\ pipe'.i = 0
    BY <1>3, <1>5 DEF NoPipe, PipeRec
  <2>2. ScsiTypeOK'
    BY <1>2, <1>5, <2>1 DEF ScsiInv, ScsiTypeOK
  <2>3. Understood'
    BY <1>2, <1>5 DEF ScsiInv, Understood, LbaLen, Lba6, Len6, LbaLong, LenLong
  <2>4. Begun'
    BY <1>5, <2>1 DEF ScsiInv, Begun
  <2>5. WriteWhole'
    BY <1>2, <1>5 DEF ScsiInv, WriteWhole
  <2>6. Piping'
    <3>1. Pieces' \in Nat
      BY <1>3, <2>1, PiecesAre DEF Pieces
    <3>2. Len(wrote)' = 0 /\ pipe'.i * Chunk = 0
      BY <1>3, <1>5, <2>1, ScsiAssumption
    <3> QED BY <1>2, <1>5, <2>1, <3>1, <3>2 DEF Piping
  <2> QED BY <2>2, <2>3, <2>4, <2>5, <2>6 DEF ScsiInv
<1>6. CASE Seen(r.len) /\ WriteDma(r.lba, 0, r.len) /\ Finish("done")
  <2>1. InOrder(wrote, r.lba, 0)
    BY <1>3 DEF InOrder
  <2>2. wrote' = wrote \o [k \in 1 .. r.len |-> <<r.lba + k - 1, 0 + k - 1>>]
    BY <1>6 DEF WriteDma
  <2>3. PICK b \in Nat, n \in Nat : b = r.lba /\ n = r.len
    BY <1>3
  <2>4. InOrder(wrote \o [k \in 1 .. n |-> <<(b + 0) + k - 1, 0 + k - 1>>], b, 0 + n)
    BY <2>1, <2>3, WriteOn
  <2>5. InOrder(wrote', b, n)
    <3>1. b + 0 = b /\ 0 + n = n
      OBVIOUS
    <3> QED BY <2>2, <2>3, <2>4, <3>1
  <2>6. ScsiTypeOK'
    BY <1>2, <1>6, <2>5, NoPipeType DEF ScsiInv, ScsiTypeOK, Finish, InOrder
  <2>7. n <= arrived
    BY <1>3, <1>6, <2>3 DEF Seen
  <2>8. WriteWhole'
    <3>1. Len(wrote') = n
      BY <2>5 DEF InOrder
    <3>2. /\ InOrder(wrote', asked'.lba, Len(wrote')) /\ Len(wrote') <= arrived'
          /\ Len(wrote') = asked'.len
      BY <1>2, <1>3, <2>3, <2>5, <2>7, <3>1
    <3>3. DOMAIN wrote' = 1 .. Len(wrote')
      BY <2>6 DEF ScsiTypeOK
    <3> QED BY <3>2, <3>3 DEF WriteWhole, InOrder
  <2>9. cdb' = NoCmd /\ pipe'.at = "no"
    BY <1>6, NoPipeType DEF Finish
  <2> QED BY <2>6, <2>8, <2>9 DEF ScsiInv, Understood, Begun, Piping
<1> QED BY <1>1, <1>4, <1>5, <1>6 DEF RwXlat, Sense

\* What stays as it was while the pipe looks for pieces.
LEMMA PipeKeeps ==
  ASSUME ScsiInv, UNCHANGED <<cdb, asked, arrived, wrote, reply>>, pipe' \in PipeRec,
         pipe'.at # "no", pipe.at # "no", Piping'
  PROVE  ScsiInv'
<1>1. ScsiTypeOK'
  BY DEF ScsiInv, ScsiTypeOK
<1>2. Understood' /\ Begun' /\ WriteWhole'
  BY DEF ScsiInv, Understood, LbaLen, Lba6, Len6, LbaLong, LenLong, Begun, WriteWhole
<1> QED BY <1>1, <1>2 DEF ScsiInv

LEMMA PipeWaitScsi ==
  ASSUME ScsiInv, PipeWait
  PROVE  ScsiInv'
<1>1. /\ pipe \in PipeRec /\ pipe.at = "wait" /\ pipe.i < Pieces /\ Seen((pipe.i + 1) * Chunk)
      /\ pipe' = [pipe EXCEPT !.at = "look", !.bulk = 1, !.j = pipe.i + 1]
      /\ UNCHANGED <<cdb, asked, arrived, wrote, reply>>
  BY DEF PipeWait, ScsiInv, ScsiTypeOK
<1>2. pipe.i \in Nat /\ pipe.n \in Nat
  BY <1>1 DEF PipeRec
<1>3. /\ pipe' \in PipeRec /\ pipe'.at = "look" /\ pipe'.i = pipe.i /\ pipe'.n = pipe.n
      /\ pipe'.block = pipe.block /\ pipe'.bulk = 1 /\ pipe'.j = pipe.i + 1
  <2>1. PICK b \in Nat, j \in Nat : b = 1 /\ j = pipe.i + 1
    BY <1>2
  <2>2. pipe' = [pipe EXCEPT !.at = "look", !.bulk = b, !.j = j]
    BY <1>1, <2>1
  <2>3. pipe' \in PipeRec
    BY <1>1, <2>2 DEF PipeRec
  <2>4. /\ pipe'.at = "look" /\ pipe'.bulk = b /\ pipe'.j = j
        /\ pipe'.i = pipe.i /\ pipe'.n = pipe.n /\ pipe'.block = pipe.block
    BY <1>1, <2>2 DEF PipeRec
  <2> QED BY <2>1, <2>3, <2>4
<1>4. Pieces' = Pieces /\ Pieces \in Nat
  BY <1>2, <1>3, PiecesAre DEF Pieces
<1>5. Piping'
  <2>1. pipe'.i + pipe'.bulk = pipe.i + 1 /\ pipe.i + 1 <= Pieces
    BY <1>1, <1>2, <1>3, <1>4
  <2>2. Seen((pipe.i + pipe.bulk) * Chunk)'
    BY <1>1, <2>1 DEF Seen
  <2>3. /\ cdb # NoCmd /\ pipe.block = asked.lba /\ pipe.n = asked.len
        /\ Len(wrote) = pipe.i * Chunk /\ pipe.i <= Pieces
    BY <1>1 DEF ScsiInv, Piping
  <2> QED BY <1>1, <1>2, <1>3, <1>4, <2>1, <2>2, <2>3 DEF Piping
<1> QED BY <1>1, <1>3, <1>5, PipeKeeps

LEMMA PipeLookScsi ==
  ASSUME ScsiInv, PipeLook
  PROVE  ScsiInv'
<1>1. /\ pipe \in PipeRec /\ pipe.at = "look"
      /\ UNCHANGED <<cdb, asked, arrived, wrote, reply>> /\ arrived \in Nat
  BY DEF PipeLook, ScsiInv, ScsiTypeOK
<1>2. PICK i \in Nat, j \in Nat, b \in Nat, n \in Nat :
        i = pipe.i /\ j = pipe.j /\ b = pipe.bulk /\ n = pipe.n
  BY <1>1 DEF PipeRec
<1>3. /\ cdb # NoCmd /\ pipe.block = asked.lba /\ n = asked.len
      /\ i <= Pieces /\ Len(wrote) = i * Chunk /\ i + b <= j /\ j <= Pieces
      /\ Seen((i + b) * Chunk) /\ i + b <= Pieces /\ Pieces \in Nat
  BY <1>1, <1>2, PiecesAre DEF ScsiInv, Piping, Pieces
<1>4. CASE j = Pieces
  <2>1. pipe' = [pipe EXCEPT !.at = "write"]
    BY <1>2, <1>4 DEF PipeLook
  <2>2. /\ pipe' \in PipeRec /\ pipe'.at = "write" /\ pipe'.i = i /\ pipe'.n = n
        /\ pipe'.block = pipe.block /\ pipe'.bulk = b
    BY <1>1, <1>2, <2>1 DEF PipeRec
  <2>3. Pieces' = Pieces /\ (Seen((pipe.i + pipe.bulk) * Chunk)' <=> Seen((i + b) * Chunk))
    BY <1>1, <1>2, <2>2 DEF Pieces, Seen
  <2>4. Piping'
    BY <1>1, <1>3, <2>2, <2>3 DEF Piping
  <2> QED BY <1>1, <2>2, <2>4, PipeKeeps
<1>5. CASE j # Pieces
  <2>1. PICK g \in {0, 1} : /\ pipe' = [pipe EXCEPT !.j = j + 1, !.bulk = b + g]
                            /\ g = 1 => Seen((j + 1) * Chunk)
    <3>1. pipe' = [pipe EXCEPT !.j = j + 1,
                               !.bulk = b + (IF Seen((j + 1) * Chunk) THEN 1 ELSE 0)]
      BY <1>2, <1>5 DEF PipeLook
    <3>2. CASE Seen((j + 1) * Chunk)
      <4>1. pipe' = [pipe EXCEPT !.j = j + 1, !.bulk = b + 1]
        BY <3>1, <3>2
      <4> QED BY <3>2, <4>1
    <3>3. CASE ~ Seen((j + 1) * Chunk)
      <4>1. pipe' = [pipe EXCEPT !.j = j + 1, !.bulk = b + 0]
        BY <3>1, <3>3
      <4>2. 0 # 1
        OBVIOUS
      <4> QED BY <4>1, <4>2
    <3> QED BY <3>2, <3>3
  <2>2. /\ pipe' \in PipeRec /\ pipe'.at = "look" /\ pipe'.i = i /\ pipe'.n = n
        /\ pipe'.block = pipe.block /\ pipe'.bulk = b + g /\ pipe'.j = j + 1
    <3>1. PICK u \in Nat, v \in Nat : u = b + g /\ v = j + 1
      OBVIOUS
    <3>2. pipe' = [pipe EXCEPT !.j = v, !.bulk = u]
      BY <2>1, <3>1
    <3>3. pipe' \in PipeRec
      BY <1>1, <3>2 DEF PipeRec
    <3>4. /\ pipe'.at = pipe.at /\ pipe'.bulk = u /\ pipe'.j = v
          /\ pipe'.i = pipe.i /\ pipe'.n = pipe.n /\ pipe'.block = pipe.block
      BY <1>1, <3>2 DEF PipeRec
    <3> QED BY <1>1, <1>2, <3>1, <3>3, <3>4
  <2>3. i + (b + g) <= j + 1 /\ j + 1 <= Pieces /\ i + (b + g) <= Pieces
    BY <1>3, <1>5
  <2>4. Seen((i + (b + g)) * Chunk)
    <3>1. CASE g = 0
      <4>1. i + (b + g) = i + b
        BY <3>1
      <4> QED BY <1>3, <4>1
    <3>2. CASE g = 1
      <4>1. PICK c \in Nat \ {0}, u \in Nat, v \in Nat :
              c = Chunk /\ u = i + (b + g) /\ v = j + 1
        BY ScsiAssumption
      <4>2. u <= v
        BY <2>3, <4>1
      <4>3. u * c <= v * c /\ u * c \in Nat /\ v * c \in Nat
        BY <4>2
      <4>4. arrived >= v * c
        BY <2>1, <3>2, <4>1 DEF Seen
      <4> QED BY <1>1, <4>1, <4>3, <4>4 DEF Seen
    <3> QED BY <3>1, <3>2
  <2>5. Pieces' = Pieces /\ Seen((pipe.i + pipe.bulk) * Chunk)'
    BY <1>1, <1>2, <2>2, <2>4 DEF Pieces, Seen
  <2>6. Piping'
    BY <1>1, <1>3, <2>2, <2>3, <2>5 DEF Piping
  <2> QED BY <1>1, <2>2, <2>6, PipeKeeps
<1> QED BY <1>4, <1>5

\* The state after write_dma of the next n sectors, which are there.
LEMMA Written ==
  ASSUME ScsiInv, NEW l \in Nat, NEW n \in Nat, Len(wrote) = l,
         WriteDma(asked.lba + l, l, n), Seen(l + n), UNCHANGED <<asked, arrived>>
  PROVE  /\ InOrder(wrote', asked.lba, l + n) /\ l + n <= arrived
         /\ wrote' \in Seq(Nat \X Nat) /\ Len(wrote') = l + n
         /\ DOMAIN wrote' = 1 .. l + n
<1>1. asked.lba \in Nat /\ arrived \in Nat /\ ScsiTypeOK
  BY DEF ScsiInv, ScsiTypeOK
<1>2. InOrder(wrote, asked.lba, l)
  BY <1>1, WholeIs DEF ScsiInv
<1>3. PICK b \in Nat : b = asked.lba
  BY <1>1
<1>4. wrote' = wrote \o [k \in 1 .. n |-> <<(b + l) + k - 1, l + k - 1>>]
  BY <1>3 DEF WriteDma
<1>5. InOrder(wrote', b, l + n)
  BY <1>2, <1>3, <1>4, WriteOn
<1>6. wrote' \in Seq(Nat \X Nat) /\ Len(wrote') = l + n
  BY <1>5 DEF InOrder
<1>7. DOMAIN wrote' = 1 .. l + n
  BY <1>6
<1> QED BY <1>1, <1>3, <1>5, <1>6, <1>7 DEF Seen

LEMMA PipeWriteScsi ==
  ASSUME ScsiInv, PipeWrite
  PROVE  ScsiInv'
<1>1. /\ pipe \in PipeRec /\ pipe.at = "write" /\ UNCHANGED <<cdb, asked, arrived, reply>>
      /\ arrived \in Nat
  BY DEF PipeWrite, ScsiInv, ScsiTypeOK
<1>2. PICK i \in Nat, b \in Nat, n \in Nat, c \in Nat \ {0} :
        i = pipe.i /\ b = pipe.bulk /\ n = pipe.n /\ c = Chunk
  BY <1>1, ScsiAssumption DEF PipeRec
<1>3. /\ cdb # NoCmd /\ pipe.block = asked.lba /\ n = asked.len
      /\ Len(wrote) = i * c /\ Seen((i + b) * c) /\ i + b <= Pieces
      /\ reply = "none"
  BY <1>1, <1>2 DEF ScsiInv, Piping, Begun
<1>4. i * c \in Nat /\ b * c \in Nat /\ (i + b) * c = i * c + b * c
  OBVIOUS
<1>5. PICK l \in Nat, m \in Nat : l = i * c /\ m = b * c
  BY <1>4
<1>6. WriteDma(asked.lba + l, l, m) /\ Seen(l + m)
  BY <1>2, <1>3, <1>4, <1>5 DEF PipeWrite
<1>7. /\ InOrder(wrote', asked.lba, l + m) /\ l + m <= arrived
      /\ wrote' \in Seq(Nat \X Nat) /\ Len(wrote') = l + m /\ DOMAIN wrote' = 1 .. l + m
  BY <1>1, <1>3, <1>5, <1>6, Written
<1>8. /\ pipe' = [pipe EXCEPT !.at = "wait", !.i = i + b] /\ pipe' \in PipeRec
      /\ pipe'.at = "wait" /\ pipe'.i = i + b /\ pipe'.n = n /\ pipe'.block = pipe.block
  <2>1. pipe' = [pipe EXCEPT !.at = "wait", !.i = i + b]
    BY <1>2 DEF PipeWrite
  <2>2. PICK u \in Nat : u = i + b
    OBVIOUS
  <2>3. pipe' = [pipe EXCEPT !.at = "wait", !.i = u]
    BY <2>1, <2>2
  <2>4. pipe' \in PipeRec
    BY <1>1, <2>3 DEF PipeRec
  <2>5. /\ pipe'.at = "wait" /\ pipe'.i = u
        /\ pipe'.n = pipe.n /\ pipe'.block = pipe.block
    BY <1>1, <2>3 DEF PipeRec
  <2> QED BY <1>2, <2>1, <2>2, <2>4, <2>5
<1>9. ScsiTypeOK'
  BY <1>1, <1>7, <1>8 DEF ScsiInv, ScsiTypeOK
<1>10. Understood' /\ Begun'
  BY <1>1, <1>3, <1>8 DEF ScsiInv, Understood, LbaLen, Lba6, Len6, LbaLong, LenLong, Begun
<1>11. Piping'
  <2>1. Pieces' = Pieces
    BY <1>2, <1>8 DEF Pieces
  <2>2. Len(wrote)' = pipe'.i * Chunk
    BY <1>2, <1>4, <1>5, <1>7, <1>8
  <2> QED BY <1>1, <1>3, <1>8, <2>1, <2>2 DEF Piping
<1>12. WriteWhole'
  BY <1>1, <1>3, <1>7 DEF WriteWhole, InOrder
<1> QED BY <1>9, <1>10, <1>11, <1>12 DEF ScsiInv

LEMMA PipeRestScsi ==
  ASSUME ScsiInv, PipeRest
  PROVE  ScsiInv'
<1>1. /\ pipe \in PipeRec /\ pipe.at = "wait" /\ UNCHANGED <<asked, arrived>>
      /\ arrived \in Nat /\ Finish("done") /\ pipe.i = Pieces /\ ScsiTypeOK
  BY DEF PipeRest, ScsiInv, ScsiTypeOK
<1>2. PICK i \in Nat, n \in Nat, c \in Nat \ {0}, r \in Nat :
        i = pipe.i /\ n = pipe.n /\ c = Chunk /\ r = Rest /\ n = i * c + r /\ i * c \in Nat
  <2>1. pipe.n \in Nat /\ pipe.i \in Nat
    BY <1>1 DEF PipeRec
  <2>2. /\ Chunk \in Nat \ {0} /\ Pieces \in Nat /\ Rest \in Nat
        /\ pipe.n = Pieces * Chunk + Rest
    <3>1. PICK m \in Nat : m = pipe.n
      BY <2>1
    <3>2. Pieces = m \div Chunk /\ Rest = m % Chunk
      BY <3>1 DEF Pieces, Rest
    <3>3. Chunk \in Nat \ {0}
      BY ScsiAssumption
    <3>4. /\ m \div Chunk \in Nat /\ m % Chunk \in Nat
          /\ m = (m \div Chunk) * Chunk + (m % Chunk)
      BY <3>3, PiecesAre
    <3> QED BY <3>1, <3>2, <3>3, <3>4
  <2>3. Pieces * Chunk \in Nat
    BY <2>2
  <2> QED BY <1>1, <2>1, <2>2, <2>3
<1>3. /\ pipe.block = asked.lba /\ n = asked.len /\ Len(wrote) = i * c
  BY <1>1, <1>2 DEF ScsiInv, Piping
<1>4. /\ InOrder(wrote', asked.lba, n) /\ n <= arrived
      /\ wrote' \in Seq(Nat \X Nat) /\ Len(wrote') = n /\ DOMAIN wrote' = 1 .. n
  <2>1. CASE r = 0 /\ wrote' = wrote
    <3>1. n = i * c
      BY <1>2, <2>1
    <3>2. InOrder(wrote, asked.lba, n) /\ n <= arrived
      BY <1>1, <1>3, <3>1, WholeIs DEF ScsiInv
    <3>3. wrote \in Seq(Nat \X Nat) /\ Len(wrote) = n /\ DOMAIN wrote = 1 .. n
      BY <1>3, <3>1 DEF ScsiInv, ScsiTypeOK
    <3> QED BY <2>1, <3>2, <3>3
  <2>2. CASE /\ Seen(pipe.i * Chunk + Rest)
             /\ WriteDma(pipe.block + pipe.i * Chunk, pipe.i * Chunk, Rest)
    <3>1. PICK l \in Nat : l = i * c
      BY <1>2
    <3>2. Seen(l + r) /\ WriteDma(asked.lba + l, l, r) /\ l + r = n
      BY <1>2, <1>3, <2>2, <3>1
    <3> QED BY <1>1, <1>3, <3>1, <3>2, Written
  <2> QED BY <1>2, <2>1, <2>2 DEF PipeRest
<1>5. cdb' = NoCmd /\ pipe' \in PipeRec /\ pipe'.at = "no"
  BY <1>1, NoPipeType DEF Finish
<1>6. ScsiTypeOK'
  BY <1>1, <1>4, <1>5 DEF ScsiTypeOK
<1>7. WriteWhole'
  BY <1>1, <1>3, <1>4 DEF WriteWhole, InOrder
<1> QED BY <1>5, <1>6, <1>7 DEF ScsiInv, Understood, Begun, Piping

LEMMA NextScsi ==
  ASSUME ScsiInv, [ScsiNext]_scsiVars
  PROVE  ScsiInv'
<1>1. CASE UNCHANGED scsiVars
  BY <1>1 DEF scsiVars, ScsiInv, ScsiTypeOK, Understood, Begun, Piping, WriteWhole,
     Pieces, Seen, LbaLen, Lba6, Len6, LbaLong, LenLong
<1>2. CASE ScsiNext
  BY <1>2, HostScsi, ArriveScsi, RwXlatScsi, PipeWaitScsi, PipeLookScsi, PipeWriteScsi,
     PipeRestScsi, OtherScsi DEF ScsiNext
<1> QED BY <1>1, <1>2

\* ata_scsi_rw_xlat writes no sector before its data are there, and a command
\* reported done has written every sector once, in order, where the host
\* wanted it: for every size of the pipe, of commands and of the disk, however
\* the data arrive meanwhile.
THEOREM WritesAlwaysWhole == ScsiSpec => []WriteWhole
<1>1. ScsiInv => WriteWhole
  BY DEF ScsiInv
<1> QED BY <1>1, InitScsi, NextScsi, PTL DEF ScsiSpec

-----------------------------------------------------------------------------
(* Ext2: the images in memory                                               *)

LoadRec == [at : {"open", "read", "run", "end"}, img : DOMAIN Image, cnt : Int,
            err : BOOLEAN]
FileRec == [img : DOMAIN Image \cup {0}, h : Handle, pos : Nat]
ReadRec == [on : BOOLEAN, want : Nat, done : Nat]

Ext2TypeOK ==
  /\ ld \in LoadRec /\ file \in FileRec /\ rd \in ReadRec
  /\ DOMAIN mem = DOMAIN Image /\ mem = [i \in DOMAIN Image |-> mem[i]]

\* The first n bytes of image i.
Prefix(i, n) ==
  [k \in 1 .. n |-> <<Home[i][(k - 1) \div BlockSize], (k - 1) % BlockSize>>]

\* The file being read is the one that was asked for, and what has been read of
\* it is its beginning: whole blocks, or all of it.
Reading ==
  ld.at = "read" =>
    /\ file.img = ld.img /\ mem[ld.img] = Prefix(ld.img, file.pos)
    /\ file.pos <= Size[ld.img]
    /\ file.pos % BlockSize = 0 \/ file.pos = Size[ld.img]
    /\ rd.on => rd.want = Size[ld.img] /\ rd.done = file.pos
    /\ ~rd.on => file.pos = 0

\* The images of the same pair that came before are complete.
PairKept ==
  \A i \in DOMAIN Image :
    i < ld.img /\ NextPair(i) = NextPair(ld.img) => mem[i] = Content(i)

RunEnds == ld.at = "run" => ld.img = Len(Image) /\ mem[ld.img] = Content(ld.img)

Ext2Inv ==
  Ext2TypeOK /\ gdesc = cached /\ (ld.at = "open" => ~rd.on) /\ Reading /\ PairKept /\ RunEnds

\* Prefixes.
LEMMA WholePrefix ==
  ASSUME NEW i
  PROVE  Content(i) = Prefix(i, Size[i])
BY DEF Content, Prefix

LEMMA NoPrefix ==
  ASSUME NEW i
  PROVE  Prefix(i, 0) = <<>>
<1>1. 1 .. 0 = {}
  OBVIOUS
<1> QED BY <1>1 DEF Prefix

LEMMA SplitBlock ==
  ASSUME NEW c \in Nat \ {0}, NEW q \in Nat, NEW r \in 0 .. c - 1, NEW x \in Nat,
         x = q * c + r
  PROVE  x \div c = q /\ x % c = r
<1>1. x \div c = q
  OBVIOUS
<1>2. x = c * (x \div c) + (x % c)
  OBVIOUS
<1>3. PICK s \in 0 .. c - 1 : s = x % c
  OBVIOUS
<1>4. c * q = q * c
  OBVIOUS
<1> QED BY <1>1, <1>2, <1>3, <1>4

\* The next block, or the beginning of it, continues a prefix of whole blocks.
LEMMA NextBytes ==
  ASSUME NEW i, NEW p \in Nat, NEW n \in Nat, p % BlockSize = 0, n <= BlockSize
  PROVE  Prefix(i, p) \o Bytes(Home[i][p \div BlockSize], 0, n) = Prefix(i, p + n)
<1>1. PICK c \in Nat \ {0} : c = BlockSize
  BY Ext2Assumption
<1>2. PICK q \in Nat : q = p \div c /\ p = q * c
  <2>1. p = c * (p \div c) + (p % c) /\ p \div c \in Nat
    OBVIOUS
  <2>2. PICK q \in Nat : q = p \div c
    BY <2>1
  <2>3. c * q = q * c /\ c * q \in Nat
    OBVIOUS
  <2> QED BY <1>1, <2>1, <2>2, <2>3
<1>3. PICK S : S = {Home[i][b] : b \in Nat} \X Nat
  OBVIOUS
<1>4. PICK v : v = Bytes(Home[i][p \div BlockSize], 0, n)
  OBVIOUS
<1>5. v = [k \in 1 .. n |-> <<Home[i][q], k - 1>>]
  <2>1. n - 0 = n /\ \A k \in 1 .. n : 0 + k - 1 = k - 1
    OBVIOUS
  <2> QED BY <1>1, <1>2, <1>4, <2>1 DEF Bytes
<1>6. v \in Seq(S) /\ Len(v) = n
  <2>1. \A k \in 1 .. n : <<Home[i][q], k - 1>> \in S
    BY <1>3
  <2> QED BY <1>5, <2>1
<1>7. ASSUME NEW m \in Nat
      PROVE  /\ Prefix(i, m) \in Seq(S) /\ Len(Prefix(i, m)) = m
             /\ \A k \in 1 .. m : Prefix(i, m)[k] = <<Home[i][(k - 1) \div c], (k - 1) % c>>
  <2>1. Prefix(i, m) = [k \in 1 .. m |-> <<Home[i][(k - 1) \div c], (k - 1) % c>>]
    BY <1>1 DEF Prefix
  <2>2. \A k \in 1 .. m : <<Home[i][(k - 1) \div c], (k - 1) % c>> \in S
    <3>1. ASSUME NEW k \in 1 .. m
          PROVE  <<Home[i][(k - 1) \div c], (k - 1) % c>> \in S
      <4>1. (k - 1) \div c \in Nat /\ (k - 1) % c \in Nat
        OBVIOUS
      <4> QED BY <1>3, <4>1
    <3> QED BY <3>1
  <2>3. PICK g : g = [k \in Nat |-> <<Home[i][(k - 1) \div c], (k - 1) % c>>]
    OBVIOUS
  <2>4. \A k \in 1 .. m : g[k] = <<Home[i][(k - 1) \div c], (k - 1) % c>>
    BY <2>3
  <2>5. Prefix(i, m) = [k \in 1 .. m |-> g[k]]
    BY <2>1, <2>4
  <2>6. \A k \in 1 .. m : g[k] \in S
    BY <2>2, <2>4
  <2>7. /\ Prefix(i, m) \in Seq(S) /\ Len(Prefix(i, m)) = m
        /\ \A k \in 1 .. m : Prefix(i, m)[k] = g[k]
    BY <2>5, <2>6
  <2> QED BY <2>4, <2>7
<1>8. p + n \in Nat
  OBVIOUS
<1>9. PICK w, z : w = Prefix(i, p) /\ z = Prefix(i, p + n)
  OBVIOUS
<1>10. /\ w \in Seq(S) /\ Len(w) = p /\ z \in Seq(S) /\ Len(z) = p + n
       /\ \A k \in 1 .. p : w[k] = <<Home[i][(k - 1) \div c], (k - 1) % c>>
       /\ \A k \in 1 .. p + n : z[k] = <<Home[i][(k - 1) \div c], (k - 1) % c>>
  BY <1>7, <1>8, <1>9
<1>11. w \o v \in Seq(S) /\ Len(w \o v) = p + n
  BY <1>6, <1>10, ConcatProperties
<1>12. ASSUME NEW k \in 1 .. p + n
       PROVE  (w \o v)[k] = z[k]
  <2>1. (w \o v)[k] = IF k <= p THEN w[k] ELSE v[k - p]
    BY SMTT(30), <1>6, <1>10, <1>11, ConcatProperties
  <2>2. CASE k <= p
    <3>1. k \in 1 .. p
      BY <2>2
    <3> QED BY <1>10, <2>1, <2>2, <3>1
  <2>3. CASE k > p
    <3>1. PICK r \in 1 .. n : r = k - p
      BY <2>3
    <3>2. PICK x \in Nat, s \in 0 .. c - 1 : x = k - 1 /\ s = r - 1
      BY <1>1
    <3>3. x = q * c + s
      BY <1>2, <3>1, <3>2
    <3>4. (k - 1) \div c = q /\ (k - 1) % c = r - 1
      <4>1. x \div c = q /\ x % c = s
        BY <3>3, SplitBlock
      <4> QED BY <3>2, <4>1
    <3>5. v[r] = <<Home[i][q], r - 1>>
      BY <1>5
    <3>6. (w \o v)[k] = v[r]
      BY <2>1, <2>3, <3>1
    <3> QED BY <1>10, <3>4, <3>5, <3>6
  <2>4. k <= p \/ k > p
    OBVIOUS
  <2> QED BY <2>2, <2>3, <2>4
<1>13. w \o v = z
  BY <1>10, <1>11, <1>12, SeqEqual
<1> QED BY <1>4, <1>9, <1>13

\* The images and their pairs.
LEMMA Images ==
  /\ Len(Image) \in {2, 4} /\ DOMAIN Image = 1 .. Len(Image)
  /\ NextPair(1) = 3 /\ NextPair(2) = 3 /\ NextPair(3) = 5 /\ NextPair(4) = 5
<1>1. Len(Image) \in {2, 4} /\ DOMAIN Image = 1 .. Len(Image)
  BY Ext2Assumption
<1>2. NextPair(1) = 3 /\ NextPair(2) = 3 /\ NextPair(3) = 5 /\ NextPair(4) = 5
  BY DEF NextPair
<1> QED BY <1>1, <1>2

LEMMA HandleFound ==
  ASSUME Unopened # {}
  PROVE  LowestHandle \in Handle
<1>1. Unopened \in SUBSET Nat /\ Unopened \subseteq Handle
  BY Ext2Assumption DEF Unopened, Handle
<1>2. PICK h \in Unopened : \A k \in Unopened : h <= k
  BY <1>1, LeastNat
<1>3. LowestHandle \in Unopened
  BY <1>2 DEF LowestHandle
<1> QED BY <1>1, <1>3

LEMMA NoFileType == NoFile \in FileRec /\ NoFile.img = 0
<1>1. 0 \in Handle
  BY Ext2Assumption DEF Handle
<1> QED BY <1>1 DEF NoFile, FileRec

LEMMA NoReadType == NoRead \in ReadRec /\ NoRead.on = FALSE
BY DEF NoRead, ReadRec

\* What is loaded next after a failed try, and what is kept for it.
LEMMA AgainKeeps ==
  ASSUME NEW l \in LoadRec
  PROVE  /\ Again(l) \in LoadRec /\ Again(l).at \in {"open", "end"}
         /\ \A i \in DOMAIN Image :
              i < Again(l).img /\ NextPair(i) = NextPair(Again(l).img)
                => i < l.img /\ NextPair(i) = NextPair(l.img)
<1>1. PICK j \in DOMAIN Image, c \in Int : j = l.img /\ c = l.cnt
  BY DEF LoadRec
<1>2. CASE c > 1
  <2>1. PICK d \in Int : d = c - 1
    OBVIOUS
  <2>2. Again(l) = [l EXCEPT !.at = "open", !.cnt = d]
    BY <1>1, <1>2, <2>1 DEF Again
  <2>3. Again(l) \in LoadRec
    BY <2>2 DEF LoadRec
  <2>4. Again(l).at = "open" /\ Again(l).img = l.img
    BY <2>2 DEF LoadRec
  <2> QED BY <2>3, <2>4
<1>3. CASE ~(c > 1) /\ NextPair(j) <= Len(Image)
  <2>1. NextPair(j) = 3 /\ j \in {1, 2} /\ 3 \in DOMAIN Image
    BY <1>3, Images
  <2>2. Again(l) = [at |-> "open", img |-> 3, cnt |-> Tries, err |-> TRUE]
    BY <1>1, <1>3, <2>1 DEF Again
  <2>3. Tries \in Int
    BY Ext2Assumption
  <2>4. Again(l) \in LoadRec
    BY <2>1, <2>2, <2>3 DEF LoadRec
  <2>5. Again(l).at = "open" /\ Again(l).img = 3
    BY <2>2
  <2>6. \A i \in DOMAIN Image : ~(i < 3 /\ NextPair(i) = NextPair(3))
    BY Images
  <2> QED BY <2>4, <2>5, <2>6
<1>4. CASE ~(c > 1) /\ ~(NextPair(j) <= Len(Image))
  <2>1. Again(l) = [l EXCEPT !.at = "end", !.err = TRUE]
    BY <1>1, <1>4 DEF Again
  <2>2. Again(l) \in LoadRec
    BY <2>1 DEF LoadRec
  <2>3. Again(l).at = "end" /\ Again(l).img = l.img
    BY <2>1 DEF LoadRec
  <2> QED BY <2>2, <2>3
<1> QED BY <1>2, <1>3, <1>4

LEMMA LoadedKeeps ==
  ASSUME NEW l \in LoadRec
  PROVE  /\ Loaded(l) \in LoadRec /\ Loaded(l).at \in {"open", "run"}
         /\ Loaded(l).at = "run" => l.img = Len(Image) /\ Loaded(l).img = l.img
         /\ \A i \in DOMAIN Image :
              i < Loaded(l).img /\ NextPair(i) = NextPair(Loaded(l).img)
                => i = l.img \/ (i < l.img /\ NextPair(i) = NextPair(l.img))
<1>1. PICK j \in DOMAIN Image : j = l.img
  BY DEF LoadRec
<1>2. CASE j < Len(Image)
  <2>1. PICK m \in DOMAIN Image : m = j + 1
    BY <1>2, Images
  <2>2. Loaded(l) = [at |-> "open", img |-> m, cnt |-> Tries, err |-> TRUE]
    BY <1>1, <1>2, <2>1 DEF Loaded
  <2>3. Tries \in Int
    BY Ext2Assumption
  <2>4. Loaded(l) \in LoadRec
    BY <2>2, <2>3 DEF LoadRec
  <2>5. Loaded(l).at = "open" /\ Loaded(l).img = m
    BY <2>2
  <2>6. \A i \in DOMAIN Image :
          i < m /\ NextPair(i) = NextPair(m) => i = j \/ (i < j /\ NextPair(i) = NextPair(j))
    BY <2>1, Images
  <2> QED BY <1>1, <2>4, <2>5, <2>6
<1>3. CASE j = Len(Image)
  <2>1. Loaded(l) = [l EXCEPT !.at = "run", !.err = FALSE]
    BY <1>1, <1>3, Images DEF Loaded
  <2>2. Loaded(l) \in LoadRec
    BY <2>1 DEF LoadRec
  <2>3. Loaded(l).at = "run" /\ Loaded(l).img = l.img
    BY <2>1 DEF LoadRec
  <2> QED BY <1>1, <1>3, <2>2, <2>3
<1>4. j < Len(Image) \/ j = Len(Image)
  BY Images
<1> QED BY <1>2, <1>3, <1>4

\* A failed try: what is kept for the next image is untouched.
LEMMA TryAgain ==
  ASSUME Ext2Inv, ld.at \in {"open", "read"}, ld' = Again(ld),
         file' \in FileRec, rd' \in ReadRec, ~rd'.on, gdesc' = cached',
         NEW s, mem' = [mem EXCEPT ![ld.img] = s]
  PROVE  Ext2Inv'
<1>1. ld \in LoadRec /\ DOMAIN mem = DOMAIN Image /\ ld.img \in DOMAIN Image
  BY DEF Ext2Inv, Ext2TypeOK, LoadRec
<1>2. /\ ld' \in LoadRec /\ ld'.at \in {"open", "end"}
      /\ \A i \in DOMAIN Image :
           i < ld'.img /\ NextPair(i) = NextPair(ld'.img)
             => i < ld.img /\ NextPair(i) = NextPair(ld.img)
  BY <1>1, AgainKeeps
<1>3. DOMAIN mem' = DOMAIN Image /\ mem' = [i \in DOMAIN Image |-> mem'[i]]
  BY <1>1
<1>4. \A i \in DOMAIN Image : i # ld.img => mem'[i] = mem[i]
  BY <1>1
<1>5. PairKept'
  <2>1. ASSUME NEW i \in DOMAIN Image, i < ld'.img, NextPair(i) = NextPair(ld'.img)
        PROVE  mem'[i] = Content(i)
    <3>1. i < ld.img /\ NextPair(i) = NextPair(ld.img)
      BY <1>2, <2>1
    <3>2. i # ld.img
      BY <1>1, <3>1, Images
    <3> QED BY <1>4, <3>1, <3>2 DEF Ext2Inv, PairKept
  <2>2. \A i \in DOMAIN Image : i < ld'.img /\ NextPair(i) = NextPair(ld'.img)
          => mem'[i] = Content(i)
    BY <2>1
  <2> QED BY <2>2 DEF PairKept, NextPair, Content
<1> QED BY <1>2, <1>3, <1>5 DEF Ext2Inv, Ext2TypeOK, Reading, RunEnds

LEMMA Ext2Starts ==
  ASSUME Ext2Init
  PROVE  Ext2Inv
<1>1. /\ mem = [i \in DOMAIN Image |-> <<>>]
      /\ ld = [at |-> "open", img |-> 1, cnt |-> Tries, err |-> TRUE]
      /\ file = NoFile /\ rd = NoRead /\ gdesc = cached
  BY DEF Ext2Init
<1>2. 1 \in DOMAIN Image /\ Tries \in Int
  BY Ext2Assumption, Images
<1>3. ld \in LoadRec /\ ld.at = "open" /\ ld.img = 1
  BY <1>1, <1>2 DEF LoadRec
<1>4. Ext2TypeOK
  BY <1>1, <1>3, NoFileType, NoReadType DEF Ext2TypeOK
<1>5. \A i \in DOMAIN Image : ~(i < 1)
  BY Images
<1>6. PairKept
  BY <1>3, <1>5 DEF PairKept
<1> QED BY <1>1, <1>3, <1>4, <1>6, NoReadType DEF Ext2Inv, Reading, RunEnds

LEMMA OpenExt2 ==
  ASSUME Ext2Inv, LoadOpen
  PROVE  Ext2Inv'
<1>1. /\ ld.at = "open" /\ rd' = rd /\ rd \in ReadRec /\ ~rd.on /\ ld \in LoadRec
      /\ ld.img \in DOMAIN Image /\ gdesc = cached /\ DOMAIN mem = DOMAIN Image
      /\ mem' = [mem EXCEPT ![ld.img] = <<>>]
      /\ ld' = IF file'.img = 0 THEN Again(ld) ELSE [ld EXCEPT !.at = "read"]
  BY DEF LoadOpen, Ext2Inv, Ext2TypeOK, LoadRec
<1>2. PICK group \in {0, 1} : Open(ld.img, group)
  BY DEF LoadOpen
<1>3. /\ gdesc' = cached' /\ file' \in FileRec
      /\ file'.img = 0 \/ (file'.img = ld.img /\ file'.pos = 0)
  <2>1. CASE Unopened = {}
    <3>1. file' = NoFile /\ gdesc' = gdesc /\ cached' = cached
      BY <1>2, <2>1 DEF Open
    <3> QED BY <1>1, <3>1, NoFileType
  <2>2. CASE Unopened # {}
    <3>1. PICK ok \in BOOLEAN :
            /\ GetGdesc(group, ok)
            /\ file' = IF ok THEN [img |-> GetInode(ld.img, group),
                                   h |-> LowestHandle, pos |-> 0] ELSE NoFile
      BY <1>2, <2>2 DEF Open, InodeLookup, DirLookup
    <3>2. gdesc' = cached' /\ (ok => cached' = group)
      BY <1>1, <3>1 DEF GetGdesc
    <3>3. CASE ok
      <4>1. GetInode(ld.img, group) = ld.img
        BY <3>2, <3>3 DEF GetInode
      <4>2. file' = [img |-> ld.img, h |-> LowestHandle, pos |-> 0]
        BY <3>1, <3>3, <4>1
      <4>3. file' \in FileRec /\ file'.img = ld.img /\ file'.pos = 0
        BY <1>1, <2>2, <4>2, HandleFound DEF FileRec
      <4> QED BY <3>2, <4>3
    <3>4. CASE ~ok
      BY <3>1, <3>2, <3>4, NoFileType
    <3> QED BY <3>3, <3>4
  <2> QED BY <2>1, <2>2
<1>4. CASE file'.img = 0
  BY <1>1, <1>3, <1>4, TryAgain
<1>5. CASE file'.img # 0
  <2>1. ld' = [ld EXCEPT !.at = "read"]
    BY <1>1, <1>5
  <2>2. ld' \in LoadRec
    BY <1>1, <2>1 DEF LoadRec
  <2>3. ld'.at = "read" /\ ld'.img = ld.img
    BY <1>1, <2>1 DEF LoadRec
  <2>4. /\ DOMAIN mem' = DOMAIN Image /\ mem' = [i \in DOMAIN Image |-> mem'[i]]
        /\ mem'[ld.img] = <<>> /\ \A i \in DOMAIN Image : i # ld.img => mem'[i] = mem[i]
    BY <1>1
  <2>5. Ext2TypeOK'
    BY <1>1, <1>3, <2>2, <2>4 DEF Ext2TypeOK
  <2>6. PairKept'
    <3>1. ASSUME NEW i \in DOMAIN Image, i < ld.img, NextPair(i) = NextPair(ld.img)
          PROVE  mem'[i] = Content(i)
      <4>1. i # ld.img
        BY <1>1, <3>1, Images
      <4> QED BY <2>4, <3>1, <4>1 DEF Ext2Inv, PairKept
    <3>2. \A i \in DOMAIN Image : i < ld'.img /\ NextPair(i) = NextPair(ld'.img)
            => mem'[i] = Content(i)
      BY <2>3, <3>1
    <3> QED BY <3>2 DEF PairKept, NextPair, Content
  <2>7. Reading'
    <3>1. Size[ld.img] \in Nat
      BY <1>1, FileSystemAssumption
    <3>2. 0 % BlockSize = 0
      BY Ext2Assumption
    <3>3. mem'[ld'.img] = Prefix(ld'.img, file'.pos)
      BY <1>3, <1>5, <2>3, <2>4, NoPrefix
    <3>4. Prefix(ld.img, file.pos)' = Prefix(ld'.img, file'.pos)
      BY DEF Prefix
    <3> QED BY <1>1, <1>3, <1>5, <2>3, <3>1, <3>2, <3>3, <3>4 DEF Reading
  <2> QED BY <1>1, <1>3, <2>3, <2>5, <2>6, <2>7 DEF Ext2Inv, RunEnds
<1> QED BY <1>4, <1>5

LEMMA ReadExt2 ==
  ASSUME Ext2Inv, LoadRead
  PROVE  Ext2Inv'
<1>1. /\ ld.at = "read" /\ ~rd.on /\ ld \in LoadRec /\ file \in FileRec
      /\ ld.img \in DOMAIN Image /\ gdesc = cached /\ DOMAIN mem = DOMAIN Image
      /\ mem = [i \in DOMAIN Image |-> mem[i]]
      /\ UNCHANGED <<gdesc, cached, ld>> /\ ReadBegin(Size[file.img])
      /\ file.img = ld.img /\ file.pos = 0 /\ mem[ld.img] = Prefix(ld.img, 0)
  BY DEF LoadRead, Ext2Inv, Ext2TypeOK, LoadRec, Reading
<1>2. PICK z \in Nat : z = Size[ld.img]
  BY <1>1, FileSystemAssumption
<1>3. Min2(z, z - 0) = z /\ 0 % BlockSize = 0
  BY Ext2Assumption DEF Min2
<1>4. /\ mem' = [mem EXCEPT ![ld.img] = @ \o Bytes(buf, 0, 0)]
      /\ file' = [file EXCEPT !.pos = @ + 0] /\ rd' = [on |-> TRUE, want |-> z, done |-> 0]
  <2>1. /\ mem' = [mem EXCEPT ![ld.img] = @ \o Bytes(buf, 0, 0 + 0)]
        /\ file' = [file EXCEPT !.pos = @ + 0] /\ rd' = [on |-> TRUE, want |-> z, done |-> 0]
    BY <1>1, <1>2, <1>3 DEF ReadBegin
  <2>2. 0 + 0 = 0
    OBVIOUS
  <2> QED BY <2>1, <2>2
<1>5. file' \in FileRec /\ file'.img = file.img /\ file'.pos = 0
  <2>1. file' = [file EXCEPT !.pos = 0]
    BY <1>1, <1>4
  <2> QED BY <1>1, <2>1 DEF FileRec
<1>6. mem' = mem
  <2>1. mem[ld.img] = <<>>
    BY <1>1, NoPrefix
  <2>2. Bytes(buf, 0, 0) = <<>>
    <3>1. 1 .. 0 - 0 = {}
      OBVIOUS
    <3> QED BY <3>1 DEF Bytes
  <2>3. <<>> \o <<>> = <<>>
    OBVIOUS
  <2>4. mem' = [mem EXCEPT ![ld.img] = <<>>]
    BY <1>4, <2>1, <2>2, <2>3
  <2> QED BY <1>1, <2>1, <2>4
<1>7. rd' \in ReadRec /\ rd'.on /\ rd'.want = z /\ rd'.done = 0
  BY <1>4 DEF ReadRec
<1>8. Ext2TypeOK'
  BY <1>1, <1>5, <1>6, <1>7 DEF Ext2TypeOK
<1>9. PairKept'
  BY <1>1, <1>6 DEF Ext2Inv, PairKept, NextPair, Content
<1>10. Reading'
  <2>1. Prefix(ld.img, file.pos)' = Prefix(ld.img, 0)
    BY <1>1, <1>5 DEF Prefix
  <2> QED BY <1>1, <1>2, <1>3, <1>5, <1>6, <1>7, <2>1 DEF Reading
<1> QED BY <1>1, <1>8, <1>9, <1>10 DEF Ext2Inv, RunEnds

LEMMA BlockExt2 ==
  ASSUME Ext2Inv, LoadBlock
  PROVE  Ext2Inv'
<1>1. /\ ld.at = "read" /\ rd.on /\ rd.done < rd.want
      /\ ld \in LoadRec /\ file \in FileRec /\ rd \in ReadRec
      /\ ld.img \in DOMAIN Image /\ gdesc = cached /\ DOMAIN mem = DOMAIN Image
      /\ mem = [i \in DOMAIN Image |-> mem[i]]
      /\ UNCHANGED <<gdesc, cached>>
  BY DEF LoadBlock, Ext2Inv, Ext2TypeOK, LoadRec
<1>2. PICK ok \in BOOLEAN :
        /\ ReadBlock(ok)
        /\ IF rd'.on THEN UNCHANGED <<ld, opened>> ELSE Close /\ ld' = Again(ld)
  BY DEF LoadBlock
<1>3. CASE ~ok
  <2>1. rd' = NoRead /\ mem' = mem /\ file' = file
    BY <1>2, <1>3 DEF ReadBlock
  <2>2. ld' = Again(ld) /\ ~rd'.on /\ rd' \in ReadRec
    BY <1>2, <2>1, NoReadType
  <2>3. PICK s : s = mem[ld.img]
    OBVIOUS
  <2>4. mem' = [mem EXCEPT ![ld.img] = s]
    BY <1>1, <2>1, <2>3
  <2> QED BY <1>1, <2>1, <2>2, <2>4, TryAgain
<1>4. CASE ok
  <2>1. PICK z \in Nat, p \in Nat, c \in Nat \ {0}, i \in DOMAIN Image :
          z = Size[i] /\ p = file.pos /\ c = BlockSize /\ i = ld.img
    BY <1>1, FileSystemAssumption, Ext2Assumption DEF FileRec
  <2>2. /\ file.img = i /\ mem[i] = Prefix(i, p) /\ rd.want = z /\ rd.done = p
        /\ p < z /\ p % c = 0
    <3>1. /\ file.img = i /\ mem[i] = Prefix(i, p) /\ rd.want = z /\ rd.done = p
          /\ p % c = 0 \/ p = z
      BY <1>1, <2>1 DEF Ext2Inv, Reading
    <3> QED BY <1>1, <2>1, <3>1
  <2>3. PICK b \in Nat : b = p \div c /\ p = b * c
    <3>1. p = c * (p \div c) + (p % c) /\ p \div c \in Nat
      OBVIOUS
    <3>2. PICK q \in Nat : q = p \div c
      BY <3>1
    <3>3. c * q = q * c /\ c * q \in Nat
      OBVIOUS
    <3> QED BY <2>2, <3>1, <3>2, <3>3
  <2>4. InodeBlock(i, b) = Home[i][b]
    <3>1. b <= b * c
      <4>1. b * 1 <= b * c
        OBVIOUS
      <4> QED BY <4>1
    <3>2. b \in 0 .. z - 1 /\ b * c < z
      BY <2>2, <2>3, <3>1
    <3> QED BY <2>1, <3>2, FileSystemAssumption
  <2>5. PICK n \in Nat : n = Min2(c, z - p) /\ n <= c /\ p + n <= z /\ (n = c \/ p + n = z)
    BY <2>2 DEF Min2
  <2>6. /\ mem' = [mem EXCEPT ![i] = Prefix(i, p) \o Bytes(Home[i][p \div BlockSize], 0, n)]
        /\ file' = [file EXCEPT !.pos = p + n]
        /\ rd' = [rd EXCEPT !.done = p + n]
    <3>1. /\ mem' = [mem EXCEPT ![ld.img] =
                       @ \o Bytes(InodeBlock(file.img, file.pos \div BlockSize), 0,
                                  Min2(BlockSize, rd.want - rd.done))]
          /\ file' = [file EXCEPT !.pos = @ + Min2(BlockSize, rd.want - rd.done)]
          /\ rd' = [rd EXCEPT !.done = @ + Min2(BlockSize, rd.want - rd.done)]
      BY <1>2, <1>4 DEF ReadBlock
    <3>2. Min2(BlockSize, rd.want - rd.done) = n
      BY <2>1, <2>2, <2>5
    <3>3. InodeBlock(file.img, file.pos \div BlockSize) = Home[i][p \div BlockSize]
      BY <2>1, <2>2, <2>3, <2>4
    <3> QED BY <1>1, <2>1, <2>2, <3>1, <3>2, <3>3
  <2>7. PICK u \in Nat : u = p + n
    OBVIOUS
  <2>8. mem' = [mem EXCEPT ![i] = Prefix(i, u)]
    <3>1. p % BlockSize = 0 /\ n <= BlockSize
      BY <2>1, <2>2, <2>5
    <3>2. Prefix(i, p) \o Bytes(Home[i][p \div BlockSize], 0, n) = Prefix(i, p + n)
      BY <3>1, NextBytes
    <3> QED BY <2>6, <2>7, <3>2
  <2>9. file' \in FileRec /\ file'.img = i /\ file'.pos = u
    <3>1. file' = [file EXCEPT !.pos = u]
      BY <2>6, <2>7
    <3>2. file' \in FileRec
      BY <1>1, <3>1 DEF FileRec
    <3>3. file'.img = file.img /\ file'.pos = u
      BY <1>1, <3>1 DEF FileRec
    <3> QED BY <2>2, <3>2, <3>3
  <2>10. rd' \in ReadRec /\ rd'.on /\ rd'.want = z /\ rd'.done = u
    <3>1. rd' = [rd EXCEPT !.done = u]
      BY <2>6, <2>7
    <3>2. rd' \in ReadRec
      BY <1>1, <3>1 DEF ReadRec
    <3>3. rd'.on = rd.on /\ rd'.want = rd.want /\ rd'.done = u
      BY <1>1, <3>1 DEF ReadRec
    <3> QED BY <1>1, <2>2, <3>2, <3>3
  <2>11. ld' = ld
    BY <1>2, <2>10
  <2>12. /\ DOMAIN mem' = DOMAIN Image /\ mem' = [k \in DOMAIN Image |-> mem'[k]]
         /\ mem'[i] = Prefix(i, u) /\ \A k \in DOMAIN Image : k # i => mem'[k] = mem[k]
    BY <1>1, <2>8
  <2>13. Ext2TypeOK'
    BY <1>1, <2>9, <2>10, <2>11, <2>12 DEF Ext2TypeOK
  <2>14. PairKept'
    <3>1. ASSUME NEW k \in DOMAIN Image, k < i, NextPair(k) = NextPair(i)
          PROVE  mem'[k] = Content(k)
      <4>1. k # i
        BY <3>1, Images
      <4> QED BY <2>1, <2>12, <3>1, <4>1 DEF Ext2Inv, PairKept
    <3>2. \A k \in DOMAIN Image : k < ld'.img /\ NextPair(k) = NextPair(ld'.img)
            => mem'[k] = Content(k)
      BY <2>1, <2>11, <3>1
    <3> QED BY <3>2 DEF PairKept, NextPair, Content
  <2>15. u % c = 0 \/ u = z
    <3>1. CASE n = c
      <4>1. PICK d \in Nat : d = b + 1
        OBVIOUS
      <4>2. u = d * c + 0
        BY <2>3, <2>7, <3>1, <4>1
      <4>3. 0 \in 0 .. c - 1
        OBVIOUS
      <4> QED BY <4>2, <4>3, SplitBlock
    <3> QED BY <2>5, <2>7, <3>1
  <2>16. Reading'
    <3>1. Prefix(ld.img, file.pos)' = Prefix(i, u)
      BY <2>1, <2>9, <2>11 DEF Prefix
    <3> QED BY <2>1, <2>5, <2>7, <2>9, <2>10, <2>11, <2>12, <2>15, <3>1 DEF Reading
  <2> QED BY <1>1, <2>11, <2>13, <2>14, <2>16 DEF Ext2Inv, RunEnds
<1> QED BY <1>3, <1>4

LEMMA DoneExt2 ==
  ASSUME Ext2Inv, LoadDone
  PROVE  Ext2Inv'
<1>1. /\ ld.at = "read" /\ rd.on /\ rd.done = rd.want /\ rd' = NoRead
      /\ ld' = IF file.pos = Size[file.img] THEN Loaded(ld) ELSE ld
      /\ ld \in LoadRec /\ ld.img \in DOMAIN Image /\ UNCHANGED <<gdesc, cached, file, mem>>
  BY DEF LoadDone, Ext2Inv, Ext2TypeOK, LoadRec
<1>2. /\ file.img = ld.img /\ file.pos = Size[ld.img]
      /\ mem[ld.img] = Prefix(ld.img, Size[ld.img])
  BY <1>1 DEF Ext2Inv, Reading
<1>3. ld' = Loaded(ld) /\ mem[ld.img] = Content(ld.img)
  BY <1>1, <1>2, WholePrefix
<1>4. /\ ld' \in LoadRec /\ ld'.at \in {"open", "run"}
      /\ ld'.at = "run" => ld.img = Len(Image) /\ ld'.img = ld.img
      /\ \A i \in DOMAIN Image :
           i < ld'.img /\ NextPair(i) = NextPair(ld'.img)
             => i = ld.img \/ (i < ld.img /\ NextPair(i) = NextPair(ld.img))
  BY <1>1, <1>3, LoadedKeeps
<1>5. Ext2TypeOK'
  BY <1>1, <1>4, NoReadType DEF Ext2Inv, Ext2TypeOK
<1>6. PairKept'
  <2>1. \A i \in DOMAIN Image : i < ld'.img /\ NextPair(i) = NextPair(ld'.img)
          => mem'[i] = Content(i)
    BY <1>1, <1>3, <1>4 DEF Ext2Inv, PairKept
  <2> QED BY <2>1 DEF PairKept, NextPair, Content
<1>7. RunEnds'
  BY <1>1, <1>3, <1>4 DEF RunEnds, Content
<1> QED BY <1>1, <1>4, <1>5, <1>6, <1>7, NoReadType DEF Ext2Inv, Reading

\* What has been read of a file is a prefix of it, whole blocks of it while the
\* read goes on, along every behaviour (ext2fs_read, sys_load_kernel_from_ide).
THEOREM Ext2Invariant == Ext2Spec => []Ext2Inv
<1>1. Ext2Init => Ext2Inv
  BY Ext2Starts
<1>2. Ext2Inv /\ [Ext2Next]_ext2Vars => Ext2Inv'
  <2> SUFFICES ASSUME Ext2Inv, [Ext2Next]_ext2Vars
               PROVE  Ext2Inv'
    OBVIOUS
  <2>1. CASE LoadOpen
    BY <2>1, OpenExt2
  <2>2. CASE LoadRead
    BY <2>2, ReadExt2
  <2>3. CASE LoadBlock
    BY <2>3, BlockExt2
  <2>4. CASE LoadDone
    BY <2>4, DoneExt2
  <2>5. CASE UNCHANGED ext2Vars
    BY <2>5 DEF ext2Vars, Ext2Inv, Ext2TypeOK, Reading, Prefix, PairKept, NextPair,
                Content, RunEnds
  <2> QED BY <2>1, <2>2, <2>3, <2>4, <2>5 DEF Ext2Next
<1> QED BY <1>1, <1>2, PTL DEF Ext2Spec

\* The kernel and the initrd that were tried last are in memory, whole, when
\* the kernel is started, in a build for one CPU or for two.
LastPairLoaded ==
  ld.at = "run" => \A i \in {Len(Image) - 1, Len(Image)} : mem[i] = Content(i)

\* What is started are the two images of the last pair, complete, for every
\* layout of the files, whatever reads failed (sys_load_kernel_from_ide).
THEOREM LastPairAlwaysLoaded == Ext2Spec => []LastPairLoaded
<1>1. Ext2Inv => LastPairLoaded
  <2> SUFFICES ASSUME Ext2Inv, ld.at = "run", NEW i \in {Len(Image) - 1, Len(Image)}
               PROVE  mem[i] = Content(i)
    BY DEF LastPairLoaded
  <2>1. ld.img = Len(Image) /\ mem[ld.img] = Content(ld.img)
    BY DEF Ext2Inv, RunEnds
  <2>2. CASE i = Len(Image)
    BY <2>1, <2>2
  <2>3. CASE i # Len(Image)
    <3>1. i = Len(Image) - 1
      BY <2>3
    <3>2. i \in DOMAIN Image /\ i < ld.img /\ NextPair(i) = NextPair(ld.img)
      <4>1. CASE Len(Image) = 2
        <5>1. i = 1
          BY <3>1, <4>1
        <5> QED BY <2>1, <4>1, <5>1, Images
      <4>2. CASE Len(Image) = 4
        <5>1. i = 3
          BY <3>1, <4>2
        <5> QED BY <2>1, <4>2, <5>1, Images
      <4> QED BY <4>1, <4>2, Images
    <3> QED BY <3>2 DEF Ext2Inv, PairKept
  <2> QED BY <2>2, <2>3
<1> QED BY <1>1, Ext2Invariant, PTL

\* In a build for one CPU the kernel is started only when initrd and kernel
\* are in memory byte for byte, whatever reads of the disk failed
\* (sys_load_kernel_from_ide, ext2fs_read).
THEOREM ImagesAlwaysLoaded ==
  ASSUME Len(Image) = 2
  PROVE  Ext2Spec => []RunsLoaded
<1>1. LastPairLoaded => RunsLoaded
  BY Images DEF LastPairLoaded, RunsLoaded
<1> QED BY <1>1, LastPairAlwaysLoaded, PTL

-----------------------------------------------------------------------------
(* Ecc: the pages a read hands out                                          *)

\* The bits of byte i of the code.
Own(i) == About[i] \X {0, 1} \cup (IF i = 3 THEN Spare ELSE {})

Label == Place \X {0, 1} \cup Spare

\* Byte e of the code as pagewrite stored it.
StoredCode(e) == PageEcc(written[PieceOf(e)])[ByteOf(e)]

\* The bits of the page, and of its code, that are not as they were stored.
Lost == {m \in (1 .. Steps) \X Bit : m[2] \in Differ(page[m[1]], written[m[1]])}
Bad  == {m \in (DOMAIN OobSel) \X Label :
           m[2] \in Differ(oob[OobSel[m[1]]], StoredCode(m[1]))}

\* No more than n bits, as far as two.
Few(n, L, B) ==
  /\ n = 0 => L = {} /\ B = {}
  /\ n = 1 => \/ B = {} /\ \E u : L \subseteq {u}
              \/ L = {} /\ \E u : B \subseteq {u}
  /\ n = 2 => \/ B = {} /\ \E u, v : L \subseteq {u, v}
              \/ L = {} /\ \E u, v : B \subseteq {u, v}
              \/ \E u, v : L \subseteq {u} /\ B \subseteq {v}

EccTypeOK ==
  /\ written \in [1 .. Steps -> SUBSET Bit] /\ page \in [1 .. Steps -> SUBSET Bit]
  /\ oob \in [Oob -> SUBSET Label] /\ flips \in Nat \cup {-1}

EccInv ==
  /\ EccTypeOK
  /\ flips = -1 => result = Unread
  /\ flips >= 0 =>
       /\ \A e \in DOMAIN OobSel : oob[OobSel[e]] \subseteq Own(ByteOf(e))
       /\ Few(flips, Lost, Bad)
  /\ PageRestored

-----------------------------------------------------------------------------
(* Places and parities                                                      *)

LEMMA Places ==
  /\ LineBits \in Nat /\ ColBits \in Nat \ {0} /\ LineBits > 1
  /\ Place = 0 .. LineBits + ColBits - 1
  /\ About = <<Upper, Lower, Col>> /\ About[1] = Upper /\ About[2] = Lower /\ About[3] = Col
  /\ Upper \cup Lower \cup Col = Place
  /\ Upper \cap Lower = {} /\ Upper \cap Col = {} /\ Lower \cap Col = {}
  /\ LineBits + ColBits \notin Place
  /\ 0 \in Place /\ 1 \in Place /\ LineBits \in Place
<1>1. LineBits \in Nat /\ ColBits \in Nat \ {0} /\ LineBits > 1
  <2>1. LineBits \in Nat \ {0} /\ LineBits % 2 = 0 /\ ColBits \in Nat \ {0}
    BY EccAssumption
  <2>2. 1 % 2 = 1
    OBVIOUS
  <2> QED BY <2>1, <2>2
<1>2. Place = 0 .. LineBits + ColBits - 1
  BY <1>1 DEF Place, Line, Col
<1>3. Upper \cup Lower \cup Col = Place
  BY <1>1 DEF Place, Line, Col, Upper, Lower
<1>4. Upper \cap Lower = {} /\ Upper \cap Col = {} /\ Lower \cap Col = {}
  BY <1>1 DEF Line, Col, Upper, Lower
<1>5. About = <<Upper, Lower, Col>> /\ About[1] = Upper /\ About[2] = Lower /\ About[3] = Col
  BY DEF About
<1> QED BY <1>1, <1>2, <1>3, <1>4, <1>5

LEMMA BitFinite == IsFiniteSet(Bit)
<1>1. IsFiniteSet(Place)
  BY Places, FS_Interval
<1>2. IsFiniteSet(SUBSET Place)
  BY <1>1, FS_SUBSET
<1>3. PICK f : f = [x \in Bit |-> {p \in Place : x[p] = 1}]
  OBVIOUS
<1>4. f \in [Bit -> SUBSET Place]
  BY <1>3
<1>5. ASSUME NEW x \in Bit, NEW y \in Bit, f[x] = f[y]
      PROVE  x = y
  <2>1. \A p \in Place : x[p] = 1 <=> y[p] = 1
    BY <1>3, <1>5
  <2>2. \A p \in Place : x[p] \in {0, 1} /\ y[p] \in {0, 1}
    BY DEF Bit
  <2>3. \A p \in Place : x[p] = y[p]
    BY <2>1, <2>2
  <2>4. x = [p \in Place |-> x[p]] /\ y = [p \in Place |-> y[p]]
    BY DEF Bit
  <2> QED BY <2>3, <2>4
<1>6. f \in Injection(Bit, SUBSET Place)
  BY <1>4, <1>5 DEF Injection, IsInjective
<1> QED BY <1>2, <1>6, FS_Injection

LEMMA DifferIs ==
  ASSUME NEW A, NEW B, NEW z
  PROVE  z \in Differ(A, B) <=> ~(z \in A <=> z \in B)
BY DEF Differ

\* Changes add up.
LEMMA DifferSum ==
  ASSUME NEW E, NEW F, NEW H
  PROVE  Differ(F, H) = Differ(Differ(F, E), Differ(H, E))
BY DEF Differ

LEMMA ParityToggled ==
  ASSUME NEW S, IsFiniteSet(S), NEW x
  PROVE  Parity(Differ(S, {x})) = 0 <=> Parity(S) # 0
<1>1. Cardinality(S) \in Nat
  BY FS_CardinalityType
<1>2. CASE x \in S
  <2>1. Differ(S, {x}) = S \ {x}
    BY <1>2 DEF Differ
  <2>2. Cardinality(S \ {x}) = Cardinality(S) - 1 /\ Cardinality(S \ {x}) \in Nat
    BY <1>2, FS_RemoveElement, FS_CardinalityType
  <2>3. PICK n \in Nat, m \in Nat : n = Cardinality(S) /\ m = Cardinality(S \ {x}) /\ n = m + 1
    BY <1>1, <2>2
  <2>4. m % 2 = 0 <=> n % 2 # 0
    BY <2>3
  <2> QED BY <2>1, <2>3, <2>4 DEF Parity
<1>3. CASE x \notin S
  <2>1. Differ(S, {x}) = S \cup {x}
    BY <1>3 DEF Differ
  <2>2. PICK n \in Nat, m \in Nat : n = Cardinality(S) /\ m = Cardinality(S \cup {x}) /\ m = n + 1
    BY <1>1, <1>3, FS_AddElement
  <2>3. m % 2 = 0 <=> n % 2 # 0
    BY <2>2
  <2> QED BY <2>1, <2>2, <2>3 DEF Parity
<1> QED BY <1>2, <1>3

\* The parities that bit x is part of, in byte i of the code.
Pairs(x, i) == {b \in About[i] \X {0, 1} : x[b[1]] = b[2]}

LEMMA ByteToggled ==
  ASSUME NEW A \in SUBSET Bit, NEW x \in Bit, NEW P \in SUBSET Place, NEW b \in P \X {0, 1}
  PROVE  b \in Differ(ByteParity(Differ(A, {x}), P), ByteParity(A, P)) <=> x[b[1]] = b[2]
<1>1. PICK S, T : /\ S = {z \in A : z[b[1]] = b[2]}
                  /\ T = {z \in Differ(A, {x}) : z[b[1]] = b[2]}
  OBVIOUS
<1>2. IsFiniteSet(S)
  BY <1>1, BitFinite, FS_Subset
<1>3. /\ b \in ByteParity(A, P) <=> Parity(S) = 0
      /\ b \in ByteParity(Differ(A, {x}), P) <=> Parity(T) = 0
  BY <1>1 DEF ByteParity
<1>4. CASE x[b[1]] = b[2]
  <2>1. T = Differ(S, {x})
    BY <1>1, <1>4 DEF Differ
  <2>2. Parity(T) = 0 <=> Parity(S) # 0
    BY <1>2, <2>1, ParityToggled
  <2> QED BY <1>3, <1>4, <2>2, DifferIs
<1>5. CASE x[b[1]] # b[2]
  <2>1. T = S
    BY <1>1, <1>5 DEF Differ
  <2> QED BY <1>3, <1>5, <2>1, DifferIs
<1> QED BY <1>4, <1>5

LEMMA CodeToggled ==
  ASSUME NEW A \in SUBSET Bit, NEW x \in Bit, NEW i \in 1 .. 3
  PROVE  Differ(PageEcc(Differ(A, {x}))[i], PageEcc(A)[i]) = Pairs(x, i)
<1>1. PICK B : B = Differ(A, {x})
  OBVIOUS
<1>2. \A P \in SUBSET Place :
        Differ(ByteParity(B, P), ByteParity(A, P)) = {b \in P \X {0, 1} : x[b[1]] = b[2]}
  <2>1. ASSUME NEW P \in SUBSET Place
        PROVE  Differ(ByteParity(B, P), ByteParity(A, P)) = {b \in P \X {0, 1} : x[b[1]] = b[2]}
    <3>1. ByteParity(B, P) \subseteq P \X {0, 1} /\ ByteParity(A, P) \subseteq P \X {0, 1}
      BY DEF ByteParity
    <3>2. \A b \in P \X {0, 1} :
            b \in Differ(ByteParity(B, P), ByteParity(A, P)) <=> x[b[1]] = b[2]
      BY <1>1, ByteToggled
    <3> QED BY <3>1, <3>2 DEF Differ
  <2> QED BY <2>1
<1>3. Upper \in SUBSET Place /\ Lower \in SUBSET Place /\ Col \in SUBSET Place
  BY Places
<1>4. \A C : /\ PageEcc(C)[1] = ByteParity(C, Upper) /\ PageEcc(C)[2] = ByteParity(C, Lower)
             /\ PageEcc(C)[3] = ByteParity(C, Col) \cup Spare
  BY DEF PageEcc
<1>5. CASE i = 1
  BY <1>1, <1>2, <1>3, <1>4, <1>5, Places DEF Pairs
<1>6. CASE i = 2
  BY <1>1, <1>2, <1>3, <1>4, <1>6, Places DEF Pairs
<1>7. CASE i = 3
  <2>1. \A b \in Spare : b \notin Col \X {0, 1}
    BY Places DEF Spare
  <2>2. ByteParity(B, Col) \subseteq Col \X {0, 1} /\ ByteParity(A, Col) \subseteq Col \X {0, 1}
    BY DEF ByteParity
  <2>3. Differ(ByteParity(B, Col) \cup Spare, ByteParity(A, Col) \cup Spare) =
          Differ(ByteParity(B, Col), ByteParity(A, Col))
    BY <2>1, <2>2 DEF Differ
  <2> QED BY <1>1, <1>2, <1>3, <1>4, <1>7, <2>3, Places DEF Pairs
<1> QED BY <1>5, <1>6, <1>7


-----------------------------------------------------------------------------
(* One piece: what the check makes of a piece B and code c, when A and its  *)
(* code were stored                                                         *)

\* The bits of code that say something else about B than about A.
Gap(B, A) == UNION {Differ(PageEcc(B)[i], PageEcc(A)[i]) : i \in 1 .. 3}

\* The bits of the code that are not as stored for A.
Off(c, A) == UNION {Differ(c[i], PageEcc(A)[i]) : i \in 1 .. 3}

Code == {c \in [1 .. 3 -> SUBSET Label] : \A i \in 1 .. 3 : c[i] \subseteq Own(i)}

\* All parities that bit x is part of.
Of(x) == {b \in Place \X {0, 1} : x[b[1]] = b[2]}

LEMMA OwnApart ==
  /\ \A i, j \in 1 .. 3 : i # j => Own(i) \cap Own(j) = {}
  /\ \A i \in 1 .. 3 : Own(i) \subseteq Label /\ About[i] \X {0, 1} \subseteq Own(i)
  /\ \A b \in Spare : b \notin Place \X {0, 1}
<1>1. /\ Own(1) = Upper \X {0, 1} /\ Own(2) = Lower \X {0, 1} /\ Own(3) = Col \X {0, 1} \cup Spare
  BY Places DEF Own
<1>2. \A b \in Spare : b \notin Place \X {0, 1}
  BY Places DEF Spare
<1>3. Upper \subseteq Place /\ Lower \subseteq Place /\ Col \subseteq Place
  BY Places
<1>4. Own(1) \cap Own(2) = {}
  BY <1>1, Places
<1>5. Own(1) \cap Own(3) = {}
  BY <1>1, <1>2, <1>3, Places
<1>6. Own(2) \cap Own(3) = {}
  BY <1>1, <1>2, <1>3, Places
<1>7. \A i \in 1 .. 3 : Own(i) \subseteq Label /\ About[i] \X {0, 1} \subseteq Own(i)
  <2>1. \A i \in 1 .. 3 : i = 1 \/ i = 2 \/ i = 3
    OBVIOUS
  <2>2. Own(1) \subseteq Label /\ Own(2) \subseteq Label /\ Own(3) \subseteq Label
    BY <1>1, <1>3 DEF Label
  <2>3. \A i \in 1 .. 3 : About[i] \X {0, 1} \subseteq Own(i)
    BY DEF Own
  <2> QED BY <2>1, <2>2, <2>3
<1>8. \A i, j \in 1 .. 3 : i # j => Own(i) \cap Own(j) = {}
  BY <1>4, <1>5, <1>6
<1> QED BY <1>2, <1>7, <1>8

LEMMA CodeOwn ==
  ASSUME NEW A
  PROVE  \A i \in 1 .. 3 : PageEcc(A)[i] \subseteq Own(i)
<1>1. /\ PageEcc(A)[1] = ByteParity(A, Upper) /\ PageEcc(A)[2] = ByteParity(A, Lower)
      /\ PageEcc(A)[3] = ByteParity(A, Col) \cup Spare
  BY DEF PageEcc
<1>2. \A P : ByteParity(A, P) \subseteq P \X {0, 1}
  BY DEF ByteParity
<1>3. /\ Own(1) = Upper \X {0, 1} /\ Own(2) = Lower \X {0, 1} /\ Own(3) = Col \X {0, 1} \cup Spare
  BY Places DEF Own
<1>4. \A i \in 1 .. 3 : i = 1 \/ i = 2 \/ i = 3
  OBVIOUS
<1> QED BY <1>1, <1>2, <1>3, <1>4

\* The bits that disagree are those in which the piece and the code err
\* apart from each other.
LEMMA WrongIs ==
  ASSUME NEW A, NEW B, NEW c \in Code
  PROVE  Wrong(PageEcc(B), c) = Differ(Gap(B, A), Off(c, A))
<1>1. PICK E, F : E = PageEcc(A) /\ F = PageEcc(B)
  OBVIOUS
<1>2. \A i \in 1 .. 3 : E[i] \subseteq Own(i) /\ F[i] \subseteq Own(i) /\ c[i] \subseteq Own(i)
  BY <1>1, CodeOwn DEF Code
<1>3. ASSUME NEW b, NEW i \in 1 .. 3, b \in Own(i)
      PROVE  /\ b \in Wrong(F, c) <=> b \in Differ(F[i], c[i])
             /\ b \in Gap(B, A) <=> b \in Differ(F[i], E[i])
             /\ b \in Off(c, A) <=> b \in Differ(c[i], E[i])
  <2>1. \A j \in 1 .. 3 : j # i => b \notin E[j] /\ b \notin F[j] /\ b \notin c[j]
    BY <1>2, <1>3, OwnApart
  <2>2. \A j \in 1 .. 3 : j # i => /\ b \notin Differ(F[j], c[j]) /\ b \notin Differ(F[j], E[j])
                                   /\ b \notin Differ(c[j], E[j])
    BY <2>1, DifferIs
  <2> QED BY <1>1, <2>2 DEF Wrong, Gap, Off
<1>4. ASSUME NEW b, \A i \in 1 .. 3 : b \notin Own(i)
      PROVE  b \notin Wrong(F, c) /\ b \notin Gap(B, A) /\ b \notin Off(c, A)
  <2>1. \A i \in 1 .. 3 : b \notin E[i] /\ b \notin F[i] /\ b \notin c[i]
    BY <1>2, <1>4
  <2>2. \A j \in 1 .. 3 : /\ b \notin Differ(F[j], c[j]) /\ b \notin Differ(F[j], E[j])
                          /\ b \notin Differ(c[j], E[j])
    BY <2>1, DifferIs
  <2> QED BY <1>1, <2>2 DEF Wrong, Gap, Off
<1>5. ASSUME NEW b
      PROVE  b \in Wrong(F, c) <=> b \in Differ(Gap(B, A), Off(c, A))
  <2>1. CASE \E i \in 1 .. 3 : b \in Own(i)
    <3>1. PICK i \in 1 .. 3 : b \in Own(i)
      BY <2>1
    <3>2. b \in Differ(F[i], c[i]) <=> ~(b \in Differ(F[i], E[i]) <=> b \in Differ(c[i], E[i]))
      BY DifferIs
    <3> QED BY <1>3, <3>1, <3>2, DifferIs
  <2>2. CASE \A i \in 1 .. 3 : b \notin Own(i)
    BY <1>4, <2>2, DifferIs
  <2> QED BY <2>1, <2>2
<1> QED BY <1>1, <1>5

LEMMA GapNone ==
  ASSUME NEW A
  PROVE  Gap(A, A) = {}
BY DEF Gap, Differ

\* Every parity is in one byte of the code.
LEMMA Spread ==
  ASSUME NEW b \in Place \X {0, 1}
  PROVE  \E i \in 1 .. 3 : b \in About[i] \X {0, 1}
<1>1. b[1] \in Upper \/ b[1] \in Lower \/ b[1] \in Col
  BY Places
<1>2. b = <<b[1], b[2]>> /\ b[2] \in {0, 1}
  OBVIOUS
<1>3. b \in Upper \X {0, 1} \/ b \in Lower \X {0, 1} \/ b \in Col \X {0, 1}
  BY <1>1, <1>2
<1>4. 1 \in 1 .. 3 /\ 2 \in 1 .. 3 /\ 3 \in 1 .. 3
  OBVIOUS
<1> QED BY <1>3, <1>4, Places

LEMMA GapOne ==
  ASSUME NEW A \in SUBSET Bit, NEW x \in Bit
  PROVE  Gap(Differ(A, {x}), A) = Of(x)
<1>1. Gap(Differ(A, {x}), A) = UNION {Pairs(x, i) : i \in 1 .. 3}
  BY CodeToggled DEF Gap
<1>2. \A i \in 1 .. 3 : About[i] \subseteq Place
  <2>1. \A i \in 1 .. 3 : i = 1 \/ i = 2 \/ i = 3
    OBVIOUS
  <2> QED BY <2>1, Places
<1>3. \A b : b \in UNION {Pairs(x, i) : i \in 1 .. 3} <=> \E i \in 1 .. 3 : b \in About[i] \X {0, 1} /\ x[b[1]] = b[2]
  BY DEF Pairs
<1>4. \A b : (\E i \in 1 .. 3 : b \in About[i] \X {0, 1}) <=> b \in Place \X {0, 1}
  BY <1>2, Spread
<1> QED BY <1>1, <1>3, <1>4 DEF Of

LEMMA GapTwo ==
  ASSUME NEW A \in SUBSET Bit, NEW x \in Bit, NEW y \in Bit
  PROVE  Gap(Differ(Differ(A, {x}), {y}), A) = Differ(Of(x), Of(y))
<1>1. PICK M : M = Differ(A, {x}) /\ M \in SUBSET Bit
  BY DEF Differ
<1>2. \A i \in 1 .. 3 : Differ(PageEcc(Differ(M, {y}))[i], PageEcc(A)[i]) = Differ(Pairs(y, i), Pairs(x, i))
  <2>1. ASSUME NEW i \in 1 .. 3
        PROVE  Differ(PageEcc(Differ(M, {y}))[i], PageEcc(A)[i]) = Differ(Pairs(y, i), Pairs(x, i))
    <3>1. Differ(PageEcc(M)[i], PageEcc(A)[i]) = Pairs(x, i)
      BY <1>1, CodeToggled
    <3>2. Differ(PageEcc(A)[i], PageEcc(M)[i]) = Pairs(x, i)
      BY <3>1 DEF Differ
    <3>3. Differ(PageEcc(Differ(M, {y}))[i], PageEcc(M)[i]) = Pairs(y, i)
      BY <1>1, CodeToggled
    <3> QED BY <3>2, <3>3, DifferSum
  <2> QED BY <2>1
<1>3. Gap(Differ(M, {y}), A) = UNION {Differ(Pairs(y, i), Pairs(x, i)) : i \in 1 .. 3}
  BY <1>2 DEF Gap
<1>4. ASSUME NEW b
      PROVE  b \in UNION {Differ(Pairs(y, i), Pairs(x, i)) : i \in 1 .. 3} <=> b \in Differ(Of(x), Of(y))
  <2>1. \A i \in 1 .. 3 : b \in Differ(Pairs(y, i), Pairs(x, i)) <=>
                            b \in About[i] \X {0, 1} /\ ~(x[b[1]] = b[2] <=> y[b[1]] = b[2])
    BY DEF Pairs, Differ
  <2>2. \A i \in 1 .. 3 : About[i] \subseteq Place
    <3>1. \A i \in 1 .. 3 : i = 1 \/ i = 2 \/ i = 3
      OBVIOUS
    <3> QED BY <3>1, Places
  <2>3. (\E i \in 1 .. 3 : b \in About[i] \X {0, 1}) <=> b \in Place \X {0, 1}
    BY <2>2, Spread
  <2>4. b \in Differ(Of(x), Of(y)) <=> b \in Place \X {0, 1} /\ ~(x[b[1]] = b[2] <=> y[b[1]] = b[2])
    BY DEF Of, Differ
  <2> QED BY <2>1, <2>3, <2>4
<1> QED BY <1>1, <1>3, <1>4

\* What _nand_correct_data concludes from the bits that disagree.
InPairs(d) == \A p \in Place : <<p, 0>> \in d <=> <<p, 1>> \notin d

Single(d) == \E b \in d : d = {b}

LEMMA Verdict ==
  ASSUME NEW B, NEW c, NEW d, d = Wrong(PageEcc(B), c)
  PROVE  CorrectData(B, c) =
           IF d = {} THEN [status |-> 0, ones |-> B]
           ELSE IF InPairs(d) THEN [status |-> 1, ones |-> Differ(B, {Pointed(d)})]
           ELSE IF Single(d) THEN [status |-> 2, ones |-> B]
           ELSE [status |-> -1, ones |-> B]
BY DEF CorrectData, InPairs, Single

LEMMA Kept ==
  ASSUME NEW B, NEW c, NEW d, d = Wrong(PageEcc(B), c), ~InPairs(d)
  PROVE  CorrectData(B, c).ones = B
<1>1. \/ CorrectData(B, c) = [status |-> 0, ones |-> B]
      \/ CorrectData(B, c) = [status |-> 2, ones |-> B]
      \/ CorrectData(B, c) = [status |-> -1, ones |-> B]
  BY Verdict
<1> QED BY <1>1

LEMMA Passed ==
  ASSUME NEW B, NEW c, NEW d, d = Wrong(PageEcc(B), c), ~InPairs(d), NEW b, d \subseteq {b}
  PROVE  CorrectData(B, c).status # -1
<1>1. d = {} \/ Single(d)
  BY DEF Single
<1>2. \/ CorrectData(B, c) = [status |-> 0, ones |-> B]
      \/ CorrectData(B, c) = [status |-> 2, ones |-> B]
  BY <1>1, Verdict
<1> QED BY <1>2

LEMMA Reported ==
  ASSUME NEW B, NEW c, NEW d, d = Wrong(PageEcc(B), c), ~InPairs(d),
         NEW a \in d, NEW b \in d, a # b
  PROVE  CorrectData(B, c).status = -1
<1>1. d # {} /\ ~Single(d)
  BY DEF Single
<1>2. CorrectData(B, c) = [status |-> -1, ones |-> B]
  BY <1>1, Verdict
<1> QED BY <1>2

\* Three places and more: no two bits make up pairs.
LEMMA TwoNoPairs ==
  ASSUME NEW d, NEW u, NEW v, d \subseteq {u, v}
  PROVE  ~InPairs(d)
<1>1. SUFFICES ASSUME InPairs(d) PROVE FALSE
  OBVIOUS
<1>2. 0 \in Place /\ 1 \in Place /\ LineBits \in Place /\ LineBits # 0 /\ LineBits # 1
  BY Places
<1>3. \A p \in Place : <<p, 0>> \in d \/ <<p, 1>> \in d
  BY <1>1 DEF InPairs
<1>4. \A p \in Place : p = u[1] \/ p = v[1]
  <2>1. ASSUME NEW p \in Place PROVE p = u[1] \/ p = v[1]
    <3>1. PICK s \in {0, 1} : <<p, s>> \in d
      BY <1>3
    <3>2. u = <<p, s>> \/ v = <<p, s>>
      BY <3>1
    <3> QED BY <3>2
  <2> QED BY <2>1
<1> QED BY <1>2, <1>4

LEMMA OfPoints ==
  ASSUME NEW x \in Bit, NEW S, S \subseteq Spare
  PROVE  Pointed(Of(x) \cup S) = x /\ InPairs(Of(x) \cup S) /\ Of(x) \cup S # {}
<1>1. \A p \in Place, s \in {0, 1} : <<p, s>> \in Of(x) \cup S <=> x[p] = s
  BY OwnApart DEF Of
<1>2. x = [p \in Place |-> x[p]] /\ \A p \in Place : x[p] \in {0, 1}
  BY DEF Bit
<1>3. \A p \in Place : (IF <<p, 1>> \in Of(x) \cup S THEN 1 ELSE 0) = x[p]
  BY <1>1, <1>2
<1>4. Pointed(Of(x) \cup S) = [p \in Place |-> x[p]]
  BY <1>3 DEF Pointed
<1>5. InPairs(Of(x) \cup S)
  <2>1. ASSUME NEW p \in Place
        PROVE  <<p, 0>> \in Of(x) \cup S <=> <<p, 1>> \notin Of(x) \cup S
    <3>1. x[p] = 0 \/ x[p] = 1
      BY <1>2
    <3>2. <<p, 0>> \in Of(x) \cup S <=> x[p] = 0
      BY <1>1
    <3>3. <<p, 1>> \in Of(x) \cup S <=> x[p] = 1
      BY <1>1
    <3> QED BY <3>1, <3>2, <3>3
  <2> QED BY <2>1 DEF InPairs
<1>6. Of(x) \cup S # {}
  BY <1>1, <1>2, Places
<1> QED BY <1>2, <1>4, <1>5, <1>6

\* The cases of at most two bits.
LEMMA OnlyCode ==
  ASSUME NEW A, NEW c \in Code, NEW u, NEW v, Off(c, A) \subseteq {u, v}
  PROVE  CorrectData(A, c).ones = A /\ (u = v => CorrectData(A, c).status # -1)
<1>1. PICK d : d = Wrong(PageEcc(A), c)
  OBVIOUS
<1>2. d = Off(c, A)
  <2>1. d = Differ({}, Off(c, A))
    BY <1>1, WrongIs, GapNone
  <2> QED BY <2>1 DEF Differ
<1>3. ~InPairs(d)
  BY <1>2, TwoNoPairs
<1>4. CorrectData(A, c).ones = A
  BY <1>1, <1>3, Kept
<1>5. ASSUME u = v PROVE CorrectData(A, c).status # -1
  <2>1. d \subseteq {u}
    BY <1>2, <1>5
  <2> QED BY <1>1, <1>3, <2>1, Passed
<1> QED BY <1>4, <1>5

LEMMA OneLost ==
  ASSUME NEW A \in SUBSET Bit, NEW x \in Bit, NEW c \in Code, Off(c, A) \subseteq Spare
  PROVE  /\ CorrectData(Differ(A, {x}), c).ones = A
         /\ CorrectData(Differ(A, {x}), c).status # -1
<1>1. PICK B, d : B = Differ(A, {x}) /\ d = Wrong(PageEcc(B), c)
  OBVIOUS
<1>2. d = Of(x) \cup Off(c, A)
  <2>1. d = Differ(Of(x), Off(c, A))
    BY <1>1, WrongIs, GapOne
  <2>2. Of(x) \cap Off(c, A) = {}
    BY OwnApart DEF Of
  <2> QED BY <2>1, <2>2 DEF Differ
<1>3. Pointed(d) = x /\ InPairs(d) /\ d # {}
  BY <1>2, OfPoints
<1>4. CorrectData(B, c) = [status |-> 1, ones |-> Differ(B, {x})]
  BY <1>1, <1>3, Verdict
<1>5. Differ(B, {x}) = A
  BY <1>1 DEF Differ
<1> QED BY <1>1, <1>4, <1>5

LEMMA LostAndBad ==
  ASSUME NEW A \in SUBSET Bit, NEW x \in Bit, NEW c \in Code, NEW w \in Place \X {0, 1},
         Off(c, A) = {w}
  PROVE  CorrectData(Differ(A, {x}), c).status = -1
<1>1. PICK B, d : B = Differ(A, {x}) /\ d = Wrong(PageEcc(B), c)
  OBVIOUS
<1>2. d = Differ(Of(x), {w})
  BY <1>1, WrongIs, GapOne
<1>3. PICK p \in Place, s \in {0, 1} : w = <<p, s>>
  OBVIOUS
<1>4. \A q \in Place, t \in {0, 1} : <<q, t>> \in Of(x) <=> x[q] = t
  BY DEF Of
<1>5. \A q \in Place : x[q] = 0 \/ x[q] = 1
  BY DEF Bit
<1>6. ~InPairs(d)
  <2>1. <<p, s>> \in d <=> x[p] # s
    <3>1. <<p, s>> \in {w} /\ (<<p, s>> \in Of(x) <=> x[p] = s)
      BY <1>3, <1>4
    <3> QED BY <1>2, <3>1, DifferIs
  <2>2. \A t \in {0, 1} : t # s => (<<p, t>> \in d <=> x[p] = t)
    BY <1>2, <1>3, <1>4, DifferIs
  <2>3. CASE s = 0
    <3>1. <<p, 0>> \in d <=> x[p] # 0
      BY <2>1, <2>3
    <3>2. <<p, 1>> \in d <=> x[p] = 1
      BY <2>2, <2>3
    <3> QED BY <1>5, <3>1, <3>2 DEF InPairs
  <2>4. CASE s = 1
    <3>1. <<p, 1>> \in d <=> x[p] # 1
      BY <2>1, <2>4
    <3>2. <<p, 0>> \in d <=> x[p] = 0
      BY <2>2, <2>4
    <3> QED BY <1>5, <3>1, <3>2 DEF InPairs
  <2> QED BY <2>3, <2>4
<1>7. \A q \in Place : q # p => <<q, x[q]>> \in d
  <2>1. ASSUME NEW q \in Place, q # p PROVE <<q, x[q]>> \in d
    <3>1. <<q, x[q]>> \in Of(x) /\ <<q, x[q]>> # w
      BY <1>3, <1>4, <1>5, <2>1
    <3> QED BY <1>2, <3>1, DifferIs
  <2> QED BY <2>1
<1>8. PICK q \in Place, r \in Place : q # p /\ r # p /\ q # r
  <2>1. 0 \in Place /\ 1 \in Place /\ LineBits \in Place /\ LineBits # 0 /\ LineBits # 1
    BY Places
  <2>2. CASE p = 0
    BY <2>1, <2>2
  <2>3. CASE p = 1
    BY <2>1, <2>3
  <2>4. CASE p # 0 /\ p # 1
    BY <2>1, <2>4
  <2> QED BY <2>2, <2>3, <2>4
<1>9. <<q, x[q]>> \in d /\ <<r, x[r]>> \in d /\ <<q, x[q]>> # <<r, x[r]>>
  BY <1>7, <1>8
<1>10. CorrectData(B, c).status = -1
  BY <1>1, <1>6, <1>9, Reported
<1> QED BY <1>1, <1>10

LEMMA TwoLost ==
  ASSUME NEW A \in SUBSET Bit, NEW x \in Bit, NEW y \in Bit, x # y, NEW c \in Code, Off(c, A) = {}
  PROVE  CorrectData(Differ(Differ(A, {x}), {y}), c).status = -1
<1>1. PICK B, d : B = Differ(Differ(A, {x}), {y}) /\ d = Wrong(PageEcc(B), c)
  OBVIOUS
<1>2. d = Differ(Of(x), Of(y))
  <2>1. d = Differ(Differ(Of(x), Of(y)), {})
    BY <1>1, WrongIs, GapTwo
  <2> QED BY <2>1 DEF Differ
<1>3. PICK p \in Place : x[p] # y[p]
  <2>1. x = [p \in Place |-> x[p]] /\ y = [p \in Place |-> y[p]]
    BY DEF Bit
  <2> QED BY <2>1
<1>4. \A s \in {0, 1} : <<p, s>> \in d
  <2>1. \A s \in {0, 1} : /\ <<p, s>> \in Of(x) <=> x[p] = s
                          /\ <<p, s>> \in Of(y) <=> y[p] = s
    BY DEF Of
  <2>2. x[p] \in {0, 1} /\ y[p] \in {0, 1}
    BY DEF Bit
  <2>3. \A s \in {0, 1} : ~(x[p] = s <=> y[p] = s)
    BY <1>3, <2>2
  <2> QED BY <1>2, <2>1, <2>3, DifferIs
<1>5. <<p, 0>> \in d /\ <<p, 1>> \in d
  BY <1>4
<1>6. ~InPairs(d)
  BY <1>5 DEF InPairs
<1>7. <<p, 0>> # <<p, 1>>
  OBVIOUS
<1>8. CorrectData(B, c).status = -1
  BY <1>1, <1>5, <1>6, <1>7, Reported
<1> QED BY <1>1, <1>8

\* Of a piece with its code, no more than one bit wrong is put right, and no
\* more than two are put right or reported.
LEMMA PieceRead ==
  ASSUME NEW A \in SUBSET Bit, NEW B \in SUBSET Bit, NEW c \in Code
  PROVE  /\ \A u, v : B = A /\ Off(c, A) \subseteq {u, v} => CorrectData(B, c).ones = A
         /\ \A u, v : Off(c, A) = {} /\ Differ(B, A) \subseteq {u, v} =>
              CorrectData(B, c).status = -1 \/ CorrectData(B, c).ones = A
         /\ \A u, v : Differ(B, A) \subseteq {u} /\ Off(c, A) \subseteq {v} =>
              CorrectData(B, c).status = -1 \/ CorrectData(B, c).ones = A
         /\ \A u : B = A /\ Off(c, A) \subseteq {u} => CorrectData(B, c).status # -1
         /\ \A u : Off(c, A) = {} /\ Differ(B, A) \subseteq {u} => CorrectData(B, c).status # -1
<1>1. /\ \A u, v : B = A /\ Off(c, A) \subseteq {u, v} => CorrectData(B, c).ones = A
      /\ \A u : B = A /\ Off(c, A) \subseteq {u} => CorrectData(B, c).status # -1
  <2>1. \A u, v : B = A /\ Off(c, A) \subseteq {u, v} =>
          CorrectData(B, c).ones = A /\ (u = v => CorrectData(B, c).status # -1)
    BY OnlyCode
  <2>2. \A u : {u} = {u, u}
    OBVIOUS
  <2> QED BY <2>1, <2>2
<1>2. ASSUME NEW x, Differ(B, A) = {x}
      PROVE  x \in Bit /\ B = Differ(A, {x})
  BY <1>2 DEF Differ
<1>3. ASSUME NEW x, NEW y, Differ(B, A) = {x, y}, x # y
      PROVE  x \in Bit /\ y \in Bit /\ B = Differ(Differ(A, {x}), {y})
  <2>1. \A z : z \in B <=> z \in Differ(Differ(A, {x}), {y})
    BY <1>3 DEF Differ
  <2> QED BY <1>3, <2>1 DEF Differ
<1>4. Differ(B, A) = {} => B = A
  BY DEF Differ
<1>5. Off(c, A) = {} => Off(c, A) \subseteq Spare /\ \E u : Off(c, A) \subseteq {u}
  OBVIOUS
<1>6. ASSUME NEW u, Off(c, A) = {}, Differ(B, A) \subseteq {u}
      PROVE  CorrectData(B, c).status # -1 /\ CorrectData(B, c).ones = A
  <2>1. CASE Differ(B, A) = {}
    BY <1>1, <1>4, <1>6, <2>1
  <2>2. CASE Differ(B, A) = {u}
    <3>1. u \in Bit /\ B = Differ(A, {u})
      BY <1>2, <2>2
    <3> QED BY <1>5, <1>6, <3>1, OneLost
  <2> QED BY <1>6, <2>1, <2>2
<1>7. ASSUME NEW u, NEW v, Off(c, A) = {}, Differ(B, A) \subseteq {u, v}
      PROVE  CorrectData(B, c).status = -1 \/ CorrectData(B, c).ones = A
  <2>1. CASE \E w : Differ(B, A) \subseteq {w}
    BY <1>6, <1>7, <2>1
  <2>2. CASE ~\E w : Differ(B, A) \subseteq {w}
    <3>1. u # v /\ Differ(B, A) = {u, v}
      BY <1>7, <2>2
    <3>2. u \in Bit /\ v \in Bit /\ B = Differ(Differ(A, {u}), {v})
      BY <1>3, <3>1
    <3>3. u \in Bit /\ v \in Bit /\ u # v /\ Off(c, A) = {}
      BY <1>7, <3>1, <3>2
    <3>4. CorrectData(Differ(Differ(A, {u}), {v}), c).status = -1
      BY <3>3, TwoLost
    <3> QED BY <3>2, <3>4
  <2> QED BY <2>1, <2>2
<1>8. ASSUME NEW u, NEW v, Differ(B, A) \subseteq {u}, Off(c, A) \subseteq {v}
      PROVE  CorrectData(B, c).status = -1 \/ CorrectData(B, c).ones = A
  <2>1. CASE Differ(B, A) = {}
    <3>1. {v} = {v, v}
      OBVIOUS
    <3> QED BY <1>1, <1>4, <1>8, <2>1, <3>1
  <2>2. CASE Off(c, A) = {}
    BY <1>6, <1>8, <2>2
  <2>3. CASE Differ(B, A) = {u} /\ Off(c, A) = {v}
    <3>1. v \in Place \X {0, 1} \/ v \in Spare
      <4>1. v \in Label
        <5>1. PICK i \in 1 .. 3 : v \in Differ(c[i], PageEcc(A)[i])
          BY <2>3 DEF Off
        <5>2. v \in Own(i)
          BY <5>1, CodeOwn DEF Differ, Code
        <5> QED BY <5>2, OwnApart
      <4> QED BY <4>1 DEF Label
    <3>2. u \in Bit /\ B = Differ(A, {u})
      BY <1>2, <2>3
    <3>3. CASE v \in Spare
      <4>1. Off(c, A) \subseteq Spare
        BY <2>3, <3>3
      <4> QED BY <3>2, <4>1, OneLost
    <3>4. CASE v \in Place \X {0, 1}
      BY <2>3, <3>2, <3>4, LostAndBad
    <3> QED BY <3>1, <3>3, <3>4
  <2> QED BY <1>8, <2>1, <2>2, <2>3
<1> QED BY <1>1, <1>6, <1>7, <1>8

-----------------------------------------------------------------------------
(* The layout of the spare area                                             *)

\* Byte i of the code of piece k.
At(k, i) == 3 * (k - 1) + i

LEMMA Layout ==
  ASSUME NEW k \in 1 .. Steps, NEW i \in 1 .. 3
  PROVE  /\ At(k, i) \in DOMAIN OobSel /\ PieceOf(At(k, i)) = k /\ ByteOf(At(k, i)) = i
         /\ OobSel[At(k, 1)] + i - 1 = OobSel[At(k, i)]
<1>1. Steps \in Nat \ {0} /\ OobSel \in [1 .. 3 * Steps -> Nat]
  BY EccAssumption
<1>2. At(k, i) \in 1 .. 3 * Steps /\ DOMAIN OobSel = 1 .. 3 * Steps
  BY <1>1 DEF At
<1>3. PieceOf(At(k, i)) = k /\ ByteOf(At(k, i)) = i
  <2>1. At(k, i) - 1 = 3 * (k - 1) + (i - 1) /\ k - 1 \in Nat /\ i - 1 \in 0 .. 2
    BY DEF At
  <2>2. \A q \in Nat, r \in 0 .. 2 : (3 * q + r) \div 3 = q /\ (3 * q + r) % 3 = r
    OBVIOUS
  <2>3. (At(k, i) - 1) \div 3 = k - 1 /\ (At(k, i) - 1) % 3 = i - 1
    BY <2>1, <2>2
  <2> QED BY <2>3 DEF PieceOf, ByteOf
<1>4. \A j \in 1 .. 3 * Steps : j % 3 # 0 => OobSel[j + 1] = OobSel[j] + 1
  BY EccAssumption
<1>5. /\ At(k, 1) \in 1 .. 3 * Steps /\ At(k, 2) \in 1 .. 3 * Steps
      /\ At(k, 1) % 3 # 0 /\ At(k, 2) % 3 # 0
      /\ At(k, 1) + 1 = At(k, 2) /\ At(k, 2) + 1 = At(k, 3)
  BY <1>1 DEF At
<1>6. OobSel[At(k, 2)] = OobSel[At(k, 1)] + 1 /\ OobSel[At(k, 3)] = OobSel[At(k, 2)] + 1
  BY <1>4, <1>5
<1>7. OobSel[At(k, 1)] \in Nat
  BY <1>1, <1>5
<1>8. i = 1 \/ i = 2 \/ i = 3
  OBVIOUS
<1>9. OobSel[At(k, 1)] + i - 1 = OobSel[At(k, i)]
  BY <1>6, <1>7, <1>8
<1> QED BY <1>2, <1>3, <1>9

LEMMA ByteFits ==
  ASSUME NEW e \in DOMAIN OobSel
  PROVE  PieceOf(e) \in 1 .. Steps /\ ByteOf(e) \in 1 .. 3 /\ OobSel[e] \in Oob
<1>1. Steps \in Nat \ {0} /\ OobSel \in [1 .. 3 * Steps -> Nat]
  BY EccAssumption
<1>2. e \in Int /\ 1 <= e /\ e <= 3 * Steps
  BY <1>1
<1> QED BY <1>1, <1>2 DEF PieceOf, ByteOf, Oob

\* Where a byte of code is, no other is.
LEMMA OobApart ==
  ASSUME NEW e \in DOMAIN OobSel, NEW f \in DOMAIN OobSel, OobSel[e] = OobSel[f]
  PROVE  e = f
BY EccAssumption

-----------------------------------------------------------------------------
(* The steps                                                                *)

LEMMA EccInitHolds == EccInit => EccInv
<1>1. ASSUME EccInit PROVE EccInv
  <2>1. written \in [1 .. Steps -> SUBSET Bit]
    BY <1>1, EccAssumption DEF EccInit
  <2>2. page \in [1 .. Steps -> SUBSET Bit] /\ oob \in [Oob -> SUBSET Label]
    BY <1>1 DEF EccInit
  <2>3. flips = -1 /\ result = Unread
    BY <1>1 DEF EccInit
  <2> QED BY <2>1, <2>2, <2>3 DEF EccInv, EccTypeOK, PageRestored
<1> QED BY <1>1

LEMMA PageWriteStep ==
  ASSUME EccInv, PageWrite
  PROVE  EccInv'
<1>1. /\ flips = -1 /\ flips' = 0 /\ page' = written /\ written' = written /\ result' = result
      /\ written \in [1 .. Steps -> SUBSET Bit] /\ result = Unread
  BY DEF EccInv, EccTypeOK, PageWrite
<1>2. /\ oob' = [o \in Oob |-> StoredCode(CHOOSE j \in DOMAIN OobSel : OobSel[j] = o)]
  BY DEF PageWrite, StoredCode
<1>3. \A e \in DOMAIN OobSel : oob'[OobSel[e]] = StoredCode(e)
  <2>1. ASSUME NEW e \in DOMAIN OobSel PROVE oob'[OobSel[e]] = StoredCode(e)
    <3>1. PICK f : f = CHOOSE j \in DOMAIN OobSel : OobSel[j] = OobSel[e]
      OBVIOUS
    <3>2. f \in DOMAIN OobSel /\ OobSel[f] = OobSel[e]
      BY <3>1
    <3>3. f = e
      BY <3>2, OobApart
    <3> QED BY <1>2, <3>1, <3>3, ByteFits
  <2> QED BY <2>1
<1>4. \A e \in DOMAIN OobSel : StoredCode(e) \subseteq Own(ByteOf(e)) /\ StoredCode(e) \subseteq Label
  BY CodeOwn, ByteFits, OwnApart DEF StoredCode
<1>5. oob' \in [Oob -> SUBSET Label]
  <2>1. ASSUME NEW o \in Oob
        PROVE  StoredCode(CHOOSE j \in DOMAIN OobSel : OobSel[j] = o) \in SUBSET Label
    <3>1. PICK f : f = CHOOSE j \in DOMAIN OobSel : OobSel[j] = o
      OBVIOUS
    <3>2. f \in DOMAIN OobSel
      BY <3>1 DEF Oob
    <3> QED BY <1>4, <3>1, <3>2
  <2> QED BY <1>2, <2>1
<1>6. EccTypeOK'
  BY <1>1, <1>5 DEF EccTypeOK
<1>7. \A e \in DOMAIN OobSel : oob'[OobSel[e]] \subseteq Own(ByteOf(e))
  BY <1>3, <1>4
<1>8. Lost' = {}
  BY <1>1 DEF Lost, Differ
<1>9. Bad' = {}
  <2>1. \A e : StoredCode(e)' = StoredCode(e)
    BY <1>1 DEF StoredCode
  <2> QED BY <1>3, <2>1 DEF Bad, Differ
<1>10. Few(flips', Lost', Bad')
  BY <1>1, <1>8, <1>9 DEF Few
<1>11. PageRestored'
  BY <1>1 DEF PageRestored
<1> QED BY <1>1, <1>6, <1>7, <1>10, <1>11 DEF EccInv

\* One bit more.
LEMMA FewMore ==
  ASSUME NEW n \in Nat, NEW L, NEW B, NEW M, NEW C, Few(n, L, B), NEW w,
         \/ M \subseteq L \cup {w} /\ C \subseteq B
         \/ M \subseteq L /\ C \subseteq B \cup {w}
  PROVE  Few(n + 1, M, C)
<1>1. CASE n = 0
  BY <1>1 DEF Few
<1>2. CASE n = 1
  <2>1. CASE B = {} /\ \E u : L \subseteq {u}
    <3>1. PICK u : L \subseteq {u}
      BY <2>1
    <3>2. (M \subseteq {u, w} /\ C = {}) \/ (M \subseteq {u} /\ C \subseteq {w})
      BY <2>1, <3>1
    <3> QED BY <1>2, <3>2 DEF Few
  <2>2. CASE L = {} /\ \E u : B \subseteq {u}
    <3>1. PICK u : B \subseteq {u}
      BY <2>2
    <3>2. (C \subseteq {u, w} /\ M = {}) \/ (C \subseteq {u} /\ M \subseteq {w})
      BY <2>2, <3>1
    <3> QED BY <1>2, <3>2 DEF Few
  <2> QED BY <1>2, <2>1, <2>2 DEF Few
<1>3. CASE n > 1
  <2>1. n + 1 # 0 /\ n + 1 # 1 /\ n + 1 # 2
    BY <1>3
  <2> QED BY <2>1 DEF Few
<1> QED BY <1>1, <1>2, <1>3

LEMMA FlipStep ==
  ASSUME EccInv, Flip
  PROVE  EccInv'
<1>1. /\ EccTypeOK /\ flips >= 0 /\ flips \in Nat /\ flips' = flips + 1 /\ result = Unread
      /\ written' = written /\ result' = result
      /\ \A e \in DOMAIN OobSel : oob[OobSel[e]] \subseteq Own(ByteOf(e))
      /\ Few(flips, Lost, Bad)
  <2>1. MaxFlips \in Nat
    BY EccAssumption
  <2>2. flips \in 0 .. MaxFlips - 1
    BY DEF Flip
  <2> QED BY <2>1, <2>2 DEF EccInv, EccTypeOK, Flip
<1>2. PageRestored'
  BY <1>1 DEF PageRestored
<1>3. ASSUME NEW k \in 1 .. Steps, NEW x \in Bit, page' = [page EXCEPT ![k] = Differ(@, {x})],
             oob' = oob
      PROVE  EccInv'
  <2>1. page \in [1 .. Steps -> SUBSET Bit] /\ Differ(page[k], {x}) \in SUBSET Bit
    BY <1>1 DEF EccTypeOK, Differ
  <2>2. EccTypeOK'
    <3>1. page' \in [1 .. Steps -> SUBSET Bit]
      BY <1>3, <2>1
    <3>2. written' = written /\ oob' = oob /\ flips' \in Nat
      BY <1>1, <1>3
    <3> QED BY <1>1, <3>1, <3>2 DEF EccTypeOK
  <2>3. Lost' \subseteq Lost \cup {<<k, x>>}
    <3>1. ASSUME NEW m \in Lost', m \notin Lost PROVE m = <<k, x>>
      <4>1. PICK j \in 1 .. Steps, y \in Bit : m = <<j, y>> /\ y \in Differ(page'[j], written[j])
        BY <1>1, <3>1 DEF Lost
      <4>2. y \notin Differ(page[j], written[j])
        BY <3>1, <4>1 DEF Lost
      <4>3. j = k /\ y \in Differ(Differ(page[k], {x}), written[k])
        BY <1>3, <2>1, <4>1, <4>2
      <4>4. y = x
        BY <4>2, <4>3 DEF Differ
      <4> QED BY <4>1, <4>3, <4>4
    <3> QED BY <3>1
  <2>4. Bad' \subseteq Bad
    BY <1>1, <1>3 DEF Bad, StoredCode
  <2>5. Few(flips', Lost', Bad')
    BY <1>1, <2>3, <2>4, FewMore
  <2>6. \A e \in DOMAIN OobSel : oob'[OobSel[e]] \subseteq Own(ByteOf(e))
    BY <1>1, <1>3
  <2> QED BY <1>1, <1>2, <2>2, <2>5, <2>6 DEF EccInv
<1>4. ASSUME NEW e \in DOMAIN OobSel, NEW b \in Own(ByteOf(e)),
             oob' = [oob EXCEPT ![OobSel[e]] = Differ(@, {b})], page' = page
      PROVE  EccInv'
  <2>1. /\ oob \in [Oob -> SUBSET Label] /\ OobSel[e] \in Oob /\ b \in Label
        /\ Differ(oob[OobSel[e]], {b}) \in SUBSET Label
    <3>1. OobSel[e] \in Oob /\ b \in Label
      BY <1>4, ByteFits, OwnApart
    <3> QED BY <1>1, <3>1 DEF EccTypeOK, Differ
  <2>2. EccTypeOK'
    <3>1. PICK o, v : o = OobSel[e] /\ v = Differ(oob[OobSel[e]], {b})
      OBVIOUS
    <3>2. oob' = [oob EXCEPT ![o] = v] /\ v \in SUBSET Label
      BY <1>4, <2>1, <3>1
    <3>3. oob' \in [Oob -> SUBSET Label]
      BY <2>1, <3>2
    <3>4. written' = written /\ page' = page /\ flips' \in Nat
      BY <1>1, <1>4
    <3> QED BY <1>1, <3>3, <3>4 DEF EccTypeOK
  <2>3. \A f \in DOMAIN OobSel : f # e => oob'[OobSel[f]] = oob[OobSel[f]]
    BY <1>4, <2>1, ByteFits, OobApart
  <2>4. oob'[OobSel[e]] = Differ(oob[OobSel[e]], {b})
    BY <1>4, <2>1
  <2>5. \A f : StoredCode(f)' = StoredCode(f)
    BY <1>1 DEF StoredCode
  <2>6. Bad' \subseteq Bad \cup {<<e, b>>}
    <3>1. ASSUME NEW m \in Bad', m \notin Bad PROVE m = <<e, b>>
      <4>1. PICK f \in DOMAIN OobSel, y \in Label :
              m = <<f, y>> /\ y \in Differ(oob'[OobSel[f]], StoredCode(f))
        BY <2>5, <3>1 DEF Bad
      <4>2. y \notin Differ(oob[OobSel[f]], StoredCode(f))
        BY <3>1, <4>1 DEF Bad
      <4>3. f = e /\ y \in Differ(Differ(oob[OobSel[e]], {b}), StoredCode(e))
        BY <2>3, <2>4, <4>1, <4>2
      <4>4. y = b
        BY <4>2, <4>3 DEF Differ
      <4> QED BY <4>1, <4>3, <4>4
    <3> QED BY <3>1
  <2>7. Lost' \subseteq Lost
    BY <1>1, <1>4 DEF Lost
  <2>8. Few(flips', Lost', Bad')
    BY <1>1, <2>6, <2>7, FewMore
  <2>9. \A f \in DOMAIN OobSel : oob'[OobSel[f]] \subseteq Own(ByteOf(f))
    <3>1. ASSUME NEW f \in DOMAIN OobSel PROVE oob'[OobSel[f]] \subseteq Own(ByteOf(f))
      <4>1. CASE f = e
        BY <1>1, <1>4, <2>4, <4>1 DEF Differ
      <4>2. CASE f # e
        BY <1>1, <2>3, <4>2
      <4> QED BY <4>1, <4>2
    <3> QED BY <3>1
  <2> QED BY <1>1, <1>2, <2>2, <2>8, <2>9 DEF EccInv
<1>5. \/ \E k \in 1 .. Steps, x \in Bit :
           page' = [page EXCEPT ![k] = Differ(@, {x})] /\ oob' = oob
      \/ \E e \in DOMAIN OobSel : \E b \in Own(ByteOf(e)) :
           oob' = [oob EXCEPT ![OobSel[e]] = Differ(@, {b})] /\ page' = page
  BY DEF Flip, Own
<1> QED BY <1>3, <1>4, <1>5

\* What a piece is checked against is what its three bytes of code hold.
LEMMA CodeRead ==
  ASSUME NEW k \in 1 .. Steps, EccTypeOK, NEW c, written \in [1 .. Steps -> SUBSET Bit],
         \A e \in DOMAIN OobSel : oob[OobSel[e]] \subseteq Own(ByteOf(e)),
         c = [i \in 1 .. 3 |-> oob[OobSel[3 * (k - 1) + 1] + i - 1]]
  PROVE  /\ c \in Code
         /\ \A b \in Off(c, written[k]) : \E e : <<e, b>> \in Bad
<1>1. \A i \in 1 .. 3 : /\ At(k, i) \in DOMAIN OobSel /\ PieceOf(At(k, i)) = k
                        /\ ByteOf(At(k, i)) = i
                        /\ OobSel[At(k, 1)] + i - 1 = OobSel[At(k, i)]
  BY Layout
<1>2. \A i \in 1 .. 3 : c[i] = oob[OobSel[At(k, i)]]
  <2>1. At(k, 1) = 3 * (k - 1) + 1
    BY DEF At
  <2> QED BY <1>1, <2>1
<1>3. \A i \in 1 .. 3 : c[i] \subseteq Own(i) /\ c[i] \subseteq Label
  BY <1>1, <1>2, OwnApart
<1>4. c \in Code
  BY <1>3 DEF Code
<1>5. ASSUME NEW b \in Off(c, written[k]) PROVE \E e : <<e, b>> \in Bad
  <2>1. PICK i \in 1 .. 3 : b \in Differ(c[i], PageEcc(written[k])[i])
    BY DEF Off
  <2>2. b \in Label
    BY <1>3, <2>1, CodeOwn, OwnApart DEF Differ
  <2>3. StoredCode(At(k, i)) = PageEcc(written[k])[i]
    BY <1>1 DEF StoredCode
  <2>4. b \in Differ(oob[OobSel[At(k, i)]], StoredCode(At(k, i)))
    BY <1>2, <2>1, <2>3
  <2> QED BY <1>1, <2>2, <2>4 DEF Bad
<1> QED BY <1>4, <1>5

LEMMA PageReadStep ==
  ASSUME EccInv, PageRead
  PROVE  EccInv'
<1>1. /\ EccTypeOK /\ flips >= 0 /\ flips \in Nat /\ result = Unread
      /\ written' = written /\ page' = page /\ oob' = oob /\ flips' = flips
      /\ written \in [1 .. Steps -> SUBSET Bit] /\ page \in [1 .. Steps -> SUBSET Bit]
      /\ \A e \in DOMAIN OobSel : oob[OobSel[e]] \subseteq Own(ByteOf(e))
      /\ Few(flips, Lost, Bad)
  BY DEF EccInv, EccTypeOK, PageRead
<1>2. PICK R : /\ R = [k \in 1 .. Steps |->
                         CorrectData(page[k], [i \in 1 .. 3 |-> oob[OobSel[3 * (k - 1) + 1] + i - 1]])]
               /\ result' = IF \E k \in 1 .. Steps : R[k].status = -1
                            THEN [status |-> "fail", page |-> <<>>]
                            ELSE [status |-> "ok", page |-> [k \in 1 .. Steps |-> R[k].ones]]
  <2>1. PICK R : R = [k \in 1 .. Steps |->
                        CorrectData(page[k], [i \in 1 .. 3 |-> oob[OobSel[3 * (k - 1) + 1] + i - 1]])]
    OBVIOUS
  <2>2. \A k \in 1 .. Steps :
          R[k] = CorrectData(page[k], [i \in 1 .. 3 |-> oob[OobSel[3 * (k - 1) + 1] + i - 1]])
    BY <2>1
  <2> QED BY <2>1, <2>2 DEF PageRead
<1>3. ASSUME NEW k \in 1 .. Steps
      PROVE  /\ flips <= 2 => R[k].status = -1 \/ R[k].ones = written[k]
             /\ flips <= 1 => R[k].status # -1
  <2>1. PICK A, B, c : /\ A = written[k] /\ B = page[k]
                       /\ c = [i \in 1 .. 3 |-> oob[OobSel[3 * (k - 1) + 1] + i - 1]]
    OBVIOUS
  <2>2. c \in Code /\ \A b \in Off(c, A) : \E e : <<e, b>> \in Bad
    BY <1>1, <2>1, CodeRead
  <2>3. A \in SUBSET Bit /\ B \in SUBSET Bit /\ R[k] = CorrectData(B, c)
    BY <1>1, <1>2, <2>1
  <2>4. \A x \in Differ(B, A) : <<k, x>> \in Lost
    <3>1. ASSUME NEW x \in Differ(B, A) PROVE <<k, x>> \in Lost
      <4>1. x \in Bit
        BY <2>3 DEF Differ
      <4> QED BY <2>1, <4>1 DEF Lost
    <3> QED BY <3>1
  <2>5. Lost = {} => B = A
    <3>1. Lost = {} => Differ(B, A) = {}
      BY <2>4
    <3> QED BY <3>1 DEF Differ
  <2>6. Bad = {} => Off(c, A) = {}
    BY <2>2
  <2>7. \A u, v : Lost \subseteq {u, v} => Differ(B, A) \subseteq {u[2], v[2]}
    <3>1. ASSUME NEW u, NEW v, Lost \subseteq {u, v}, NEW x \in Differ(B, A)
          PROVE  x = u[2] \/ x = v[2]
      <4>1. <<k, x>> = u \/ <<k, x>> = v
        BY <2>4, <3>1
      <4> QED BY <4>1
    <3> QED BY <3>1
  <2>8. \A u, v : Bad \subseteq {u, v} => Off(c, A) \subseteq {u[2], v[2]}
    <3>1. ASSUME NEW u, NEW v, Bad \subseteq {u, v}, NEW b \in Off(c, A)
          PROVE  b = u[2] \/ b = v[2]
      <4>1. PICK e : <<e, b>> \in Bad
        BY <2>2
      <4>2. <<e, b>> = u \/ <<e, b>> = v
        BY <3>1, <4>1
      <4> QED BY <4>2
    <3> QED BY <3>1
  <2>9. /\ \A u : Lost \subseteq {u} => Differ(B, A) \subseteq {u[2]}
        /\ \A u : Bad \subseteq {u} => Off(c, A) \subseteq {u[2]}
    <3>1. \A S, u : S \subseteq {u} <=> S \subseteq {u, u}
      OBVIOUS
    <3> QED BY <2>7, <2>8, <3>1
  <2>10. ASSUME flips <= 1
         PROVE  /\ R[k].status = -1 \/ R[k].ones = A
                /\ R[k].status # -1
    <3>1. \/ Bad = {} /\ \E u : Lost \subseteq {u}
          \/ Lost = {} /\ \E u : Bad \subseteq {u}
      <4>1. flips = 0 \/ flips = 1
        BY <1>1, <2>10
      <4> QED BY <1>1, <4>1 DEF Few
    <3>2. CASE Bad = {} /\ \E u : Lost \subseteq {u}
      <4>1. PICK u : Lost \subseteq {u}
        BY <3>2
      <4>2. PICK w : w = u[2]
        OBVIOUS
      <4>3. Off(c, A) = {} /\ Differ(B, A) \subseteq {w} /\ Off(c, A) \subseteq {w}
        BY <2>6, <2>9, <3>2, <4>1, <4>2
      <4>4. CorrectData(B, c).status = -1 \/ CorrectData(B, c).ones = A
        BY <2>2, <2>3, <4>3, PieceRead
      <4>5. CorrectData(B, c).status # -1
        BY <2>2, <2>3, <4>3, PieceRead
      <4> QED BY <2>3, <4>4, <4>5
    <3>3. CASE Lost = {} /\ \E u : Bad \subseteq {u}
      <4>1. PICK u : Bad \subseteq {u}
        BY <3>3
      <4>2. PICK w : w = u[2]
        OBVIOUS
      <4>3. B = A /\ Off(c, A) \subseteq {w} /\ Off(c, A) \subseteq {w, w}
        BY <2>5, <2>9, <3>3, <4>1, <4>2
      <4> QED BY <2>2, <2>3, <4>3, PieceRead
    <3> QED BY <3>1, <3>2, <3>3
  <2>11. ASSUME flips = 2
         PROVE  R[k].status = -1 \/ R[k].ones = A
    <3>1. \/ Bad = {} /\ \E u, v : Lost \subseteq {u, v}
          \/ Lost = {} /\ \E u, v : Bad \subseteq {u, v}
          \/ \E u, v : Lost \subseteq {u} /\ Bad \subseteq {v}
      BY <1>1, <2>11 DEF Few
    <3>2. CASE Bad = {} /\ \E u, v : Lost \subseteq {u, v}
      <4>1. PICK u, v : Lost \subseteq {u, v}
        BY <3>2
      <4>2. PICK w, z : w = u[2] /\ z = v[2]
        OBVIOUS
      <4>3. Off(c, A) = {} /\ Differ(B, A) \subseteq {w, z}
        BY <2>6, <2>7, <3>2, <4>1, <4>2
      <4> QED BY <2>2, <2>3, <4>3, PieceRead
    <3>3. CASE Lost = {} /\ \E u, v : Bad \subseteq {u, v}
      <4>1. PICK u, v : Bad \subseteq {u, v}
        BY <3>3
      <4>2. PICK w, z : w = u[2] /\ z = v[2]
        OBVIOUS
      <4>3. B = A /\ Off(c, A) \subseteq {w, z}
        BY <2>5, <2>8, <3>3, <4>1, <4>2
      <4> QED BY <2>2, <2>3, <4>3, PieceRead
    <3>4. CASE \E u, v : Lost \subseteq {u} /\ Bad \subseteq {v}
      <4>1. PICK u, v : Lost \subseteq {u} /\ Bad \subseteq {v}
        BY <3>4
      <4>2. PICK w, z : w = u[2] /\ z = v[2]
        OBVIOUS
      <4>3. Differ(B, A) \subseteq {w} /\ Off(c, A) \subseteq {z}
        BY <2>9, <4>1, <4>2
      <4> QED BY <2>2, <2>3, <4>3, PieceRead
    <3> QED BY <3>1, <3>2, <3>3, <3>4
  <2>12. flips <= 2 => flips <= 1 \/ flips = 2
    BY <1>1
  <2> QED BY <2>1, <2>10, <2>11, <2>12
<1>4. PageRestored'
  <2>1. SUFFICES ASSUME flips <= 2
                 PROVE  /\ result'.status = "ok" => result'.page = written
                        /\ flips <= 1 => result'.status = "ok"
    BY <1>1 DEF PageRestored
  <2>2. CASE \E k \in 1 .. Steps : R[k].status = -1
    <3>1. result' = [status |-> "fail", page |-> <<>>]
      BY <1>2, <2>2
    <3>2. ~(flips <= 1)
      BY <1>3, <2>2
    <3> QED BY <3>1, <3>2
  <2>3. CASE ~\E k \in 1 .. Steps : R[k].status = -1
    <3>1. result' = [status |-> "ok", page |-> [k \in 1 .. Steps |-> R[k].ones]]
      BY <1>2, <2>3
    <3>2. \A k \in 1 .. Steps : R[k].ones = written[k]
      BY <1>3, <2>1, <2>3
    <3>3. [k \in 1 .. Steps |-> R[k].ones] = written
      <4>1. written = [k \in 1 .. Steps |-> written[k]]
        BY <1>1
      <4> QED BY <3>2, <4>1
    <3> QED BY <3>1, <3>3
  <2> QED BY <2>2, <2>3
<1>5. EccTypeOK' /\ Lost' = Lost /\ Bad' = Bad
  BY <1>1 DEF EccTypeOK, Lost, Bad, StoredCode
<1> QED BY <1>1, <1>4, <1>5 DEF EccInv

LEMMA EccStep == EccInv /\ [EccNext]_eccVars => EccInv'
<1>1. ASSUME EccInv, UNCHANGED eccVars PROVE EccInv'
  BY <1>1 DEF EccInv, EccTypeOK, PageRestored, Lost, Bad, StoredCode, eccVars
<1> QED BY <1>1, PageWriteStep, FlipStep, PageReadStep DEF EccNext

\* pageread hands out a page as pagewrite was given it or not at all, while
\* no more than two bits have changed, and with one it does: for pieces and
\* bytes of any size, any number of pieces and any layout of the spare area
\* that keeps the code of a piece together.
THEOREM PageAlwaysRestored == EccSpec => []PageRestored
<1>1. EccInv => PageRestored
  BY DEF EccInv
<1> QED BY <1>1, EccInitHolds, EccStep, PTL DEF EccSpec

=============================================================================
