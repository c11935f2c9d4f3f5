------------------------------ MODULE FisProof ------------------------------
(***************************************************************************)
(* The flash image system: the directory can always be searched, RAM and     *)
(* flash agree, and an upgrade reported successful has programmed its file   *)
(* inside its area, for every size of directory and flash, every set of      *)
(* names and files, and any number of operations, failures and power cuts.   *)
(***************************************************************************)
EXTENDS Fis, FiniteSetTheorems, TLAPS

-----------------------------------------------------------------------------
(* The invariant                                                            *)

Entry_ ==
  [name : Names \cup {FREE, ZERO, "junk"}, base : Int, size : Int, len : Int, run : BOOLEAN, sum : BOOLEAN]

Job_ ==
  [by : {"none", "ui", "web", "create"}, dest : Nat, erase : Nat, max : Nat,
   slot : Nat, name : Names \cup {""}, size : Nat, file : Files, n : Nat, try : Nat,
   stat : {0, 1}, then : {"tail", "end"}]

Directory == [Slots -> Entry_]
Content == {"old", "blank", "broken", "body", "file"} \X Nat \X Int

FisTypeOK ==
  /\ env \in Setups /\ fis \in Directory /\ rom \in Directory
  /\ cells \in [Cells -> Content]
  /\ mac \in {"on", "off", "left"}
  /\ pc \in {"off", "menu", "download", "eraseArea", "programArea", "update",
             "tail", "erase", "write"}
  /\ job \in Job_ /\ outer \in Job_ /\ k \in Nat
  /\ synced \in BOOLEAN /\ loaded \in BOOLEAN /\ revived \in BOOLEAN

\* A download waits in the menu, or for a web upgrade to end.
Waiting(j) == j.by \in {"ui", "create"} /\ j.stat = 1 /\ j.erase = j.max

Nested ==
  /\ outer = NoJob \/ (Waiting(outer) /\ job.by = "web")
  /\ pc \in {"off", "menu", "download"} => outer = NoJob
  /\ pc = "download" => Waiting(job)

\* An entry that is valid, or that an upgrade of its area would make valid,
\* has no free one before it.
Reached(t) ==
  \A i \in Slots :
    /\ Valid(t[i]) \/ t[i].base >= 0 => \A j \in 1 .. i : t[j].name # FREE
    /\ Valid(t[i]) => t[i].base \in Nat /\ t[i].size \in Nat

Unique(t) ==
  \A i, j \in Slots : Valid(t[i]) /\ Valid(t[j]) /\ t[i].name = t[j].name => i = j

Directories ==
  /\ Reached(fis) /\ Reached(rom)
  /\ ~revived => Unique(fis) /\ Unique(rom)

\* Slot b is where fis_find_image finds BOOT, or another one before it.
BootAt(b) ==
  fis[b].name = "BOOT" /\ fis[b].sum /\ \A i \in 1 .. b : fis[i].name # FREE

BootKept == pc # "off" /\ ~loaded => \E b \in Slots : BootAt(b)

\* The slot that was chosen when fis_ui_create_image began is still the right
\* one: no entry before it is free, no other has the name, BOOT is elsewhere.
Slotted(j) ==
  j.by = "create" =>
    /\ j.slot \in Slots /\ j.name \in Names
    /\ \A i \in 1 .. j.slot - 1 : fis[i].name # FREE
    /\ ~revived => \A i \in Slots \ {j.slot} : Valid(fis[i]) => fis[i].name # j.name
    /\ ~loaded => j.name = "BOOT" \/ \E b \in Slots \ {j.slot} : BootAt(b)

Ahead == {"download", "eraseArea", "programArea", "update", "tail"}

Making ==
  /\ pc \in Ahead \/ (pc \in {"erase", "write"} /\ job.then = "tail") => Slotted(job)
  /\ outer.by = "create" => Slotted(outer)

\* The sector while it is written, and when it is not.
Writing ==
  /\ pc = "erase" => k = 1
  /\ pc = "write" =>
       /\ ~synced /\ k \in 1 .. Entries + 1
       /\ \A i \in Slots : rom[i] = IF i < k THEN fis[i] ELSE Free
  /\ synced /\ pc \notin {"erase", "off"} => rom = fis

\* The area while it is erased and programmed, and afterwards.
Fitting ==
  /\ job.by # "none" /\ job.stat = 1
  /\ job.file.len <= job.erase /\ job.dest + job.file.len <= FlashSize
  /\ job.max # 0 => job.erase = job.max

Holding(i, c) == job.dest + i = FisAddr \/ cells[job.dest + i] = c

AreaOK ==
  /\ pc \in {"eraseArea", "programArea"} => Fitting
  /\ pc = "eraseArea" =>
       /\ k <= job.erase
       /\ \A i \in 0 .. job.file.len - 1 : i < k => Holding(i, BLANK)
  /\ pc = "programArea" =>
       /\ k <= job.file.len
       /\ \A i \in 0 .. job.file.len - 1 : Holding(i, IF i < k THEN Data(i) ELSE BLANK)
  /\ pc \in {"update", "tail", "erase", "write", "menu"} /\ job.by # "none" /\ job.stat = 0 =>
       \A i \in 0 .. job.file.len - 1 : Holding(i, Data(i))

MacOK ==
  mac = "off" =>
    \/ pc \in {"eraseArea", "programArea", "update", "tail", "off"}
    \/ pc \in {"erase", "write"} /\ job.then = "tail"

FisInv ==
  /\ FisTypeOK /\ Nested /\ Directories /\ BootKept /\ Making /\ Writing /\ AreaOK /\ MacOK
-----------------------------------------------------------------------------
(* The directories that are made as a whole                                 *)

LEMMA Sizes ==
  /\ FlashSize \in Nat \ {0} /\ BootSize \in Nat \ {0} /\ KernelSize \in Nat \ {0}
  /\ KernelAddr \in Nat /\ FisAddr \in Nat /\ FisAddr \in Cells
  /\ Entries \in Nat /\ Entries >= 3
BY FisAssumption DEF Cells

LEMMA SpecialEntries ==
  /\ Free \in Entry_ /\ Junk \in Entry_ /\ Zero \in Entry_
  /\ Free.base = -1 /\ Junk.base = -1 /\ Zero.base = -2
  /\ Free.name = FREE /\ Junk.name = "junk" /\ Zero.name = ZERO
  /\ ~Free.sum /\ ~Junk.sum /\ ~Valid(Free) /\ ~Valid(Junk) /\ ~Valid(Zero)
  /\ FREE # ZERO /\ "BOOT" \notin {FREE, ZERO} /\ "junk" \notin {FREE, ZERO}
<1>1. PICK e \in Entry_ : e = Entry(FREE, NONE, NONE, NONE, TRUE) /\ e.base = -1 /\ e.name = FREE
  <2>1. /\ Entry(FREE, NONE, NONE, NONE, TRUE) \in Entry_
        /\ Entry(FREE, NONE, NONE, NONE, TRUE).base = -1
        /\ Entry(FREE, NONE, NONE, NONE, TRUE).name = FREE
    BY DEF Entry, Entry_, NONE
  <2> QED
    BY <2>1
<1>2. Free \in Entry_ /\ Free.base = -1 /\ Free.name = FREE /\ ~Free.sum
  <2>1. Free = [e EXCEPT !.sum = FALSE]
    BY <1>1 DEF Free
  <2> QED
    BY <1>1, <2>1 DEF Entry_
<1>3. Junk \in Entry_ /\ Junk.base = -1 /\ Junk.name = "junk" /\ ~Junk.sum
  BY <1>2 DEF Junk, Entry_
<1>4. Zero \in Entry_ /\ Zero.base = -2 /\ Zero.name = ZERO
  BY DEF Zero, Entry, Entry_, NOWHERE
<1>5. FREE # ZERO /\ "BOOT" \notin {FREE, ZERO} /\ "junk" \notin {FREE, ZERO}
  BY DEF FREE, ZERO
<1> QED
  BY <1>2, <1>3, <1>4, <1>5 DEF Valid

LEMMA BlankIs ==
  Blank \in Directory /\ Rubbish \in Directory
  /\ Reached(Blank) /\ Reached(Rubbish) /\ Unique(Blank) /\ Unique(Rubbish)
BY SpecialEntries DEF Blank, Rubbish, Directory, Reached, Unique

LEMMA DefaultIs ==
  /\ Default \in Directory
  /\ Default[1] = Entry("BOOT", BootAddr, BootSize, BootSize, FALSE)
  /\ Default[2] = Entry("DIR", FisAddr, FisSize, FisSize, FALSE)
  /\ Default[3] = Entry("KERNEL", KernelAddr, KernelSize, KernelSize, TRUE)
  /\ \A i \in Slots : i \notin {1, 2, 3} => Default[i] = Free
<1>1. {1, 2, 3} \subseteq Slots
  BY Sizes DEF Slots
<1>2. /\ Default[1] = Entry("BOOT", BootAddr, BootSize, BootSize, FALSE)
      /\ Default[2] = Entry("DIR", FisAddr, FisSize, FisSize, FALSE)
      /\ Default[3] = Entry("KERNEL", KernelAddr, KernelSize, KernelSize, TRUE)
      /\ \A i \in Slots : i \notin {1, 2, 3} => Default[i] = Free
  <2>1. Default[1] = Entry("BOOT", BootAddr, BootSize, BootSize, FALSE)
    BY <1>1 DEF Default
  <2>2. Default[2] = Entry("DIR", FisAddr, FisSize, FisSize, FALSE)
    BY <1>1 DEF Default
  <2>3. Default[3] = Entry("KERNEL", KernelAddr, KernelSize, KernelSize, TRUE)
    BY <1>1 DEF Default
  <2>4. ASSUME NEW i \in Slots, i \notin {1, 2, 3} PROVE Default[i] = Free
    BY <2>4 DEF Default
  <2> QED
    BY <2>1, <2>2, <2>3, <2>4
<1>3. /\ Entry("BOOT", BootAddr, BootSize, BootSize, FALSE) \in Entry_
      /\ Entry("DIR", FisAddr, FisSize, FisSize, FALSE) \in Entry_
      /\ Entry("KERNEL", KernelAddr, KernelSize, KernelSize, TRUE) \in Entry_
  <2>1. "BOOT" \in Names /\ "DIR" \in Names /\ "KERNEL" \in Names
    BY FisAssumption
  <2> QED
    BY <2>1, Sizes DEF Entry, Entry_, BootAddr, FisSize
<1>4. \A i \in Slots : Default[i] \in Entry_
  BY <1>2, <1>3, SpecialEntries
<1>5. Default = [i \in Slots |-> Default[i]]
  BY DEF Default
<1> QED
  BY <1>2, <1>4, <1>5 DEF Directory

LEMMA DefaultSound ==
  /\ Reached(Default) /\ Unique(Default) /\ 1 \in Slots
  /\ Default[1].name = "BOOT" /\ Default[1].sum /\ Default[1].name # FREE
<1>1. /\ Default[1].name = "BOOT" /\ Default[2].name = "DIR" /\ Default[3].name = "KERNEL"
      /\ Default[1].base \in Nat /\ Default[2].base \in Nat /\ Default[3].base \in Nat
      /\ Default[1].size \in Nat /\ Default[2].size \in Nat /\ Default[3].size \in Nat
      /\ Default[1].sum
  BY DefaultIs, Sizes DEF Entry, BootAddr, FisSize
<1>2. \A i \in Slots : i \notin {1, 2, 3} => ~Valid(Default[i]) /\ Default[i].base = -1
  BY DefaultIs, SpecialEntries
<1>3. 1 \in Slots /\ Slots \subseteq Nat
  BY Sizes DEF Slots
<1>4. Reached(Default)
  <2>1. SUFFICES ASSUME NEW i \in Slots, Valid(Default[i]) \/ Default[i].base >= 0
                 PROVE  /\ \A j \in 1 .. i : Default[j].name # FREE
                        /\ Default[i].base \in Nat /\ Default[i].size \in Nat
    BY DEF Reached
  <2>2. i \in {1, 2, 3}
    BY <1>2, <2>1
  <2>3. \A j \in 1 .. i : j \in {1, 2, 3}
    BY <2>2
  <2> QED
    BY <1>1, <2>2, <2>3 DEF FREE
<1>5. Unique(Default)
  BY <1>1, <1>2 DEF Unique
<1> QED
  BY <1>1, <1>3, <1>4, <1>5 DEF FREE

LEMMA NoJobIs ==
  /\ NoJob \in Job_ /\ NoJob.by = "none" /\ NoJob.then = "end" /\ NoJob.stat = 1
BY DEF NoJob, Job, Job_, NoFile, Files

LEMMA FisInit ==
  ASSUME Init
  PROVE  FisInv
<1>1. FisTypeOK
  <2>1. env \in Setups
    BY FisAssumption DEF Init
  <2>2. OLD \in Content
    BY DEF OLD, Content
  <2> QED
    BY <2>1, <2>2, DefaultIs, NoJobIs DEF Init, FisTypeOK
<1>2. Nested
  BY DEF Init, Nested
<1>3. Directories
  BY DefaultSound DEF Init, Directories
<1>4. BootKept
  BY DefaultSound DEF Init, BootKept, BootAt
<1>5. Making
  BY NoJobIs DEF Init, Making, Ahead
<1>6. Writing
  BY DEF Init, Writing
<1>7. AreaOK /\ MacOK
  BY NoJobIs DEF Init, AreaOK, MacOK
<1> QED
  BY <1>1, <1>2, <1>3, <1>4, <1>5, <1>6, <1>7 DEF FisInv
-----------------------------------------------------------------------------
(* The first of several                                                     *)

LEMMA Least ==
  ASSUME NEW S \in SUBSET Nat, S # {}
  PROVE  \E n \in S : \A m \in S : n <= m
<1>1. PICK R : R = {ss \in Nat \X Nat : ss[1] < ss[2]}
  OBVIOUS
<1>2. IsWellFoundedOn(R, Nat)
  BY <1>1, NatLessThanWellFounded DEF OpToRel
<1>3. PICK n \in S : \A m \in S : ~(<<m, n>> \in R)
  BY <1>2, WFMin
<1>4. \A m \in S : ~(m < n)
  BY <1>1, <1>3
<1> QED
  BY <1>4

\* fis_find_image finds a name if a valid entry has it and is not hidden.
LEMMA FindsOne ==
  ASSUME NEW t \in Directory, NEW name \in Names, NEW b \in Slots,
         t[b].name = name, t[b].sum, \A i \in 1 .. b : t[i].name # FREE
  PROVE  Find(t, name) # {}
<1>0. PICK S : S = {i \in Slots : t[i].name = name /\ t[i].sum}
  OBVIOUS
<1>1. S = {i \in Slots : t[i].name = name /\ t[i].sum} /\ S \in SUBSET Nat /\ S # {}
  BY <1>0, Sizes DEF Slots
<1>2. PICK n \in S : \A m \in S : n <= m
  BY <1>1, Least
<1>3. n \in Slots /\ t[n].name = name /\ t[n].sum /\ n <= b
  BY <1>1, <1>2
<1>4. \A j \in 1 .. n : t[j].name # FREE
  BY <1>3 DEF Slots
<1>5. ASSUME NEW j \in 1 .. n - 1
      PROVE  ~(t[j].name = name /\ t[j].sum)
  <2>1. j \in Slots /\ n \in Nat /\ ~(n <= j)
    BY <1>3, Sizes DEF Slots
  <2>2. j \notin S
    BY <1>2, <2>1
  <2> QED
    BY <1>1, <2>1, <2>2
<1> QED
  BY <1>3, <1>4, <1>5 DEF Find

-----------------------------------------------------------------------------
(* What does not change                                                     *)

\* Two operations that differ only in status, tries and what follows.
SameJob(i, j) ==
  /\ i.by = j.by /\ i.dest = j.dest /\ i.erase = j.erase /\ i.max = j.max
  /\ i.slot = j.slot /\ i.name = j.name /\ i.size = j.size /\ i.file = j.file /\ i.n = j.n

LEMMA JobStat ==
  ASSUME NEW j \in Job_, NEW s \in {0, 1}
  PROVE  /\ [j EXCEPT !.stat = s] \in Job_ /\ SameJob([j EXCEPT !.stat = s], j)
         /\ [j EXCEPT !.stat = s].stat = s /\ [j EXCEPT !.stat = s].then = j.then
BY DEF Job_, SameJob

LEMMA JobThen ==
  ASSUME NEW j \in Job_, NEW s \in {"tail", "end"}
  PROVE  /\ [j EXCEPT !.then = s] \in Job_ /\ SameJob([j EXCEPT !.then = s], j)
         /\ [j EXCEPT !.then = s].then = s /\ [j EXCEPT !.then = s].stat = j.stat
BY DEF Job_, SameJob

LEMMA JobTry ==
  ASSUME NEW j \in Job_, NEW t \in Nat
  PROVE  /\ [j EXCEPT !.try = t] \in Job_ /\ SameJob([j EXCEPT !.try = t], j)
         /\ [j EXCEPT !.try = t].then = j.then /\ [j EXCEPT !.try = t].stat = j.stat
BY DEF Job_, SameJob

\* A job made by Job.
LEMMA JobIs ==
  ASSUME NEW by \in {"none", "ui", "web", "create"}, NEW dest \in Nat, NEW max \in Nat
  PROVE  /\ Job(by, dest, max) \in Job_ /\ Job(by, dest, max).by = by
         /\ Job(by, dest, max).dest = dest /\ Job(by, dest, max).max = max
         /\ Job(by, dest, max).erase = max /\ Job(by, dest, max).stat = 1
         /\ Job(by, dest, max).then = "end"
<1>1. NoFile \in Files
  BY DEF NoFile, Files
<1> QED
  BY <1>1 DEF Job, Job_

LEMMA DirectoriesStay ==
  ASSUME Directories, UNCHANGED <<fis, rom, revived>>
  PROVE  Directories'
BY DEF Directories

LEMMA BootStays ==
  ASSUME BootKept, UNCHANGED <<fis, loaded>>, pc' # "off" => pc # "off"
  PROVE  BootKept'
BY DEF BootKept, BootAt

LEMMA SlottedStays ==
  ASSUME NEW i, NEW j, Slotted(i), i.by = j.by, i.slot = j.slot, i.name = j.name,
         UNCHANGED <<fis, revived, loaded>>
  PROVE  Slotted(j)'
BY DEF Slotted, BootAt

\* An operation that is not to make an entry.
LEMMA NotSlotted ==
  ASSUME NEW j, j.by # "create"
  PROVE  Slotted(j) /\ Slotted(j)'
BY DEF Slotted

LEMMA HeldStays ==
  ASSUME NEW i, SameJob(job', job), UNCHANGED cells, Holding(i, Data(i))
  PROVE  Holding(i, Data(i))'
BY DEF SameJob, Holding, Data

\* The making of an entry, while the directory stays.
LEMMA MakingStays ==
  ASSUME Making, UNCHANGED <<fis, revived, loaded>>, job' = job \/ SameJob(job', job),
         outer' = outer \/ outer' = NoJob,
         pc' \in Ahead \/ (pc' \in {"erase", "write"} /\ job'.then = "tail") =>
           pc \in Ahead \/ (pc \in {"erase", "write"} /\ job.then = "tail")
  PROVE  Making'
<1>1. PICK i, j : i = job /\ j = job'
  OBVIOUS
<1>2. PICK o : o = outer'
  OBVIOUS
<1>3. i.by = j.by /\ i.slot = j.slot /\ i.name = j.name
  BY <1>1 DEF SameJob
<1>4. Slotted(i) => Slotted(j)'
  BY <1>3, SlottedStays
<1>5. o.by = "create" => Slotted(o)'
  <2>1. CASE outer' = outer
    BY <1>2, <2>1, SlottedStays DEF Making
  <2>2. CASE outer' = NoJob
    BY <1>2, <2>2, NoJobIs
  <2> QED
    BY <2>1, <2>2
<1> QED
  BY <1>1, <1>2, <1>4, <1>5 DEF Making

\* The end of an operation.
LEMMA FinishOK ==
  ASSUME FisInv, pc \in {"download", "erase", "write", "tail"}, NEW j \in Job_, Finish(j),
         UNCHANGED <<fis, cells, revived, loaded>>,
         j.by # "none" /\ j.stat = 0 => SameJob(j, job) /\ job.stat = 0 /\ pc # "download"
  PROVE  /\ pc' \in {"menu", "download"} /\ job' \in Job_ /\ outer' \in Job_ /\ k' \in Nat
         /\ Nested' /\ BootKept' /\ Making' /\ AreaOK'
<1>1. outer' = NoJob /\ k' = 0
  BY DEF Finish
<1>2. \/ outer = NoJob /\ pc' = "menu" /\ job' = j
      \/ Waiting(outer) /\ pc' = "download" /\ job' = outer
  BY NoJobIs DEF Finish, FisInv, Nested, Waiting
<1>3. pc' \in {"menu", "download"} /\ job' \in Job_ /\ outer' \in Job_ /\ k' \in Nat
  BY <1>1, <1>2, NoJobIs DEF FisInv, FisTypeOK
<1>4. Nested'
  BY <1>1, <1>2 DEF Nested, Waiting
<1>5. BootKept'
  BY BootStays DEF FisInv
<1>6. Making'
  <2>1. PICK o : o = job'
    OBVIOUS
  <2>2. pc' = "download" => Slotted(o)'
    <3>1. CASE outer.by = "create"
      BY <1>2, <2>1, <3>1, SlottedStays DEF FisInv, Making
    <3>2. CASE outer.by # "create"
      BY <1>2, <2>1, <3>2, NotSlotted
    <3> QED
      BY <3>1, <3>2
  <2> QED
    BY <1>1, <1>3, <2>1, <2>2, NoJobIs DEF Making, Ahead
<1>7. AreaOK'
  <2>1. ASSUME pc' = "menu", job'.by # "none", job'.stat = 0, NEW i \in 0 .. job'.file.len - 1
        PROVE  Holding(i, Data(i))'
    <3>1. SameJob(job', job) /\ job.stat = 0 /\ job.by # "none"
      BY <1>2, <2>1 DEF SameJob
    <3>2. pc \in {"update", "tail", "erase", "write", "menu"}
      BY <1>2, <2>1
    <3>3. \A x \in 0 .. job.file.len - 1 : Holding(x, Data(x))
      BY <3>1, <3>2 DEF FisInv, AreaOK
    <3>4. job'.file = job.file
      BY <3>1 DEF SameJob
    <3>5. i \in 0 .. job.file.len - 1
      BY <2>1, <3>4
    <3> QED
      BY <3>1, <3>3, <3>5, HeldStays
  <2> QED
    BY <1>3, <2>1 DEF AreaOK
<1> QED
  BY <1>3, <1>4, <1>5, <1>6, <1>7
\* The setting, when something is done or goes wrong.
LEMMA EnvIs ==
  ASSUME NEW e \in Setups, NEW n \in Nat
  PROVE  /\ [e EXCEPT !.ops = n] \in Setups /\ [e EXCEPT !.cuts = n] \in Setups
         /\ [e EXCEPT !.failures = n] \in Setups
BY DEF Setups

LEMMA EnvFails ==
  ASSUME env \in Setups, NEW x, MayFail(x)
  PROVE  env' \in Setups
<1>1. CASE x \in env.bad
  BY <1>1 DEF MayFail
<1>2. CASE x \notin env.bad
  <2>1. env.failures \in Nat /\ env.failures > 0
    BY <1>2 DEF MayFail, Setups
  <2>2. PICK n \in Nat : n = env.failures - 1
    BY <2>1
  <2>3. env' = [env EXCEPT !.failures = n]
    BY <1>2, <2>2 DEF MayFail
  <2> QED
    BY <2>3, EnvIs
<1> QED
  BY <1>1, <1>2

LEMMA EnvBegins ==
  ASSUME env \in Setups, env.ops > 0, env' = [env EXCEPT !.ops = @ - 1]
  PROVE  env' \in Setups
<1>1. env.ops \in Nat
  BY DEF Setups
<1>2. PICK n \in Nat : n = env.ops - 1
  BY <1>1
<1> QED
  BY <1>2, EnvIs

LEMMA EnvCut ==
  ASSUME env \in Setups, env.cuts > 0, env' = [env EXCEPT !.cuts = @ - 1]
  PROVE  env' \in Setups
<1>1. env.cuts \in Nat
  BY DEF Setups
<1>2. PICK n \in Nat : n = env.cuts - 1
  BY <1>1
<1> QED
  BY <1>2, EnvIs

-----------------------------------------------------------------------------
(* The directory's sector                                                   *)

\* The beginning of a directory, an entry that is not valid, and nothing more.
LEMMA TornSound ==
  ASSUME NEW t \in Directory, NEW p \in Directory, NEW n \in Nat, Reached(t),
         \A i \in Slots : (i < n => p[i] = t[i]) /\ (i > n => p[i] = Free),
         n \in Slots => /\ ~p[n].sum
                        /\ p[n].base < 0 \/ (p[n].base = t[n].base /\ p[n].name = t[n].name)
  PROVE  Reached(p) /\ (Unique(t) => Unique(p))
<1>0. Slots \subseteq Nat
  BY Sizes DEF Slots
<1>1. ASSUME NEW i \in Slots, Valid(p[i])
      PROVE  i < n /\ p[i] = t[i]
  <2>1. i # n
    BY <1>1 DEF Valid
  <2>2. ~(i > n)
    BY <1>1, SpecialEntries
  <2> QED
    BY <1>0, <2>1, <2>2
<1>2. ASSUME NEW i \in Slots, p[i].base >= 0
      PROVE  i <= n /\ p[i].base = t[i].base /\ p[i].name = t[i].name
  <2>1. ~(i > n)
    BY <1>2, SpecialEntries
  <2>2. p[i].base \in Int /\ i \in Nat
    BY <1>0 DEF Directory, Entry_
  <2>3. CASE i = n
    BY <1>2, <2>2, <2>3
  <2>4. CASE i < n
    BY <2>4, <2>2
  <2> QED
    BY <2>1, <2>2, <2>3, <2>4
<1>3. Reached(p)
  <2>1. ASSUME NEW i \in Slots, Valid(p[i]) \/ p[i].base >= 0
        PROVE  \A j \in 1 .. i : p[j].name # FREE
    <3>1. i <= n /\ p[i].name = t[i].name /\ (Valid(t[i]) \/ t[i].base >= 0)
      BY <1>0, <1>1, <1>2, <2>1
    <3>2. \A j \in 1 .. i : t[j].name # FREE
      BY <3>1 DEF Reached
    <3>3. \A j \in 1 .. i : j = i \/ (j \in Slots /\ j < n)
      BY <3>1, Sizes DEF Slots
    <3> QED
      BY <1>0, <3>1, <3>2, <3>3
  <2>2. ASSUME NEW i \in Slots, Valid(p[i])
        PROVE  p[i].base \in Nat /\ p[i].size \in Nat
    BY <1>1, <2>2 DEF Reached
  <2> QED
    BY <2>1, <2>2 DEF Reached
<1>4. Unique(t) => Unique(p)
  BY <1>1 DEF Unique
<1> QED
  BY <1>3, <1>4

\* The whole directory, or the beginning of one.
LEMMA PrefixSound ==
  ASSUME NEW t \in Directory, NEW p \in Directory, NEW n \in Nat, Reached(t),
         \A i \in Slots : p[i] = IF i < n THEN t[i] ELSE Free
  PROVE  Reached(p) /\ (Unique(t) => Unique(p))
<1>1. \A i \in Slots : (i < n => p[i] = t[i]) /\ (i > n => p[i] = Free)
  BY Sizes DEF Slots
<1>2. n \in Slots => ~p[n].sum /\ p[n].base < 0
  BY SpecialEntries
<1> QED
  BY <1>1, <1>2, TornSound

\* An entry is replaced by one that is in order.
LEMMA PutSound ==
  ASSUME NEW t \in Directory, NEW s \in Slots, NEW e \in Entry_, Reached(t), e.name # FREE,
         Valid(e) \/ e.base >= 0 => \A i \in 1 .. s - 1 : t[i].name # FREE,
         Valid(e) => e.base \in Nat /\ e.size \in Nat
  PROVE  /\ [t EXCEPT ![s] = e] \in Directory /\ Reached([t EXCEPT ![s] = e])
         /\ Unique(t) /\ (Valid(e) => \A i \in Slots \ {s} : Valid(t[i]) => t[i].name # e.name) =>
              Unique([t EXCEPT ![s] = e])
<1>1. PICK p \in Directory : /\ p = [t EXCEPT ![s] = e] /\ p[s] = e
                             /\ \A i \in Slots : i # s => p[i] = t[i]
  <2>1. /\ [t EXCEPT ![s] = e] \in Directory /\ [t EXCEPT ![s] = e][s] = e
        /\ \A i \in Slots : i # s => [t EXCEPT ![s] = e][i] = t[i]
    BY DEF Directory
  <2> QED
    BY <2>1
<1>2. Slots \subseteq Nat /\ \A i \in Slots : 1 .. i \subseteq Slots
  BY Sizes DEF Slots
<1>3. Reached(p)
  <2>1. ASSUME NEW i \in Slots, Valid(p[i]) \/ p[i].base >= 0
        PROVE  \A j \in 1 .. i : p[j].name # FREE
    <3>1. CASE i = s
      <4>1. \A j \in 1 .. s : j = s \/ j \in 1 .. s - 1
        BY <1>2
      <4> QED
        BY <1>1, <1>2, <2>1, <3>1, <4>1
    <3>2. CASE i # s
      BY <1>1, <1>2, <2>1, <3>2 DEF Reached
    <3> QED
      BY <3>1, <3>2
  <2>2. ASSUME NEW i \in Slots, Valid(p[i])
        PROVE  p[i].base \in Nat /\ p[i].size \in Nat
    BY <1>1, <2>2 DEF Reached
  <2> QED
    BY <2>1, <2>2 DEF Reached
<1>4. ASSUME Unique(t), Valid(e) => \A i \in Slots \ {s} : Valid(t[i]) => t[i].name # e.name
      PROVE  Unique(p)
  BY <1>1, <1>4 DEF Unique
<1> QED
  BY <1>1, <1>3, <1>4
-----------------------------------------------------------------------------
(* fis_write_flash                                                          *)

LEMMA WriteEraseOK ==
  ASSUME FisInv, WriteErase
  PROVE  FisInv'
<1>0. /\ FisTypeOK /\ Nested /\ Directories /\ BootKept /\ Making /\ Writing /\ AreaOK /\ MacOK
      /\ pc = "erase" /\ pc' = "write" /\ rom' = Blank /\ synced' = FALSE
      /\ UNCHANGED <<env, fis, cells, mac, job, outer, k, loaded>>
      /\ revived' = (revived /\ ~(job = NoJob /\ fis = Default))
  BY DEF FisInv, WriteErase
<1>1. FisTypeOK'
  BY <1>0, BlankIs DEF FisTypeOK
<1>2. Nested'
  BY <1>0 DEF Nested
<1>3. Directories'
  <2>1. ~revived' => Unique(fis)
    <3>1. ~revived' => ~revived \/ fis = Default
      BY <1>0
    <3> QED
      BY <1>0, <3>1, DefaultSound DEF Directories
  <2> QED
    BY <1>0, <2>1, BlankIs DEF Directories
<1>4. BootKept'
  BY <1>0, BootStays
<1>5. Making'
  <2>1. CASE job = NoJob /\ fis = Default
    <3>1. outer = NoJob
      BY <1>0, <2>1, NoJobIs DEF Nested
    <3> QED
      BY <1>0, <2>1, <3>1, NoJobIs DEF Making, Ahead
  <2>2. CASE ~(job = NoJob /\ fis = Default)
    <3>1. revived' = revived
      BY <1>0, <2>2 DEF FisTypeOK
    <3> QED
      BY <1>0, <3>1, MakingStays DEF Ahead
  <2> QED
    BY <2>1, <2>2
<1>6. Writing'
  BY <1>0, Sizes DEF Writing, Blank, Slots
<1>7. AreaOK'
  BY <1>0 DEF AreaOK, Holding, Data
<1>8. MacOK'
  BY <1>0 DEF MacOK
<1> QED
  BY <1>1, <1>2, <1>3, <1>4, <1>5, <1>6, <1>7, <1>8 DEF FisInv

LEMMA WriteEntryOK ==
  ASSUME FisInv, WriteEntry
  PROVE  FisInv'
<1>0. /\ FisTypeOK /\ Nested /\ Directories /\ BootKept /\ Making /\ Writing /\ AreaOK /\ MacOK
      /\ pc = "write" /\ pc' = "write" /\ k <= Entries /\ k' = k + 1
      /\ rom' = [rom EXCEPT ![k] = Put(@, fis[k], Junk, Free)]
      /\ UNCHANGED <<env, fis, cells, mac, job, outer, synced, loaded, revived>>
  BY DEF FisInv, WriteEntry
<1>a. k \in Slots /\ k \in Nat /\ k' \in 1 .. Entries + 1 /\ ~synced
      /\ \A i \in Slots : rom[i] = IF i < k THEN fis[i] ELSE Free
  BY <1>0, Sizes DEF Writing, Slots, FisTypeOK
<1>b. rom' = [rom EXCEPT ![k] = fis[k]]
  <2>1. rom[k] = Free
    BY <1>a
  <2> QED
    BY <1>0, <2>1 DEF Put
<1>c. /\ rom' \in Directory
      /\ \A i \in Slots : rom'[i] = IF i < k' THEN fis[i] ELSE Free
  BY <1>0, <1>a, <1>b DEF FisTypeOK, Directory, Slots
<1>1. FisTypeOK'
  BY <1>0, <1>a, <1>c DEF FisTypeOK
<1>2. Nested'
  BY <1>0 DEF Nested
<1>3. Directories'
  <2>1. PICK p \in Directory : p = rom'
    BY <1>c
  <2>2. PICK n \in Nat : n = k'
    BY <1>0, <1>a
  <2>3. fis \in Directory /\ Reached(fis)
    BY <1>0 DEF FisTypeOK, Directories
  <2>4. Reached(p) /\ (Unique(fis) => Unique(p))
    BY <1>c, <2>1, <2>2, <2>3, PrefixSound
  <2> QED
    BY <1>0, <2>1, <2>4 DEF Directories
<1>4. BootKept'
  BY <1>0, BootStays
<1>5. Making'
  BY <1>0, MakingStays DEF Ahead
<1>6. Writing'
  BY <1>0, <1>a, <1>c DEF Writing
<1>7. AreaOK'
  BY <1>0 DEF AreaOK, Holding, Data
<1>8. MacOK'
  BY <1>0 DEF MacOK
<1> QED
  BY <1>1, <1>2, <1>3, <1>4, <1>5, <1>6, <1>7, <1>8 DEF FisInv

\* What comes after fis_write_flash.
LEMMA WrittenOK ==
  ASSUME FisInv, pc \in {"erase", "write"}, UNCHANGED <<fis, cells, mac, loaded, revived>>,
         IF job.then = "tail" THEN pc' = "tail" /\ k' = 0 /\ UNCHANGED <<job, outer>>
                              ELSE Finish(job)
  PROVE  /\ pc' \in {"menu", "download", "tail"} /\ job' \in Job_ /\ outer' \in Job_ /\ k' \in Nat
         /\ Nested' /\ BootKept' /\ Making' /\ AreaOK' /\ MacOK'
<1>0. /\ FisTypeOK /\ Nested /\ BootKept /\ Making /\ AreaOK /\ MacOK
  BY DEF FisInv
<1>1. CASE job.then = "tail"
  <2>1. Nested' /\ BootKept'
    BY <1>0, <1>1, BootStays DEF Nested
  <2>2. Making'
    BY <1>0, <1>1, MakingStays DEF Ahead
  <2>3. AreaOK' /\ MacOK'
    BY <1>0, <1>1 DEF AreaOK, Holding, Data, MacOK
  <2> QED
    BY <1>0, <1>1, <2>1, <2>2, <2>3 DEF FisTypeOK
<1>2. CASE job.then # "tail"
  <2>1. PICK j \in Job_ : j = job
    BY <1>0 DEF FisTypeOK
  <2>2. SameJob(j, job) /\ Finish(j)
    BY <1>2, <2>1 DEF SameJob
  <2>3. /\ pc' \in {"menu", "download"} /\ job' \in Job_ /\ outer' \in Job_ /\ k' \in Nat
        /\ Nested' /\ BootKept' /\ Making' /\ AreaOK'
    BY <2>1, <2>2, FinishOK
  <2>4. MacOK'
    BY <1>0, <1>2 DEF MacOK
  <2> QED
    BY <2>3, <2>4
<1> QED
  BY <1>1, <1>2

LEMMA WriteDoneOK ==
  ASSUME FisInv, WriteDone
  PROVE  FisInv'
<1>0. /\ FisTypeOK /\ Directories /\ Writing
      /\ pc = "write" /\ k > Entries /\ synced' = TRUE
      /\ UNCHANGED <<env, fis, rom, cells, mac, loaded, revived>>
  BY DEF FisInv, WriteDone
<1>1. /\ pc' \in {"menu", "download", "tail"} /\ job' \in Job_ /\ outer' \in Job_ /\ k' \in Nat
      /\ Nested' /\ BootKept' /\ Making' /\ AreaOK' /\ MacOK'
  BY <1>0, WrittenOK DEF WriteDone
<1>2. rom = fis
  <2>1. \A i \in Slots : rom[i] = fis[i]
    BY <1>0, Sizes DEF Writing, Slots, FisTypeOK
  <2> QED
    BY <1>0, <2>1 DEF FisTypeOK, Directory
<1>3. FisTypeOK'
  BY <1>0, <1>1 DEF FisTypeOK
<1>4. Directories' /\ Writing'
  BY <1>0, <1>1, <1>2, DirectoriesStay DEF Writing
<1> QED
  BY <1>1, <1>3, <1>4 DEF FisInv

\* A directory that fis_write_flash leaves unfinished.
LEMMA HalfWritten ==
  ASSUME FisInv, pc = "write", k <= Entries, NEW e \in Entry_, ~e.sum,
         e.base < 0 \/ (e.base = fis[k].base /\ e.name = fis[k].name),
         rom' = [rom EXCEPT ![k] = e], UNCHANGED <<fis, revived>>
  PROVE  rom' \in Directory /\ Directories'
<1>0. /\ k \in Slots /\ k \in Nat /\ fis \in Directory /\ rom \in Directory /\ Directories
      /\ \A i \in Slots : rom[i] = IF i < k THEN fis[i] ELSE Free
  BY Sizes DEF FisInv, Writing, Slots, FisTypeOK
<1>1. PICK p \in Directory : p = rom' /\ p[k] = e /\ \A i \in Slots : i # k => p[i] = rom[i]
  <2>1. rom' \in Directory /\ rom'[k] = e /\ \A i \in Slots : i # k => rom'[i] = rom[i]
    BY <1>0 DEF Directory
  <2> QED
    BY <2>1
<1>2. \A i \in Slots : (i < k => p[i] = fis[i]) /\ (i > k => p[i] = Free)
  BY <1>0, <1>1, Sizes DEF Slots
<1>3. Reached(p) /\ (Unique(fis) => Unique(p))
  <2>1. Reached(fis)
    BY <1>0 DEF Directories
  <2>2. ~p[k].sum /\ (p[k].base < 0 \/ (p[k].base = fis[k].base /\ p[k].name = fis[k].name))
    BY <1>1
  <2> QED
    BY <1>0, <1>2, <2>1, <2>2, TornSound
<1> QED
  BY <1>0, <1>1, <1>3 DEF Directories

LEMMA WriteFailsOK ==
  ASSUME FisInv, WriteFails
  PROVE  FisInv'
<1>0. /\ FisTypeOK /\ Directories /\ Writing
      /\ pc \in {"erase", "write"} /\ synced' = FALSE /\ MayFail(FisAddr)
      /\ UNCHANGED <<fis, cells, mac, loaded, revived>>
  BY DEF FisInv, WriteFails
<1>1. /\ pc' \in {"menu", "download", "tail"} /\ job' \in Job_ /\ outer' \in Job_ /\ k' \in Nat
      /\ Nested' /\ BootKept' /\ Making' /\ AreaOK' /\ MacOK'
  BY <1>0, WrittenOK DEF WriteFails
<1>2. rom' \in Directory /\ Directories'
  <2>1. CASE UNCHANGED rom
    BY <1>0, <2>1, DirectoriesStay DEF FisTypeOK
  <2>2. CASE rom' = Rubbish
    BY <1>0, <2>2, BlankIs DEF Directories
  <2>3. CASE pc = "write" /\ k <= Entries /\ rom' = [rom EXCEPT ![k] = Junk]
    <3>1. PICK e \in Entry_ : e = Junk /\ ~e.sum /\ e.base = -1
      BY SpecialEntries
    <3>2. e.base < 0 /\ rom' = [rom EXCEPT ![k] = e]
      BY <2>3, <3>1
    <3> QED
      BY <1>0, <2>3, <3>1, <3>2, HalfWritten
  <2> QED
    BY <2>1, <2>2, <2>3 DEF WriteFails
<1>3. FisTypeOK'
  BY <1>0, <1>1, <1>2, EnvFails DEF FisTypeOK
<1>4. Writing'
  BY <1>0, <1>1 DEF Writing
<1> QED
  BY <1>1, <1>2, <1>3, <1>4 DEF FisInv
-----------------------------------------------------------------------------
(* The menu                                                                 *)

\* fis_create_default, at the start or at the menu.
LEMMA DefaultMade ==
  ASSUME FisInv, pc \in {"off", "menu"}, Write(Default, NoJob), env' \in Setups,
         mac' = "on" \/ (mac' = mac /\ pc = "menu"), loaded' = FALSE, UNCHANGED <<rom, cells, synced, outer, revived>>
  PROVE  FisInv'
<1>0. /\ FisTypeOK /\ Nested /\ Directories /\ MacOK
      /\ fis' = Default /\ job' = NoJob /\ pc' = "erase" /\ k' = 1 /\ outer = NoJob
  BY DEF FisInv, Write, Nested
<1>1. FisTypeOK'
  BY <1>0, DefaultIs, NoJobIs DEF FisTypeOK
<1>2. Nested'
  BY <1>0 DEF Nested
<1>3. Directories'
  BY <1>0, DefaultSound DEF Directories
<1>4. BootKept'
  <2>1. BootAt(1)'
    <3>1. \A i \in 1 .. 1 : i = 1
      OBVIOUS
    <3> QED
      BY <1>0, <3>1, DefaultSound DEF BootAt
  <2> QED
    BY <2>1, DefaultSound DEF BootKept
<1>5. Making'
  BY <1>0, NoJobIs DEF Making, Ahead
<1>6. Writing'
  BY <1>0 DEF Writing
<1>7. AreaOK'
  BY <1>0, NoJobIs DEF AreaOK
<1>8. MacOK'
  <2>1. pc = "menu" => mac # "off"
    BY <1>0 DEF MacOK
  <2>2. CASE mac' = "on"
    BY <2>2 DEF MacOK
  <2>3. CASE mac' = mac /\ pc = "menu"
    BY <2>1, <2>3 DEF MacOK
  <2> QED
    BY <2>2, <2>3
<1> QED
  BY <1>1, <1>2, <1>3, <1>4, <1>5, <1>6, <1>7, <1>8 DEF FisInv

LEMMA BootOK ==
  ASSUME FisInv, Boot
  PROVE  FisInv'
<1>0. /\ FisTypeOK /\ Nested /\ Directories /\ pc = "off" /\ outer = NoJob
      /\ mac' = "on" /\ loaded' = FALSE /\ UNCHANGED <<env, rom, cells, outer, revived>>
  BY DEF FisInv, Boot, Nested
<1>1. CASE Find(rom, "BOOT") = {}
  <2>1. Write(Default, NoJob) /\ UNCHANGED synced
    BY <1>1 DEF Boot
  <2>2. env' \in Setups
    BY <1>0 DEF FisTypeOK
  <2> QED
    BY <1>0, <2>1, <2>2, DefaultMade
<1>2. CASE Find(rom, "BOOT") # {}
  <2>0. fis' = rom /\ synced' = TRUE /\ pc' = "menu" /\ k' = 0 /\ job' = NoJob
    BY <1>2 DEF Boot
  <2>1. FisTypeOK' /\ Nested' /\ Directories'
    BY <1>0, <2>0, NoJobIs DEF FisTypeOK, Nested, Directories
  <2>2. BootKept'
    <3>1. PICK b \in Slots : b \in Find(rom, "BOOT")
      BY <1>2 DEF Find
    <3>2. BootAt(b)'
      BY <2>0, <3>1 DEF BootAt, Find
    <3> QED
      BY <3>2 DEF BootKept
  <2>3. Making' /\ Writing' /\ AreaOK' /\ MacOK'
    BY <1>0, <2>0, NoJobIs DEF Making, Ahead, Writing, AreaOK, MacOK
  <2> QED
    BY <2>1, <2>2, <2>3 DEF FisInv
<1> QED
  BY <1>1, <1>2

LEMMA CreateDefaultOK ==
  ASSUME FisInv, CreateDefault
  PROVE  FisInv'
<1>1. env' \in Setups
  BY EnvBegins DEF FisInv, FisTypeOK, CreateDefault, Begin
<1> QED
  BY <1>1, DefaultMade DEF CreateDefault, Begin, flash

LEMMA ResetOK ==
  ASSUME FisInv, Reset
  PROVE  FisInv'
<1>0. /\ FisTypeOK /\ Nested /\ Directories /\ BootKept /\ Making /\ Writing /\ AreaOK /\ MacOK
      /\ pc = "menu" /\ pc' = "off" /\ outer = NoJob
      /\ UNCHANGED <<env, fis, rom, cells, synced, mac, job, outer, k, loaded, revived>>
  BY DEF FisInv, Reset, flash, Nested
<1>1. FisTypeOK' /\ Nested'
  BY <1>0 DEF FisTypeOK, Nested
<1>2. Directories' /\ BootKept'
  BY <1>0, DirectoriesStay DEF BootKept
<1>3. Making' /\ Writing' /\ AreaOK' /\ MacOK'
  BY <1>0, NoJobIs DEF Making, Ahead, Writing, AreaOK, MacOK
<1> QED
  BY <1>1, <1>2, <1>3 DEF FisInv

LEMMA DeleteOK ==
  ASSUME FisInv, NEW name \in Names, Delete(name)
  PROVE  FisInv'
<1>0. /\ FisTypeOK /\ Nested /\ Directories /\ BootKept /\ MacOK
      /\ pc = "menu" /\ outer = NoJob /\ name # "BOOT"
      /\ UNCHANGED <<rom, cells, synced, mac, outer, loaded, revived>>
  BY DEF FisInv, Delete, Begin, flash, Nested
<1>1. env' \in Setups
  BY <1>0, EnvBegins DEF FisTypeOK, Delete, Begin
<1>2. PICK s \in Slots : s \in Find(fis, name) /\ Write([fis EXCEPT ![s] = Zero], NoJob)
  BY DEF Delete, Find
<1>3. /\ fis' = [fis EXCEPT ![s] = Zero] /\ job' = NoJob /\ pc' = "erase" /\ k' = 1
      /\ fis[s].name = name
  BY <1>2 DEF Write, Find
<1>4. PICK e \in Entry_ : e = Zero /\ ~Valid(e) /\ e.base = -2 /\ e.name # FREE
  BY SpecialEntries
<1>5. fis' \in Directory /\ Reached(fis') /\ (Unique(fis) => Unique(fis'))
  <2>1. PICK t \in Directory : t = fis
    BY <1>0 DEF FisTypeOK
  <2>2. Reached(t) /\ fis' = [t EXCEPT ![s] = e] /\ ~(e.base >= 0)
    BY <1>0, <1>3, <1>4, <2>1 DEF Directories
  <2> QED
    BY <1>4, <2>1, <2>2, PutSound
<1>6. FisTypeOK' /\ Nested'
  BY <1>0, <1>1, <1>3, <1>5, NoJobIs DEF FisTypeOK, Nested
<1>7. Directories'
  BY <1>0, <1>5 DEF Directories
<1>8. BootKept'
  <2>1. SUFFICES ASSUME ~loaded
                 PROVE  \E b \in Slots : BootAt(b)'
    BY <1>0 DEF BootKept
  <2>2. PICK b \in Slots : BootAt(b)
    BY <1>0, <2>1 DEF BootKept
  <2>3. b # s /\ \A i \in 1 .. b : i \in Slots
    BY <1>0, <1>3, <2>2, Sizes DEF BootAt, Slots
  <2>4. \A i \in Slots : fis'[i] = IF i = s THEN e ELSE fis[i]
    BY <1>0, <1>3, <1>4 DEF FisTypeOK, Directory
  <2>5. BootAt(b)'
    BY <1>4, <2>2, <2>3, <2>4 DEF BootAt
  <2> QED
    BY <2>5
<1>9. Making' /\ Writing' /\ AreaOK' /\ MacOK'
  BY <1>0, <1>3, NoJobIs DEF Making, Ahead, Writing, AreaOK, MacOK
<1> QED
  BY <1>6, <1>7, <1>8, <1>9 DEF FisInv

\* ui_download is called.
LEMMA DownloadBegins ==
  ASSUME FisInv, pc = "menu", env' \in Setups, NEW j \in Job_, Waiting(j), Slotted(j),
         job' = j, pc' = "download",
         UNCHANGED <<fis, rom, cells, synced, mac, outer, k, loaded, revived>>
  PROVE  FisInv'
<1>0. /\ FisTypeOK /\ Nested /\ Directories /\ BootKept /\ Making /\ Writing /\ AreaOK /\ MacOK
      /\ outer = NoJob
  BY DEF FisInv, Nested
<1>1. FisTypeOK' /\ Nested'
  BY <1>0 DEF FisTypeOK, Nested, Waiting
<1>2. Directories' /\ BootKept'
  BY <1>0, DirectoriesStay, BootStays
<1>3. Making'
  <2>1. Slotted(j)'
    BY SlottedStays
  <2> QED
    BY <1>0, <2>1, NoJobIs DEF Making
<1>4. Writing' /\ AreaOK' /\ MacOK'
  BY <1>0 DEF Writing, AreaOK, MacOK
<1> QED
  BY <1>1, <1>2, <1>3, <1>4 DEF FisInv

\* The slot fis_ui_create_image chooses.
LEMMA SlotChosen ==
  ASSUME FisInv, pc = "menu", NEW name \in Names,
         NEW s \in IF Find(fis, name) # {} THEN Find(fis, name) ELSE GetFree(fis)
  PROVE  /\ s \in Slots /\ \A i \in 1 .. s - 1 : fis[i].name # FREE
         /\ ~revived => \A i \in Slots \ {s} : Valid(fis[i]) => fis[i].name # name
         /\ ~loaded => name = "BOOT" \/ \E b \in Slots \ {s} : BootAt(b)
<1>0. /\ FisTypeOK /\ Directories /\ BootKept /\ fis \in Directory
      /\ name \notin {FREE, ZERO}
  BY FisAssumption DEF FisInv, FisTypeOK
<1>1. CASE Find(fis, name) # {}
  <2>1. /\ s \in Slots /\ fis[s].name = name /\ fis[s].sum
        /\ \A i \in 1 .. s : fis[i].name # FREE
    BY <1>1 DEF Find
  <2>2. Valid(fis[s])
    BY <1>0, <2>1 DEF Valid
  <2>3. ~revived => \A i \in Slots \ {s} : Valid(fis[i]) => fis[i].name # name
    BY <1>0, <2>1, <2>2 DEF Directories, Unique
  <2>4. ASSUME ~loaded, name # "BOOT" PROVE \E b \in Slots \ {s} : BootAt(b)
    BY <1>0, <2>1, <2>4 DEF BootKept, BootAt
  <2>5. \A i \in 1 .. s - 1 : i \in 1 .. s
    BY <2>1, Sizes DEF Slots
  <2> QED
    BY <2>1, <2>3, <2>4, <2>5
<1>2. CASE Find(fis, name) = {}
  <2>1. /\ s \in Slots /\ ~Valid(fis[s])
        /\ \A i \in Slots : fis[i].name \in {FREE, ZERO} \/ ~fis[i].sum => s <= i
    BY <1>2 DEF GetFree, Valid
  <2>2. ASSUME NEW i \in 1 .. s - 1
        PROVE  fis[i].name # FREE
    <3>1. i \in Slots /\ ~(s <= i)
      BY <2>1, Sizes DEF Slots
    <3> QED
      BY <2>1, <3>1
  <2>3. ASSUME NEW i \in Slots, Valid(fis[i]), fis[i].name = name
        PROVE  FALSE
    <3>1. fis[i].sum /\ \A j \in 1 .. i : fis[j].name # FREE
      BY <1>0, <2>3 DEF Directories, Reached, Valid
    <3> QED
      BY <1>0, <1>2, <2>3, <3>1, FindsOne
  <2>4. ASSUME ~loaded PROVE \E b \in Slots \ {s} : BootAt(b)
    <3>1. PICK b \in Slots : BootAt(b)
      BY <1>0, <2>4 DEF BootKept
    <3>2. Valid(fis[b])
      BY <3>1, SpecialEntries DEF BootAt, Valid
    <3> QED
      BY <2>1, <3>1, <3>2
  <2> QED
    BY <2>1, <2>2, <2>3, <2>4
<1> QED
  BY <1>1, <1>2

LEMMA CreateOK ==
  ASSUME FisInv, NEW name \in Names, NEW base \in 0 .. FlashSize, NEW size \in Nat,
         Create(name, base, size)
  PROVE  FisInv'
<1>0. pc = "menu" /\ pc' = "download"
      /\ UNCHANGED <<fis, rom, cells, synced, mac, outer, k, loaded, revived>>
  BY DEF Create, Begin, flash
<1>1. env' \in Setups
  BY EnvBegins DEF FisInv, FisTypeOK, Create, Begin
<1>2. PICK s \in IF Find(fis, name) # {} THEN Find(fis, name) ELSE GetFree(fis) :
        job' = [Job("create", base, 0) EXCEPT !.slot = s, !.name = name, !.size = size]
  BY DEF Create
<1>3. /\ s \in Slots /\ \A i \in 1 .. s - 1 : fis[i].name # FREE
      /\ ~revived => \A i \in Slots \ {s} : Valid(fis[i]) => fis[i].name # name
      /\ ~loaded => name = "BOOT" \/ \E b \in Slots \ {s} : BootAt(b)
  BY <1>0, SlotChosen
<1>4. PICK j0 \in Job_ : /\ j0 = Job("create", base, 0) /\ j0.by = "create" /\ j0.stat = 1
                         /\ j0.erase = j0.max
  <2>1. base \in Nat /\ 0 \in Nat
    BY Sizes
  <2>2. /\ Job("create", base, 0) \in Job_ /\ Job("create", base, 0).by = "create"
        /\ Job("create", base, 0).stat = 1
        /\ Job("create", base, 0).erase = Job("create", base, 0).max
    BY <2>1, JobIs
  <2> QED
    BY <2>2
<1>5. PICK j : j = [j0 EXCEPT !.slot = s, !.name = name, !.size = size]
  OBVIOUS
<1>6. /\ j \in Job_ /\ j.by = "create" /\ j.stat = 1 /\ j.erase = j.max
      /\ j.slot = s /\ j.name = name
  <2>1. s \in Nat
    BY <1>3, Sizes DEF Slots
  <2> QED
    BY <1>4, <1>5, <2>1 DEF Job_
<1>7. Waiting(j) /\ Slotted(j) /\ job' = j
  BY <1>2, <1>3, <1>4, <1>5, <1>6 DEF Waiting, Slotted
<1> QED
  BY <1>0, <1>1, <1>6, <1>7, DownloadBegins

\* The areas that ui_upgrade and web_upgrade find are given by numbers.
LEMMA TargetIs ==
  ASSUME FisInv, NEW what, what \in Names \cup {"FULL"}, NEW t \in Target(what)
  PROVE  t[1] \in Nat /\ t[2] \in Nat
<1>1. CASE what = "BOOT"
  BY <1>1, Sizes DEF Target, BootAddr
<1>2. CASE what = "FULL"
  BY <1>2, Sizes DEF Target, BootAddr
<1>3. CASE what \notin {"BOOT", "FULL"}
  <2>1. t \in {<<fis[i].base, fis[i].size>> : i \in Find(fis, what)}
    BY <1>3 DEF Target
  <2>2. PICK i \in Slots : i \in Find(fis, what) /\ t = <<fis[i].base, fis[i].size>>
    BY <2>1 DEF Find
  <2>3. Valid(fis[i])
    BY <1>3, <2>2, FisAssumption DEF Find, Valid
  <2> QED
    BY <2>2, <2>3 DEF FisInv, Directories, Reached
<1> QED
  BY <1>1, <1>2, <1>3

LEMMA UpgradeOK ==
  ASSUME FisInv, NEW what \in Names \cup {"FULL"}, Upgrade(what)
  PROVE  FisInv'
<1>0. pc = "menu" /\ pc' = "download"
      /\ UNCHANGED <<fis, rom, cells, synced, mac, outer, k, loaded, revived>>
  BY DEF Upgrade, Begin, flash
<1>1. env' \in Setups
  BY EnvBegins DEF FisInv, FisTypeOK, Upgrade, Begin
<1>2. PICK t \in Target(what) : job' = Job("ui", t[1], t[2])
  BY DEF Upgrade
<1>3. PICK d, m : d = t[1] /\ m = t[2]
  OBVIOUS
<1>4. d \in Nat /\ m \in Nat
  BY <1>3, TargetIs
<1>5. /\ Job("ui", d, m) \in Job_ /\ Job("ui", d, m).by = "ui" /\ Job("ui", d, m).stat = 1
      /\ Job("ui", d, m).erase = Job("ui", d, m).max
  BY <1>4, JobIs
<1>6. PICK j \in Job_ : j = Job("ui", d, m) /\ j.by = "ui" /\ j.stat = 1 /\ j.erase = j.max
  BY <1>5
<1>7. Waiting(j) /\ Slotted(j) /\ job' = j
  BY <1>2, <1>3, <1>6, NotSlotted DEF Waiting
<1> QED
  BY <1>0, <1>1, <1>6, <1>7, DownloadBegins
-----------------------------------------------------------------------------
(* ui_download and web_program                                              *)

\* The file is accepted.
LEMMA AcceptIs ==
  ASSUME env \in Setups, NEW j \in Job_, j.by # "none", j.stat = 1, j.erase = j.max,
         NEW f \in Files, Accept(j, f)
  PROVE  /\ job' \in Job_ /\ job'.by = j.by /\ job'.slot = j.slot /\ job'.name = j.name
         /\ Fitting' /\ pc' = "eraseArea" /\ k' = 0 /\ mac' = "off"
<1>1. env.ops \in Nat /\ f.len \in Nat /\ j.erase \in Nat /\ j.max \in Nat
  BY DEF Setups, Files, Job_
<1>2. PICK n \in Nat, er \in Nat : n = env.ops /\ er = IF j.erase = 0 THEN f.len ELSE j.erase
  BY <1>1
<1>3. job' = [j EXCEPT !.file = f, !.n = n, !.erase = er]
  BY <1>2 DEF Accept
<1>4. /\ job' \in Job_ /\ job'.by = j.by /\ job'.slot = j.slot /\ job'.name = j.name
      /\ job'.file = f /\ job'.erase = er /\ job'.stat = 1 /\ job'.dest = j.dest /\ job'.max = j.max
  BY <1>3 DEF Job_
<1>5. f.len <= er /\ (j.max # 0 => er = j.max)
  BY <1>1, <1>2 DEF Accept, Fits
<1>6. j.dest + f.len <= FlashSize /\ pc' = "eraseArea" /\ k' = 0 /\ mac' = "off"
  BY DEF Accept
<1> QED
  BY <1>4, <1>5, <1>6 DEF Fitting

\* The area is erased.
LEMMA AcceptOK ==
  ASSUME FisInv, pc \in {"menu", "download"}, env' \in Setups, NEW j \in Job_, j.by # "none",
         j.stat = 1, j.erase = j.max, NEW f \in Files, Accept(j, f), Slotted(j),
         outer' \in Job_, outer' = NoJob \/ (Waiting(outer') /\ j.by = "web"),
         NEW o, o = outer', o.by = "create" => Slotted(o),
         UNCHANGED <<fis, rom, cells, synced, loaded, revived>>
  PROVE  FisInv'
<1>0. /\ FisTypeOK /\ Nested /\ Directories /\ BootKept /\ Making /\ Writing /\ AreaOK /\ MacOK
  BY DEF FisInv
<1>1. /\ job' \in Job_ /\ job'.by = j.by /\ job'.slot = j.slot /\ job'.name = j.name
      /\ Fitting' /\ pc' = "eraseArea" /\ k' = 0 /\ mac' = "off"
  BY <1>0, AcceptIs DEF FisTypeOK
<1>2. FisTypeOK' /\ Nested'
  BY <1>0, <1>1 DEF FisTypeOK, Nested
<1>3. Directories' /\ BootKept'
  BY <1>0, <1>1, DirectoriesStay, BootStays
<1>4. Making'
  <2>1. PICK i : i = job'
    OBVIOUS
  <2>2. Slotted(i)'
    BY <1>1, <2>1, SlottedStays
  <2>3. o.by = "create" => Slotted(o)'
    BY SlottedStays
  <2> QED
    BY <2>1, <2>2, <2>3 DEF Making
<1>5. Writing' /\ MacOK'
  BY <1>0, <1>1 DEF Writing, MacOK
<1>6. AreaOK'
  <2>0. PICK i \in Job_ : i = job'
    BY <1>1
  <2>a. i.erase \in Nat /\ i.file.len \in Nat
    BY DEF Job_, Files
  <2>1. \A x \in 0 .. job'.file.len - 1 : ~(x < 0)
    BY <2>0, <2>a
  <2>2. 0 <= job'.erase
    BY <2>0, <2>a
  <2> QED
    BY <1>1, <2>1, <2>2 DEF AreaOK
<1> QED
  BY <1>2, <1>3, <1>4, <1>5, <1>6 DEF FisInv

LEMMA DownloadOK ==
  ASSUME FisInv, NEW f \in Files, Download(f)
  PROVE  FisInv'
<1>1. pc = "download" /\ Waiting(job) /\ outer = NoJob /\ job \in Job_ /\ Slotted(job)
      /\ UNCHANGED <<env, fis, rom, cells, synced, outer, loaded, revived>> /\ Accept(job, f)
      /\ env \in Setups
  BY DEF FisInv, FisTypeOK, Nested, Making, Ahead, Download, flash
<1>2. PICK j \in Job_ : j = job
  BY <1>1
<1>3. j.by # "none" /\ j.stat = 1 /\ j.erase = j.max
  BY <1>1, <1>2 DEF Waiting
<1>4. outer' = NoJob /\ outer' \in Job_ /\ outer'.by # "create"
  BY <1>1, NoJobIs
<1> QED
  BY <1>1, <1>2, <1>3, <1>4, AcceptOK

LEMMA GiveUpOK ==
  ASSUME FisInv, GiveUp
  PROVE  FisInv'
<1>0. /\ FisTypeOK /\ Directories /\ Writing /\ MacOK /\ pc = "download" /\ mac' \in {mac, "on"}
      /\ UNCHANGED <<env, fis, rom, cells, synced, loaded, revived>>
  BY DEF FisInv, GiveUp, flash
<1>1. PICK j \in Job_ : j = [job EXCEPT !.stat = 1] /\ j.stat = 1
  BY <1>0, JobStat DEF FisTypeOK
<1>2. Finish(j)
  BY <1>1 DEF GiveUp
<1>3. /\ pc' \in {"menu", "download"} /\ job' \in Job_ /\ outer' \in Job_ /\ k' \in Nat
      /\ Nested' /\ BootKept' /\ Making' /\ AreaOK'
  <2>1. /\ pc \in {"download", "erase", "write", "tail"} /\ UNCHANGED <<fis, cells, revived, loaded>>
        /\ ~(j.by # "none" /\ j.stat = 0)
    BY <1>0, <1>1
  <2> QED
    BY <1>2, <2>1, FinishOK
<1>4. FisTypeOK' /\ Writing'
  BY <1>0, <1>3 DEF FisTypeOK, Writing
<1>5. Directories' /\ MacOK'
  BY <1>0, DirectoriesStay DEF MacOK
<1> QED
  BY <1>3, <1>4, <1>5 DEF FisInv

LEMMA WebOK ==
  ASSUME FisInv, NEW what \in Names \cup {"FULL"}, NEW f \in Files, Web(what, f)
  PROVE  FisInv'
<1>0. /\ pc \in {"menu", "download"} /\ FisTypeOK /\ Nested /\ Making /\ outer = NoJob
      /\ outer' = IF pc = "download" THEN job ELSE NoJob
      /\ UNCHANGED <<fis, rom, cells, synced, loaded, revived>>
  BY DEF FisInv, Web, WebArrives, flash
<1>1. env' \in Setups
  BY EnvBegins DEF FisInv, FisTypeOK, Web, WebArrives
<1>2. PICK t \in Target(what) : Accept(Job("web", t[1], t[2]), f)
  BY DEF Web
<1>3. PICK d, m : d = t[1] /\ m = t[2]
  OBVIOUS
<1>4. d \in Nat /\ m \in Nat
  BY <1>3, TargetIs
<1>5. /\ Job("web", d, m) \in Job_ /\ Job("web", d, m).by = "web" /\ Job("web", d, m).stat = 1
      /\ Job("web", d, m).erase = Job("web", d, m).max
  BY <1>4, JobIs
<1>6. PICK j \in Job_ : j = Job("web", d, m) /\ j.by = "web" /\ j.stat = 1 /\ j.erase = j.max
  BY <1>5
<1>7. Slotted(j) /\ Accept(j, f) /\ j.by # "none"
  BY <1>2, <1>3, <1>6, NotSlotted
<1>8. /\ outer' \in Job_ /\ pc \in {"menu", "download"}
      /\ outer' = NoJob \/ (Waiting(outer') /\ j.by = "web")
  BY <1>0, <1>6, NoJobIs DEF FisTypeOK, Nested, Waiting
<1>9. PICK o : o = outer' /\ (o.by = "create" => Slotted(o))
  <2>1. CASE pc = "download"
    BY <1>0, <2>1 DEF Making, Ahead
  <2>2. CASE pc # "download"
    BY <1>0, <2>2, NoJobIs
  <2> QED
    BY <2>1, <2>2
<1> QED
  <2>1. UNCHANGED <<fis, rom, cells, synced, loaded, revived>>
    BY <1>0
  <2> QED
    BY <1>1, <1>6, <1>7, <1>8, <1>9, <2>1, AcceptOK

LEMMA WebRefusesOK ==
  ASSUME FisInv, NEW what, NEW f, WebRefuses(what, f)
  PROVE  FisInv'
<1>0. /\ FisTypeOK /\ Nested /\ Directories /\ BootKept /\ Making /\ Writing /\ AreaOK
      /\ pc \in {"menu", "download"} /\ mac' = "left" /\ outer = NoJob
      /\ UNCHANGED <<fis, rom, cells, synced, outer, k, loaded, revived>>
  BY DEF FisInv, WebRefuses, WebArrives, flash
<1>1. env' \in Setups
  BY EnvBegins DEF FisInv, FisTypeOK, WebRefuses, WebArrives
<1>2. MacOK' /\ Directories'
  BY <1>0, DirectoriesStay DEF MacOK
<1>3. CASE UNCHANGED <<pc, job>>
  <2>1. FisTypeOK' /\ Nested'
    BY <1>0, <1>1, <1>3 DEF FisTypeOK, Nested
  <2>2. BootKept' /\ Making'
    BY <1>0, <1>3, BootStays, MakingStays
  <2>3. Writing' /\ AreaOK'
    BY <1>0, <1>3 DEF Writing, AreaOK, Holding, Data
  <2> QED
    BY <1>2, <2>1, <2>2, <2>3 DEF FisInv
<1>4. CASE pc' = "off" /\ job' = NoJob
  <2>1. FisTypeOK' /\ Nested'
    BY <1>0, <1>1, <1>4, NoJobIs DEF FisTypeOK, Nested
  <2>2. BootKept' /\ Making' /\ Writing' /\ AreaOK'
    BY <1>0, <1>4, NoJobIs DEF BootKept, Making, Ahead, Writing, AreaOK
  <2> QED
    BY <1>2, <2>1, <2>2 DEF FisInv
<1> QED
  BY <1>3, <1>4 DEF WebRefuses

\* What erasing, programming or spoiling a cell changes.
LEMMA CellIs ==
  ASSUME FisTypeOK, Directories, UNCHANGED <<fis, revived>>, NEW x \in Int, NEW c \in Content,
         NEW d \in {Blank, Default, Rubbish}, Cell(x, c, d)
  PROVE  /\ rom' \in Directory /\ cells' \in [Cells -> Content] /\ synced' \in BOOLEAN
         /\ Directories' /\ (UNCHANGED <<rom, synced>> \/ synced' = FALSE)
         /\ \A y \in Cells : y # x => cells'[y] = cells[y]
         /\ x \in Cells /\ x # FisAddr => cells'[x] = c
<1>1. CASE x = FisAddr
  <2>1. rom' = d /\ synced' = FALSE /\ cells' = cells
    BY <1>1 DEF Cell
  <2>2. rom' \in Directory /\ Reached(rom') /\ Unique(rom')
    BY <2>1, BlankIs, DefaultIs, DefaultSound
  <2> QED
    BY <1>1, <2>1, <2>2 DEF FisTypeOK, Directories
<1>2. CASE x # FisAddr
  <2>1. cells' = [cells EXCEPT ![x] = c] /\ UNCHANGED <<rom, synced>>
    BY <1>2 DEF Cell
  <2>2. /\ cells' \in [Cells -> Content]
        /\ \A y \in Cells : y # x => cells'[y] = cells[y]
        /\ x \in Cells => cells'[x] = c
    BY <2>1 DEF FisTypeOK
  <2> QED
    BY <2>1, <2>2, DirectoriesStay DEF FisTypeOK
<1> QED
  BY <1>1, <1>2

\* The numbers of the operation.
LEMMA JobNumbers ==
  ASSUME FisTypeOK
  PROVE  /\ job.dest \in Nat /\ job.erase \in Nat /\ job.max \in Nat /\ job.file \in Files
         /\ job.file.len \in Nat /\ k \in Nat /\ job.try \in Nat /\ job.n \in Nat
BY DEF FisTypeOK, Job_, Files

LEMMA ContentIs ==
  /\ BLANK \in Content /\ BROKEN \in Content
  /\ \A i \in Nat : FisTypeOK => Data(i) \in Content
<1>1. BLANK \in Content /\ BROKEN \in Content
  BY DEF BLANK, BROKEN, Content
<1>2. ASSUME NEW i \in Nat, FisTypeOK PROVE Data(i) \in Content
  <2>1. job.n \in Nat /\ i \in Int
    BY <1>2, JobNumbers
  <2> QED
    BY <2>1 DEF Data, Content
<1> QED
  BY <1>1, <1>2

\* The parts of the invariant that a step within the area leaves alone.
LEMMA AreaFrame ==
  ASSUME FisInv, pc \in {"eraseArea", "programArea"},
         pc' \in {"eraseArea", "programArea", "update"},
         env' \in Setups, job' \in Job_, job' = job \/ SameJob(job', job), k' \in Nat,
         rom' \in Directory, cells' \in [Cells -> Content], synced' \in BOOLEAN, Directories',
         UNCHANGED <<rom, synced>> \/ synced' = FALSE, UNCHANGED <<fis, mac, outer, loaded, revived>>
  PROVE  FisTypeOK' /\ Nested' /\ BootKept' /\ Making' /\ Writing' /\ MacOK'
<1>0. /\ FisTypeOK /\ Nested /\ BootKept /\ Making /\ Writing /\ MacOK
  BY DEF FisInv
<1>1. FisTypeOK'
  BY <1>0 DEF FisTypeOK
<1>2. Nested'
  BY <1>0 DEF Nested, SameJob
<1>3. BootKept' /\ Making'
  BY <1>0, BootStays, MakingStays DEF Ahead
<1>4. Writing' /\ MacOK'
  BY <1>0 DEF Writing, MacOK
<1> QED
  BY <1>1, <1>2, <1>3, <1>4

LEMMA EraseCellOK ==
  ASSUME FisInv, EraseCell
  PROVE  FisInv'
<1>0. /\ FisTypeOK /\ Directories /\ AreaOK /\ pc = "eraseArea" /\ pc' = "eraseArea" /\ k < job.erase
      /\ k' = k + 1 /\ Cell(job.dest + k, BLANK, Blank)
      /\ UNCHANGED <<env, fis, mac, job, outer, loaded, revived>>
  BY DEF FisInv, EraseCell
<1>1. PICK x \in Int : x = job.dest + k
  BY <1>0, JobNumbers
<1>2. /\ rom' \in Directory /\ cells' \in [Cells -> Content] /\ synced' \in BOOLEAN
      /\ Directories' /\ (UNCHANGED <<rom, synced>> \/ synced' = FALSE)
      /\ \A y \in Cells : y # x => cells'[y] = cells[y]
      /\ x \in Cells /\ x # FisAddr => cells'[x] = BLANK
  BY <1>0, <1>1, CellIs, ContentIs
<1>3. k' \in Nat /\ env' \in Setups /\ job' \in Job_ /\ job' = job
  BY <1>0, JobNumbers DEF FisTypeOK
<1>4. FisTypeOK' /\ Nested' /\ BootKept' /\ Making' /\ Writing' /\ MacOK'
  BY <1>0, <1>2, <1>3, AreaFrame
<1>5. Fitting /\ Fitting'
  BY <1>0 DEF AreaOK, Fitting
<1>6. k' <= job.erase
  BY <1>0, JobNumbers
<1>7. ASSUME NEW i \in 0 .. job.file.len - 1, i < k'
      PROVE  Holding(i, BLANK)'
  <2>1. i \in Nat /\ job.dest + i \in Cells
    BY <1>0, <1>5, JobNumbers, Sizes DEF Fitting, Cells
  <2>2. CASE i = k
    BY <1>0, <1>1, <1>2, <2>1, <2>2 DEF Holding
  <2>3. CASE i # k
    <3>1. Holding(i, BLANK)
      BY <1>0, <1>7, <2>1, <2>3, JobNumbers DEF AreaOK
    <3>2. job.dest + i # x
      BY <1>0, <1>1, <2>1, <2>3, JobNumbers
    <3> QED
      BY <1>0, <1>2, <2>1, <3>1, <3>2 DEF Holding
  <2> QED
    BY <2>2, <2>3
<1>8. AreaOK'
  BY <1>0, <1>5, <1>6, <1>7 DEF AreaOK
<1> QED
  BY <1>2, <1>4, <1>8 DEF FisInv

LEMMA EraseDoneOK ==
  ASSUME FisInv, EraseDone
  PROVE  FisInv'
<1>0. /\ FisTypeOK /\ Directories /\ AreaOK /\ pc = "eraseArea" /\ pc' = "programArea"
      /\ k = job.erase /\ k' = 0
      /\ UNCHANGED <<env, fis, rom, cells, synced, mac, job, outer, loaded, revived>>
  BY DEF FisInv, EraseDone, flash
<1>1. Directories' /\ k' \in Nat /\ env' \in Setups /\ job' \in Job_ /\ job' = job
      /\ rom' \in Directory /\ cells' \in [Cells -> Content] /\ synced' \in BOOLEAN
  BY <1>0, DirectoriesStay DEF FisTypeOK
<1>2. FisTypeOK' /\ Nested' /\ BootKept' /\ Making' /\ Writing' /\ MacOK'
  BY <1>0, <1>1, AreaFrame
<1>3. Fitting /\ Fitting'
  BY <1>0 DEF AreaOK, Fitting
<1>4. ASSUME NEW i \in 0 .. job.file.len - 1
      PROVE  Holding(i, IF i < 0 THEN Data(i) ELSE BLANK)'
  <2>1. i < k /\ ~(i < 0)
    BY <1>0, <1>3, JobNumbers DEF Fitting
  <2>2. Holding(i, BLANK)
    BY <1>0, <2>1 DEF AreaOK
  <2> QED
    BY <1>0, <2>1, <2>2 DEF Holding
<1>5. k' <= job.file.len
  BY <1>0, JobNumbers
<1>6. AreaOK'
  BY <1>0, <1>3, <1>4, <1>5 DEF AreaOK
<1> QED
  BY <1>1, <1>2, <1>6 DEF FisInv

LEMMA ProgramCellOK ==
  ASSUME FisInv, ProgramCell
  PROVE  FisInv'
<1>0. /\ FisTypeOK /\ Directories /\ AreaOK /\ pc = "programArea" /\ pc' = "programArea"
      /\ k < job.file.len /\ k' = k + 1
      /\ Cell(job.dest + k, Put(cells[job.dest + k], Data(k), BROKEN, BLANK),
              IF job.file.dir /\ rom = Blank THEN Default ELSE Rubbish)
      /\ UNCHANGED <<env, fis, mac, job, outer, loaded, revived>>
  BY DEF FisInv, ProgramCell
<1>1. PICK x \in Int : x = job.dest + k
  BY <1>0, JobNumbers
<1>a. PICK c \in Content : c = Put(cells[x], Data(k), BROKEN, BLANK)
  BY <1>0, <1>1, ContentIs, JobNumbers DEF Put
<1>b. PICK d \in {Blank, Default, Rubbish} : d = IF job.file.dir /\ rom = Blank THEN Default ELSE Rubbish
  OBVIOUS
<1>2. /\ rom' \in Directory /\ cells' \in [Cells -> Content] /\ synced' \in BOOLEAN
      /\ Directories' /\ (UNCHANGED <<rom, synced>> \/ synced' = FALSE)
      /\ \A y \in Cells : y # x => cells'[y] = cells[y]
      /\ x \in Cells /\ x # FisAddr => cells'[x] = c
  BY <1>0, <1>1, <1>a, <1>b, CellIs
<1>3. k' \in Nat /\ env' \in Setups /\ job' \in Job_ /\ job' = job
  BY <1>0, JobNumbers DEF FisTypeOK
<1>4. FisTypeOK' /\ Nested' /\ BootKept' /\ Making' /\ Writing' /\ MacOK'
  BY <1>0, <1>2, <1>3, AreaFrame
<1>5. Fitting /\ Fitting'
  BY <1>0 DEF AreaOK, Fitting
<1>6. k' <= job.file.len
  BY <1>0, JobNumbers
<1>7. ASSUME NEW i \in 0 .. job.file.len - 1
      PROVE  Holding(i, IF i < k THEN Data(i) ELSE BLANK)'
  <2>1. i \in Nat /\ job.dest + i \in Cells
    BY <1>0, <1>5, JobNumbers, Sizes DEF Fitting, Cells
  <2>2. Holding(i, IF i < k THEN Data(i) ELSE BLANK)
    BY <1>0 DEF AreaOK
  <2>3. Data(i)' = Data(i)
    BY <1>0 DEF Data
  <2>4. CASE i = k
    <3>1. i < k' /\ ~(i < k)
      BY <1>0, <2>1, <2>4, JobNumbers
    <3>2. x = FisAddr \/ cells[x] = BLANK
      BY <1>1, <2>2, <2>4, <3>1 DEF Holding
    <3>3. x # FisAddr => c = Data(i)
      BY <1>a, <2>4, <3>2 DEF Put
    <3> QED
      BY <1>0, <1>1, <1>2, <2>1, <2>3, <2>4, <3>1, <3>3 DEF Holding
  <2>5. CASE i # k
    <3>1. i < k' <=> i < k
      BY <1>0, <2>1, <2>5, JobNumbers
    <3>2. job.dest + i # x
      BY <1>0, <1>1, <2>1, <2>5, JobNumbers
    <3> QED
      BY <1>0, <1>2, <2>1, <2>2, <2>3, <3>1, <3>2 DEF Holding
  <2> QED
    BY <2>4, <2>5
<1>8. AreaOK'
  BY <1>0, <1>5, <1>6, <1>7 DEF AreaOK
<1> QED
  BY <1>2, <1>4, <1>8 DEF FisInv

LEMMA ProgramDoneOK ==
  ASSUME FisInv, ProgramDone
  PROVE  FisInv'
<1>0. /\ FisTypeOK /\ Directories /\ AreaOK /\ pc = "programArea" /\ pc' = "update"
      /\ k = job.file.len /\ k' = 0 /\ job' = [job EXCEPT !.stat = 0]
      /\ UNCHANGED <<env, fis, rom, cells, synced, mac, outer, loaded, revived>>
  BY DEF FisInv, ProgramDone, flash
<1>1. job' \in Job_ /\ SameJob(job', job)
  BY <1>0, JobStat DEF FisTypeOK
<1>2. Directories' /\ k' \in Nat /\ env' \in Setups
      /\ rom' \in Directory /\ cells' \in [Cells -> Content] /\ synced' \in BOOLEAN
  BY <1>0, DirectoriesStay DEF FisTypeOK
<1>3. FisTypeOK' /\ Nested' /\ BootKept' /\ Making' /\ Writing' /\ MacOK'
  BY <1>0, <1>1, <1>2, AreaFrame
<1>4. job'.file = job.file
  BY <1>1 DEF SameJob
<1>5. ASSUME NEW i \in 0 .. job'.file.len - 1
      PROVE  Holding(i, Data(i))'
  <2>1. i \in 0 .. job.file.len - 1 /\ i < k
    BY <1>0, <1>4, <1>5, JobNumbers
  <2>2. Holding(i, Data(i))
    BY <1>0, <2>1 DEF AreaOK
  <2> QED
    BY <1>0, <1>1, <2>2, HeldStays
<1>6. AreaOK'
  BY <1>0, <1>5 DEF AreaOK
<1> QED
  BY <1>2, <1>3, <1>6 DEF FisInv

LEMMA AreaFailsOK ==
  ASSUME FisInv, AreaFails
  PROVE  FisInv'
<1>0. /\ FisTypeOK /\ Directories /\ AreaOK /\ pc \in {"eraseArea", "programArea"}
      /\ MayFail(job.dest + k) /\ k' = 0 /\ Again(job)
      /\ UNCHANGED <<fis, mac, outer, loaded, revived>>
  BY DEF FisInv, AreaFails
<1>1. env' \in Setups /\ k' \in Nat
  BY <1>0, EnvFails DEF FisTypeOK
<1>2. /\ rom' \in Directory /\ cells' \in [Cells -> Content] /\ synced' \in BOOLEAN
      /\ Directories' /\ (UNCHANGED <<rom, synced>> \/ synced' = FALSE)
  <2>1. CASE UNCHANGED flash
    BY <1>0, <2>1, DirectoriesStay DEF FisTypeOK, flash
  <2>2. CASE Cell(job.dest + k, BROKEN, Rubbish)
    <3>1. PICK x \in Int : x = job.dest + k
      BY <1>0, JobNumbers
    <3> QED
      BY <1>0, <2>2, <3>1, CellIs, ContentIs
  <2> QED
    BY <2>1, <2>2 DEF AreaFails
<1>3. /\ job' \in Job_ /\ (job' = job \/ SameJob(job', job)) /\ job'.stat = job.stat
      /\ pc' \in {"eraseArea", "update"}
  <2>1. CASE job.try + 1 < UPGRADE_RETRY_TIME
    <3>1. PICK t \in Nat : t = job.try + 1
      BY <1>0, JobNumbers
    <3>2. job' = [job EXCEPT !.try = t] /\ pc' = "eraseArea"
      BY <1>0, <2>1, <3>1 DEF Again
    <3> QED
      BY <1>0, <3>2, JobTry DEF FisTypeOK
  <2>2. CASE ~(job.try + 1 < UPGRADE_RETRY_TIME)
    BY <1>0, <2>2 DEF Again, FisTypeOK
  <2> QED
    BY <2>1, <2>2
<1>4. FisTypeOK' /\ Nested' /\ BootKept' /\ Making' /\ Writing' /\ MacOK'
  BY <1>0, <1>1, <1>2, <1>3, AreaFrame
<1>5. Fitting /\ Fitting' /\ job'.stat = 1
  BY <1>0, <1>3 DEF AreaOK, Fitting, SameJob
<1>6. AreaOK'
  <2>1. PICK j \in Job_ : j = job'
    BY <1>3
  <2>2. j.erase \in Nat /\ j.file.len \in Nat
    BY DEF Job_, Files
  <2>3. (\A i \in 0 .. job'.file.len - 1 : ~(i < 0)) /\ 0 <= job'.erase
    BY <2>1, <2>2
  <2> QED
    BY <1>0, <1>3, <1>5, <2>3 DEF AreaOK
<1> QED
  BY <1>2, <1>4, <1>6 DEF FisInv

\* The directory is brought up to date: names stay, and an entry only becomes
\* valid, which revived records.
KeepsNames ==
  /\ \A s \in Slots : fis'[s].name = fis[s].name /\ (fis[s].sum => fis'[s].sum)
  /\ ~revived' => ~revived /\ \A s \in Slots : fis'[s].sum => fis[s].sum

LEMMA BootAtKept ==
  ASSUME KeepsNames, NEW b \in Slots, BootAt(b)
  PROVE  BootAt(b)'
<1>1. 1 .. b \subseteq Slots
  BY Sizes DEF Slots
<1> QED
  BY <1>1 DEF KeepsNames, BootAt

LEMMA SlottedKept ==
  ASSUME KeepsNames, UNCHANGED loaded, NEW i, NEW j, Slotted(i),
         i.by = j.by, i.slot = j.slot, i.name = j.name
  PROVE  Slotted(j)'
<1>1. SUFFICES ASSUME j.by = "create"
               PROVE  Slotted(j)'
  BY DEF Slotted
<1>2. /\ j.slot \in Slots /\ j.name \in Names
      /\ \A x \in 1 .. j.slot - 1 : fis[x].name # FREE
      /\ ~revived => \A x \in Slots \ {j.slot} : Valid(fis[x]) => fis[x].name # j.name
      /\ ~loaded => j.name = "BOOT" \/ \E b \in Slots \ {j.slot} : BootAt(b)
  BY <1>1 DEF Slotted
<1>3. 1 .. j.slot - 1 \subseteq Slots
  BY <1>2, Sizes DEF Slots
<1>4. \A x \in 1 .. j.slot - 1 : fis'[x].name # FREE
  BY <1>2, <1>3 DEF KeepsNames
<1>5. ~revived' => \A x \in Slots \ {j.slot} : Valid(fis'[x]) => fis'[x].name # j.name
  BY <1>2 DEF KeepsNames, Valid
<1>6. ~loaded' => j.name = "BOOT" \/ \E b \in Slots \ {j.slot} : BootAt(b)'
  BY <1>2, BootAtKept
<1> QED
  BY <1>2, <1>4, <1>5, <1>6 DEF Slotted

\* The new directory of an upgrade.
LEMMA UpdatedIs ==
  ASSUME FisTypeOK, Directories, NEW hit \in SUBSET Slots, hit = {i \in Slots : fis[i].base = job.dest},
         fis' = [i \in Slots |-> IF i \in hit THEN Updated(fis[i]) ELSE fis[i]],
         revived' = (revived \/ \E i \in hit : ~fis[i].sum), UNCHANGED rom
  PROVE  fis' \in Directory /\ KeepsNames /\ Directories'
<1>0. \A i \in Slots : fis[i] \in Entry_
  BY DEF FisTypeOK, Directory
<1>1. ASSUME NEW i \in hit
      PROVE  /\ fis'[i] \in Entry_ /\ fis'[i].name = fis[i].name /\ fis'[i].sum
             /\ fis'[i].base = fis[i].base /\ fis[i].base \in Nat /\ fis'[i].size \in Nat
  <2>1. job.dest \in Nat /\ job.max \in Nat /\ job.file.len \in Nat
    BY JobNumbers
  <2>2. PICK l \in Nat, z \in Nat : /\ l = (IF job.by = "web" THEN job.max ELSE job.file.len)
                                    /\ z = (IF job.by = "web" THEN job.file.len ELSE job.max)
    BY <2>1
  <2>3. PICK e \in Entry_ : e = fis[i] /\ e.base = job.dest
    BY <1>0, <1>1
  <2>4. fis'[i] = [e EXCEPT !.len = l, !.size = z, !.sum = TRUE]
    BY <1>1, <2>2, <2>3 DEF Updated
  <2>5. l \in Int /\ z \in Int
    BY <2>2
  <2>6. /\ fis'[i] \in Entry_ /\ fis'[i].name = e.name /\ fis'[i].sum
        /\ fis'[i].base = e.base /\ fis'[i].size = z
    <3>1. PICK u : u = fis'[i]
      OBVIOUS
    <3>2. u = [e EXCEPT !.len = l, !.size = z, !.sum = TRUE]
      BY <2>4, <3>1
    <3>3. u \in Entry_ /\ u.name = e.name /\ u.base = e.base /\ u.size = z /\ u.sum
      BY <2>3, <2>5, <3>2 DEF Entry_
    <3> QED
      BY <3>1, <3>3
  <2> QED
    BY <2>1, <2>2, <2>3, <2>6
<1>2. \A i \in Slots : i \notin hit => fis'[i] = fis[i]
  OBVIOUS
<1>3. fis' \in Directory
  <2>1. \A i \in Slots : fis'[i] \in Entry_
    BY <1>0, <1>1, <1>2
  <2> QED
    BY <2>1 DEF Directory
<1>4. KeepsNames
  BY <1>1, <1>2 DEF KeepsNames, FisTypeOK
<1>5. Reached(fis')
  <2>1. ASSUME NEW i \in Slots, Valid(fis'[i]) \/ fis'[i].base >= 0
        PROVE  \A j \in 1 .. i : fis'[j].name # FREE
    <3>1. Valid(fis[i]) \/ fis[i].base >= 0
      BY <1>1, <1>2, <2>1
    <3>2. 1 .. i \subseteq Slots
      BY Sizes DEF Slots
    <3> QED
      BY <1>4, <3>1, <3>2 DEF Directories, Reached, KeepsNames
  <2>2. ASSUME NEW i \in Slots, Valid(fis'[i])
        PROVE  fis'[i].base \in Nat /\ fis'[i].size \in Nat
    <3>1. CASE i \in hit
      BY <1>1, <3>1
    <3>2. CASE i \notin hit
      BY <1>2, <2>2, <3>2 DEF Directories, Reached
    <3> QED
      BY <3>1, <3>2
  <2> QED
    BY <2>1, <2>2 DEF Reached
<1>6. ~revived' => ~revived /\ (Unique(fis) => Unique(fis'))
  BY <1>4 DEF KeepsNames, Unique, Valid
<1> QED
  BY <1>3, <1>4, <1>5, <1>6 DEF Directories

LEMMA UpdateOK ==
  ASSUME FisInv, Update
  PROVE  FisInv'
<1>0. /\ FisTypeOK /\ Nested /\ Directories /\ BootKept /\ Making /\ Writing /\ AreaOK /\ MacOK
      /\ pc = "update" /\ UNCHANGED <<env, rom, cells, synced, mac, outer, loaded>>
  BY DEF FisInv, Update, flash
<1>1. CASE ~(job.file.len > 0 /\ ~Whole /\ (job.by = "web" \/ job.dest # FisAddr))
  <2>0. pc' = "tail" /\ k' = 0 /\ UNCHANGED <<fis, job, revived>>
    BY <1>1 DEF Update
  <2>1. FisTypeOK' /\ Nested'
    BY <1>0, <2>0 DEF FisTypeOK, Nested
  <2>2. Directories' /\ BootKept' /\ Making'
    BY <1>0, <2>0, DirectoriesStay, BootStays, MakingStays DEF Ahead
  <2>3. Writing' /\ AreaOK' /\ MacOK'
    BY <1>0, <2>0 DEF Writing, AreaOK, Holding, Data, MacOK
  <2> QED
    BY <2>1, <2>2, <2>3 DEF FisInv
<1>2. CASE job.file.len > 0 /\ ~Whole /\ (job.by = "web" \/ job.dest # FisAddr)
  <2>1. PICK hit : hit = {i \in Slots : fis[i].base = job.dest}
    OBVIOUS
  <2>2. /\ fis' = [i \in Slots |-> IF i \in hit THEN Updated(fis[i]) ELSE fis[i]]
        /\ revived' = (revived \/ \E i \in hit : ~fis[i].sum)
        /\ job' = [job EXCEPT !.then = "tail"] /\ pc' = "erase" /\ k' = 1
    BY <1>2, <2>1 DEF Update, Write
  <2>3. fis' \in Directory /\ KeepsNames /\ Directories'
    BY <1>0, <2>1, <2>2, UpdatedIs
  <2>4. job' \in Job_ /\ SameJob(job', job) /\ job'.stat = job.stat /\ job'.then = "tail"
    BY <1>0, <2>2, JobThen DEF FisTypeOK
  <2>5. FisTypeOK'
    <3>1. revived' \in BOOLEAN
      BY <2>2
    <3> QED
      BY <1>0, <2>2, <2>3, <2>4, <3>1 DEF FisTypeOK
  <2>6. Nested'
    BY <1>0, <2>2, <2>4 DEF Nested, SameJob
  <2>7. BootKept'
    BY <1>0, <2>3, BootAtKept DEF BootKept
  <2>8. Making'
    <3>1. PICK i, j, o : i = job /\ j = job' /\ o = outer
      OBVIOUS
    <3>2. i.by = j.by /\ i.slot = j.slot /\ i.name = j.name
      BY <2>4, <3>1 DEF SameJob
    <3>3. Slotted(i)
      BY <1>0, <3>1 DEF Making, Ahead
    <3>4. Slotted(j)'
      BY <1>0, <2>3, <3>2, <3>3, SlottedKept
    <3>5. o.by = "create" => Slotted(o)'
      BY <1>0, <2>3, <3>1, SlottedKept DEF Making
    <3> QED
      BY <1>0, <3>1, <3>4, <3>5 DEF Making
  <2>9. Writing' /\ MacOK'
    BY <1>0, <2>2, <2>4 DEF Writing, MacOK
  <2>10. AreaOK'
    <3>1. ASSUME job'.by # "none", job'.stat = 0, NEW i \in 0 .. job'.file.len - 1
          PROVE  Holding(i, Data(i))'
      <4>1. job.by # "none" /\ job.stat = 0 /\ job'.file = job.file
        BY <2>4, <3>1 DEF SameJob
      <4>2. i \in 0 .. job.file.len - 1
        BY <3>1, <4>1
      <4>3. Holding(i, Data(i))
        BY <1>0, <4>1, <4>2 DEF AreaOK
      <4> QED
        BY <1>0, <2>4, <4>3, HeldStays
    <3> QED
      BY <2>2, <3>1 DEF AreaOK
  <2> QED
    BY <2>3, <2>5, <2>6, <2>7, <2>8, <2>9, <2>10 DEF FisInv
<1> QED
  BY <1>1, <1>2

\* fis_ui_create_image makes its entry.
LEMMA EntryMade ==
  ASSUME FisInv, pc = "tail", job.by = "create", mac' = "on",
         fis' = [fis EXCEPT ![job.slot] = Entry(job.name, job.dest, job.size, job.size, TRUE)],
         job' = [job EXCEPT !.then = "end"], pc' = "erase", k' = 1,
         UNCHANGED <<env, rom, cells, outer, synced, loaded, revived>>
  PROVE  FisInv'
<1>0. /\ FisTypeOK /\ Nested /\ Directories /\ BootKept /\ Slotted(job) /\ AreaOK
      /\ outer = NoJob
  BY DEF FisInv, Making, Ahead, Nested
<1>1. PICK s, name, dest, size : s = job.slot /\ name = job.name /\ dest = job.dest /\ size = job.size
  OBVIOUS
<1>2. dest \in Nat /\ size \in Nat /\ s \in Slots /\ name \in Names /\ name \notin {FREE, ZERO}
  BY <1>0, <1>1, FisAssumption DEF FisTypeOK, Job_, Slotted
<1>3. PICK e \in Entry_ : /\ e = Entry(name, dest, size, size, TRUE) /\ e.name = name /\ e.sum
                          /\ e.base = dest /\ e.size = size
  <2>1. /\ Entry(name, dest, size, size, TRUE) \in Entry_
        /\ Entry(name, dest, size, size, TRUE).name = name
        /\ Entry(name, dest, size, size, TRUE).sum
        /\ Entry(name, dest, size, size, TRUE).base = dest
        /\ Entry(name, dest, size, size, TRUE).size = size
    BY <1>2 DEF Entry, Entry_
  <2> QED
    BY <2>1
<1>4. /\ \A i \in 1 .. s - 1 : fis[i].name # FREE
      /\ ~revived => \A i \in Slots \ {s} : Valid(fis[i]) => fis[i].name # e.name
      /\ ~loaded => e.name = "BOOT" \/ \E b \in Slots \ {s} : BootAt(b)
  BY <1>0, <1>1, <1>3 DEF Slotted
<1>5. /\ fis' \in Directory /\ Reached(fis') /\ (~revived => Unique(fis'))
      /\ fis'[s] = e /\ \A i \in Slots : i # s => fis'[i] = fis[i]
  <2>1. PICK t \in Directory : t = fis
    BY <1>0 DEF FisTypeOK
  <2>2. Reached(t) /\ fis' = [t EXCEPT ![s] = e] /\ e.name # FREE
        /\ e.base \in Nat /\ e.size \in Nat
    BY <1>0, <1>1, <1>2, <1>3, <2>1 DEF Directories
  <2>3. \A i \in 1 .. s - 1 : t[i].name # FREE
    BY <1>4, <2>1
  <2>4. /\ fis' \in Directory /\ Reached(fis')
        /\ Unique(t) /\ (Valid(e) => \A i \in Slots \ {s} : Valid(t[i]) => t[i].name # e.name) =>
             Unique(fis')
    <3>1. /\ [t EXCEPT ![s] = e] \in Directory /\ Reached([t EXCEPT ![s] = e])
          /\ Unique(t) /\ (Valid(e) => \A i \in Slots \ {s} : Valid(t[i]) => t[i].name # e.name) =>
               Unique([t EXCEPT ![s] = e])
      BY <1>2, <2>2, <2>3, PutSound
    <3> QED
      BY <2>2, <3>1
  <2>5. ~revived => Unique(fis')
    BY <1>0, <1>4, <2>1, <2>4 DEF Directories
  <2>6. fis'[s] = e /\ \A i \in Slots : i # s => fis'[i] = fis[i]
    BY <1>2, <2>2, <2>1 DEF Directory
  <2> QED
    BY <2>4, <2>5, <2>6
<1>6. job' \in Job_ /\ SameJob(job', job) /\ job'.stat = job.stat /\ job'.then = "end"
  BY <1>0, JobThen DEF FisTypeOK
<1>7. FisTypeOK' /\ Nested'
  BY <1>0, <1>5, <1>6 DEF FisTypeOK, Nested
<1>8. Directories'
  BY <1>0, <1>5 DEF Directories
<1>9. BootKept'
  <2>1. SUFFICES ASSUME ~loaded
                 PROVE  \E b \in Slots : BootAt(b)'
    BY DEF BootKept
  <2>2. \A i \in Slots : 1 .. i \subseteq Slots
    BY Sizes DEF Slots
  <2>3. CASE e.name = "BOOT"
    <3>1. \A i \in 1 .. s : i = s \/ i \in 1 .. s - 1
      BY <1>2, Sizes DEF Slots
    <3>2. \A i \in 1 .. s : fis'[i].name # FREE
      BY <1>2, <1>3, <1>4, <1>5, <2>2, <3>1
    <3>3. BootAt(s)'
      BY <1>3, <1>5, <2>3, <3>2 DEF BootAt
    <3> QED
      BY <1>2, <3>3
  <2>4. CASE e.name # "BOOT"
    <3>1. PICK b \in Slots \ {s} : BootAt(b)
      BY <1>4, <2>1, <2>4
    <3>2. \A i \in 1 .. b : fis'[i].name # FREE
      BY <1>2, <1>3, <1>5, <2>2, <3>1 DEF BootAt
    <3>3. BootAt(b)'
      BY <1>5, <3>1, <3>2 DEF BootAt
    <3> QED
      BY <3>3
  <2> QED
    BY <2>3, <2>4
<1>10. Making' /\ Writing' /\ MacOK'
  BY <1>0, <1>6, NoJobIs DEF Making, Ahead, Writing, MacOK
<1>11. AreaOK'
  <2>1. ASSUME job'.by # "none", job'.stat = 0, NEW i \in 0 .. job'.file.len - 1
        PROVE  Holding(i, Data(i))'
    <3>1. job.by # "none" /\ job.stat = 0 /\ job'.file = job.file
      BY <1>6, <2>1 DEF SameJob
    <3>2. i \in 0 .. job.file.len - 1
      BY <2>1, <3>1
    <3>3. Holding(i, Data(i))
      BY <1>0, <3>1, <3>2 DEF AreaOK
    <3> QED
      BY <1>6, <3>3, HeldStays
  <2> QED
    BY <2>1 DEF AreaOK
<1> QED
  BY <1>7, <1>8, <1>9, <1>10, <1>11 DEF FisInv

LEMMA TailOK ==
  ASSUME FisInv, Tail
  PROVE  FisInv'
<1>0. /\ FisTypeOK /\ Nested /\ Directories /\ BootKept /\ Making /\ Writing /\ AreaOK /\ MacOK
      /\ pc = "tail" /\ mac' = "on" /\ UNCHANGED <<env, rom, cells, revived>>
  BY DEF FisInv, Tail
<1>1. PICK j \in Job_ : /\ j = [job EXCEPT !.then = "end"] /\ SameJob(j, job) /\ j.then = "end"
                        /\ j.stat = job.stat
  BY <1>0, JobThen DEF FisTypeOK
<1>2. CASE job.by # "create" \/ job.stat # 0 \/ job.file.len = 0
  <2>1. Finish(j) /\ UNCHANGED <<fis, synced, loaded>>
    BY <1>1, <1>2 DEF Tail
  <2>2. /\ pc \in {"download", "erase", "write", "tail"}
        /\ UNCHANGED <<fis, cells, revived, loaded>>
        /\ j.by # "none" /\ j.stat = 0 => SameJob(j, job) /\ job.stat = 0 /\ pc # "download"
    BY <1>0, <1>1, <2>1
  <2>3. /\ pc' \in {"menu", "download"} /\ job' \in Job_ /\ outer' \in Job_ /\ k' \in Nat
        /\ Nested' /\ BootKept' /\ Making' /\ AreaOK'
    BY <2>1, <2>2, FinishOK
  <2>4. FisTypeOK' /\ Writing' /\ MacOK'
    BY <1>0, <2>1, <2>3 DEF FisTypeOK, Writing, MacOK
  <2>5. Directories'
    BY <1>0, <2>1, DirectoriesStay
  <2> QED
    BY <2>3, <2>4, <2>5 DEF FisInv
<1>3. CASE job.by = "create" /\ job.stat = 0 /\ job.file.len # 0
           /\ job.name = "DIR" /\ job.file.len <= FisSize
  <2>1. /\ fis' = rom /\ synced' = TRUE /\ loaded' = TRUE /\ Finish(j)
        /\ outer = NoJob
    BY <1>0, <1>1, <1>3 DEF Tail, Nested
  <2>2. pc' = "menu" /\ job' = j /\ outer' = NoJob /\ k' = 0
    BY <2>1, NoJobIs DEF Finish
  <2>3. FisTypeOK' /\ Nested'
    BY <1>0, <1>1, <2>1, <2>2, NoJobIs DEF FisTypeOK, Nested
  <2>4. Directories' /\ BootKept' /\ Making' /\ Writing' /\ MacOK'
    BY <1>0, <2>1, <2>2, NoJobIs DEF Directories, BootKept, Making, Ahead, Writing, MacOK
  <2>5. AreaOK'
    <3>1. ASSUME job'.by # "none", job'.stat = 0, NEW i \in 0 .. job'.file.len - 1
          PROVE  Holding(i, Data(i))'
      <4>1. job.by # "none" /\ job.stat = 0 /\ job'.file = job.file /\ SameJob(job', job)
        BY <1>1, <2>2, <3>1 DEF SameJob
      <4>2. i \in 0 .. job.file.len - 1
        BY <3>1, <4>1
      <4>3. Holding(i, Data(i))
        BY <1>0, <4>1, <4>2 DEF AreaOK
      <4> QED
        BY <1>0, <4>1, <4>3, HeldStays
    <3> QED
      BY <2>2, <3>1 DEF AreaOK
  <2> QED
    BY <2>3, <2>4, <2>5 DEF FisInv
<1>4. CASE job.by = "create" /\ job.stat = 0 /\ job.file.len # 0
           /\ ~(job.name = "DIR" /\ job.file.len <= FisSize)
  <2>1. /\ fis' = [fis EXCEPT ![job.slot] = Entry(job.name, job.dest, job.size, job.size, TRUE)]
        /\ job' = [job EXCEPT !.then = "end"] /\ pc' = "erase" /\ k' = 1
        /\ UNCHANGED <<outer, synced, loaded>>
    BY <1>4 DEF Tail, Write
  <2> QED
    BY <1>0, <1>4, <2>1, EntryMade
<1> QED
  BY <1>2, <1>3, <1>4
-----------------------------------------------------------------------------
(* Power failures                                                           *)

\* What is left of an entry whose programming is cut short.
LEMMA TornIs ==
  ASSUME NEW f \in Entry_, NEW e \in Torn(f)
  PROVE  e \in Entry_ /\ ~e.sum /\ (e.base < 0 \/ (e.base = f.base /\ e.name = f.name))
<1>1. PICK c \in Entry_ : c = [Free EXCEPT !.name = f.name] /\ c.name = f.name /\ c.base = -1 /\ ~c.sum
  <2>1. PICK g \in Entry_ : g = Free /\ g.base = -1 /\ ~g.sum
    BY SpecialEntries
  <2>2. f.name \in Names \cup {FREE, ZERO, "junk"}
    BY DEF Entry_
  <2>3. /\ [g EXCEPT !.name = f.name] \in Entry_ /\ [g EXCEPT !.name = f.name].name = f.name
        /\ [g EXCEPT !.name = f.name].base = -1 /\ ~[g EXCEPT !.name = f.name].sum
    BY <2>1, <2>2 DEF Entry_
  <2> QED
    BY <2>1, <2>3
<1>2. e \in {Free, Junk, c, [c EXCEPT !.base = f.base], [f EXCEPT !.sum = FALSE]}
  BY <1>1 DEF Torn
<1>3. CASE e \in {Free, Junk}
  BY <1>3, SpecialEntries
<1>4. CASE e = c
  BY <1>1, <1>4
<1>5. CASE e = [c EXCEPT !.base = f.base]
  BY <1>1, <1>5 DEF Entry_
<1>6. CASE e = [f EXCEPT !.sum = FALSE]
  BY <1>6 DEF Entry_
<1> QED
  BY <1>2, <1>3, <1>4, <1>5, <1>6

LEMMA PowerOffOK ==
  ASSUME FisInv, PowerOff
  PROVE  FisInv'
<1>0. /\ FisTypeOK /\ Directories
      /\ pc' = "off" /\ job' = NoJob /\ outer' = NoJob /\ k' = 0
      /\ UNCHANGED <<fis, mac, loaded, revived>>
  BY DEF FisInv, PowerOff
<1>1. env' \in Setups
  BY EnvCut DEF FisInv, FisTypeOK, PowerOff
<1>2. /\ rom' \in Directory /\ cells' \in [Cells -> Content] /\ synced' \in BOOLEAN
      /\ Directories'
  <2>1. CASE UNCHANGED flash
    BY <1>0, <2>1, DirectoriesStay DEF FisTypeOK, flash
  <2>2. CASE rom' = Rubbish /\ synced' = FALSE /\ UNCHANGED cells
    BY <1>0, <2>2, BlankIs DEF Directories, FisTypeOK
  <2>3. CASE /\ pc = "write" /\ k <= Entries
             /\ \E e \in Torn(fis[k]) : rom' = [rom EXCEPT ![k] = e]
             /\ UNCHANGED <<cells, synced>>
    <3>1. PICK e \in Torn(fis[k]) : rom' = [rom EXCEPT ![k] = e]
      BY <2>3
    <3>2. k \in Slots
      BY <2>3, Sizes DEF FisInv, Writing, Slots
    <3>3. PICK f \in Entry_ : f = fis[k]
      BY <1>0, <3>2 DEF FisTypeOK, Directory
    <3>4. e \in Entry_ /\ ~e.sum /\ (e.base < 0 \/ (e.base = f.base /\ e.name = f.name))
      BY <3>1, <3>3, TornIs
    <3>5. rom' \in Directory /\ Directories'
      BY <1>0, <2>3, <3>1, <3>3, <3>4, HalfWritten
    <3> QED
      BY <1>0, <2>3, <3>5 DEF FisTypeOK
  <2>4. CASE Cell(job.dest + k, BROKEN, Rubbish)
    <3>1. PICK x \in Int : x = job.dest + k
      BY <1>0, JobNumbers
    <3> QED
      BY <1>0, <2>4, <3>1, CellIs, ContentIs
  <2> QED
    BY <2>1, <2>2, <2>3, <2>4 DEF PowerOff
<1>3. FisTypeOK' /\ Nested'
  BY <1>0, <1>1, <1>2, NoJobIs DEF FisTypeOK, Nested
<1>4. BootKept' /\ Making' /\ Writing' /\ AreaOK' /\ MacOK'
  BY <1>0, NoJobIs DEF BootKept, Making, Ahead, Writing, AreaOK, MacOK
<1> QED
  BY <1>2, <1>3, <1>4 DEF FisInv

LEMMA FisStutter ==
  ASSUME FisInv, UNCHANGED vars
  PROVE  FisInv'
<1>1. UNCHANGED <<env, fis, rom, cells, mac, pc, job, outer, k, synced, loaded, revived>>
  BY DEF vars
<1>2. FisTypeOK' /\ Nested' /\ Writing' /\ MacOK'
  BY <1>1 DEF FisInv, FisTypeOK, Nested, Writing, MacOK
<1>3. Directories' /\ BootKept' /\ Making'
  BY <1>1, DirectoriesStay, BootStays, MakingStays DEF FisInv
<1>4. AreaOK'
  BY <1>1 DEF FisInv, AreaOK, Fitting, Holding, Data
<1> QED
  BY <1>2, <1>3, <1>4 DEF FisInv
-----------------------------------------------------------------------------
(* The theorems                                                             *)

LEMMA FisStep ==
  ASSUME FisInv, [Next]_vars
  PROVE  FisInv'
<1>0. /\ env.names \subseteq Names /\ env.files \subseteq Files
      /\ env.images \subseteq Names \cup {"FULL"}
      /\ env.creates \subseteq Names \X (0 .. FlashSize) \X Nat
  BY DEF FisInv, FisTypeOK, Setups
<1>1. CASE UNCHANGED vars
  BY <1>1, FisStutter
<1>2. CASE Work
  BY <1>2, BootOK, WriteEraseOK, WriteEntryOK, WriteDoneOK, WriteFailsOK, EraseCellOK, EraseDoneOK,
     ProgramCellOK, ProgramDoneOK, AreaFailsOK, UpdateOK, TailOK DEF Work
<1>3. CASE User
  BY <1>0, <1>3, DownloadOK, GiveUpOK DEF User
<1>4. CASE Reset \/ PowerOff \/ CreateDefault
  BY <1>4, ResetOK, PowerOffOK, CreateDefaultOK
<1>5. CASE \E name \in env.names : Delete(name)
  BY <1>0, <1>5, DeleteOK
<1>6. CASE \E c \in env.creates : Create(c[1], c[2], c[3])
  <2>1. PICK c \in Names \X (0 .. FlashSize) \X Nat : Create(c[1], c[2], c[3])
    BY <1>0, <1>6
  <2>2. PICK n \in Names, b \in 0 .. FlashSize, z \in Nat : Create(n, b, z)
    BY <2>1
  <2> QED
    BY <2>2, CreateOK
<1>7. CASE \E what \in env.images : Upgrade(what)
  BY <1>0, <1>7, UpgradeOK
<1>8. CASE \E what \in env.images, f \in env.files : Web(what, f) \/ WebRefuses(what, f)
  BY <1>0, <1>8, WebOK, WebRefusesOK
<1> QED
  BY <1>1, <1>2, <1>3, <1>4, <1>5, <1>6, <1>7, <1>8 DEF Next

LEMMA FisAlways == Spec => []FisInv
<1>1. Init => FisInv
  BY FisInit
<1>2. FisInv /\ [Next]_vars => FisInv'
  BY FisStep
<1> QED
  BY <1>1, <1>2, PTL DEF Spec

LEMMA SoundHere ==
  ASSUME FisInv
  PROVE  DirectorySound
<1>1. BootFound
  <2>1. SUFFICES ASSUME pc = "menu", ~loaded
                 PROVE  Find(fis, "BOOT") # {}
    BY DEF BootFound
  <2>2. PICK b \in Slots : BootAt(b)
    BY <2>1 DEF FisInv, BootKept
  <2>3. "BOOT" \in Names /\ fis \in Directory
    BY FisAssumption DEF FisInv, FisTypeOK
  <2> QED
    BY <2>2, <2>3, FindsOne DEF BootAt
<1>2. NothingHidden
  BY DEF FisInv, Directories, Reached, NothingHidden
<1>3. NamesUnique
  BY DEF FisInv, Directories, Unique, NamesUnique
<1> QED
  BY <1>1, <1>2, <1>3 DEF DirectorySound

\* The directory can be searched at every moment: at the menu fis_find_image
\* finds BOOT, in RAM and in flash no valid entry lies behind a free one, and no
\* two have one name, whatever is created, deleted or upgraded, wherever the
\* power is cut and whenever the chip fails (sys_fis.c, ui_upgrade.c).
THEOREM DirectoryAlwaysSound == Spec => []DirectorySound
<1>1. FisInv => DirectorySound
  BY SoundHere
<1> QED
  BY <1>1, FisAlways, PTL

LEMMA OverHere ==
  ASSUME FisInv
  PROVE  OperationOver
<1>1. InSync
  BY DEF FisInv, Writing, InSync
<1>2. Programmed
  <2>1. SUFFICES ASSUME pc = "menu", job.by # "none", job.stat = 0, NEW i \in 0 .. job.file.len - 1
                 PROVE  LET kind == IF job.dest = BootAddr /\ job.file.hdr = "good"
                                    THEN "body" ELSE "file"
                        IN  \/ job.dest + i = FisAddr
                            \/ cells[job.dest + i] = <<kind, job.n, i>>
                            \/ job.by = "web" /\ kind = "body"
    BY DEF Programmed
  <2>2. Holding(i, Data(i))
    BY <2>1 DEF FisInv, AreaOK
  <2> QED
    BY <2>2 DEF Holding, Data
<1>3. MacBack
  BY DEF FisInv, MacOK, MacBack
<1> QED
  BY <1>1, <1>2, <1>3 DEF OperationOver

\* At the menu the directory in RAM is the one in flash, unless the chip
\* reported an error or the user has programmed the sector; the file is in
\* flash if success was reported; and the MAC is on (ui_download, web_program,
\* fis_write_flash).
THEOREM OperationAlwaysOver == Spec => []OperationOver
<1>1. FisInv => OperationOver
  BY OverHere
<1> QED
  BY <1>1, FisAlways, PTL

LEMMA ConfinedStep ==
  ASSUME FisInv, [Next]_vars, NEW x \in Cells, cells'[x] # cells[x]
  PROVE  job.max = 0 \/ x \in job.dest .. job.dest + job.max - 1
<1>1. \/ EraseCell \/ ProgramCell
      \/ (AreaFails \/ PowerOff) /\ Cell(job.dest + k, BROKEN, Rubbish)
         /\ (\/ pc = "eraseArea" /\ k < job.erase
             \/ pc = "programArea" /\ k < job.file.len)
  BY DEF Next, Work, User, vars, flash, Boot, WriteErase, WriteEntry, WriteDone, WriteFails, EraseDone,
     ProgramDone, AreaFails, Update, Tail, Download, GiveUp, Reset, PowerOff, CreateDefault, Delete,
     Create, Upgrade, Web, WebRefuses
<1>2. /\ pc \in {"eraseArea", "programArea"}
      /\ k < job.erase \/ k < job.file.len
  BY <1>1 DEF EraseCell, ProgramCell
<1>3. x = job.dest + k
  <2>1. \A c, d, y : Cell(y, c, d) => x = y
    BY DEF FisInv, FisTypeOK, Cell
  <2> QED
    BY <1>1, <2>1 DEF EraseCell, ProgramCell
<1>4. /\ FisTypeOK /\ job.file.len <= job.erase /\ (job.max # 0 => job.erase = job.max)
  BY <1>2 DEF FisInv, AreaOK, Fitting
<1> QED
  BY <1>2, <1>3, <1>4, JobNumbers

\* Erasing and programming stay in the area that was looked up when the upgrade
\* began, even if a web upgrade has changed the entry since (ui_download,
\* web_program), except where the area has no size.
THEOREM AlwaysConfined == Spec => Confined
<1>1. FisInv /\ [Next]_vars =>
        [\A x \in Cells : cells'[x] # cells[x] =>
            job.max = 0 \/ x \in job.dest .. job.dest + job.max - 1]_vars
  BY ConfinedStep
<1> QED
  BY <1>1, FisAlways, PTL DEF Spec, Confined
=============================================================================
