---------------------------- MODULE XmodemProof ----------------------------
(***************************************************************************)
(* The XMODEM download delivers the file without a gap, and the two ends    *)
(* stay in step, for every length of file and buffer.                      *)
(***************************************************************************)
EXTENDS Xmodem, SequenceTheorems, TLAPS

-----------------------------------------------------------------------------
(* What keeps the two ends in step                                          *)

Answer == {"ACK", "NAK", "C"}

Items == [t : {"blk", "eot", "can", "noise"}, n : Nat,
          q : {"ok", "chksum", "frame", "cut"}]

XmodemTypeOK ==
  /\ pc \in {"open", "read", "ok", "failed"} /\ hdr \in {"enter", "scan", "copy"}
  /\ txAck \in BOOLEAN /\ crcMode \in BOOLEAN /\ pkt \in Nat
  /\ got \in Seq(1 .. Blocks) /\ line \in Seq(Items)
  /\ spc \in {"start", "wait", "done", "quit"} /\ sent \in 1 .. Blocks + 1

\* The last block in the caller's buffer.
LastGot == IF got = <<>> THEN 0 ELSE got[Len(got)]

\* The last block that Xmodem_read has taken, in the buffer or to be copied.
Top == IF hdr = "copy" THEN pkt ELSE LastGot

\* The blocks in the buffer are all those up to the last one.
AllThere == \A j \in 1 .. LastGot : \E i \in 1 .. Len(got) : got[i] = j

\* Stop and wait: a block or EOT on the line l is the last thing there, is what
\* the sender waits for, and no answer is under way (b) or due (a) meanwhile;
\* CAN is the last word of a sender.  The sender is at block s, in state w.
Fits(l, b, a, s, w) ==
  \A i \in 1 .. Len(l) :
    /\ l[i].t \in {"blk", "eot"} => i = Len(l) /\ b = <<>> /\ ~a /\ w = "wait"
    /\ l[i].t = "blk" => l[i].n = s /\ s <= Blocks
    /\ l[i].t = "eot" => s = Blocks + 1
    /\ l[i].t = "can" => w = "quit"

OneUnderWay ==
  /\ Fits(line, back, txAck, sent, spc)
  /\ back = <<>> \/ \E a \in Answer : back = <<a>>
  /\ txAck => back = <<>> /\ hdr # "scan"

\* Before the first block.
NotBegun ==
  /\ got = <<>> /\ sent = 1 /\ hdr # "copy" /\ ~txAck
  /\ back # <<"ACK">> /\ spc # "done"

\* The sender is at the block taken last, or at the next one once the ACK has
\* reached it.
InStep ==
  /\ Top \in 1 .. Blocks /\ sent \in {Top, Top + 1} /\ spc \in {"wait", "quit"}
  /\ nextBlk = (Top + 1) % BlkMod
  /\ back = <<"ACK">> \/ txAck => sent = Top
  /\ hdr = "copy" => pkt \in {LastGot, LastGot + 1}

XmodemInv ==
  /\ XmodemTypeOK /\ DeliveredWhole /\ AllThere
  /\ Receiving => OneUnderWay
  /\ pc = "open" => NotBegun
  /\ pc = "read" => InStep

-----------------------------------------------------------------------------
(* The line                                                                 *)

\* An empty line.
LEMMA FitsEmpty ==
  ASSUME NEW b, NEW a, NEW s, NEW w
  PROVE  Fits(<<>>, b, a, s, w)
  BY DEF Fits

\* One item leaves the line.
LEMMA FitsTail ==
  ASSUME NEW l \in Seq(Items), l # <<>>, NEW b, NEW a, NEW s, NEW w, Fits(l, b, a, s, w)
  PROVE  Tail(l) \in Seq(Items) /\ Fits(Tail(l), b, a, s, w)
<1>0. Tail(l) \in Seq(Items)
  OBVIOUS
<1>1. PICK k \in Seq(Items) : k = Tail(l)
  BY <1>0
<1>2. Len(k) = Len(l) - 1 /\ Len(l) \in Nat \ {0} /\ Len(k) \in Nat
  BY <1>1
<1>3. \A i \in 1 .. Len(k) : k[i] = l[i + 1] /\ i + 1 \in 1 .. Len(l)
  BY <1>1, <1>2
<1>4. \A i \in 1 .. Len(k) : i + 1 = Len(l) => i = Len(k)
  BY <1>2
<1> QED BY <1>1, <1>3, <1>4 DEF Fits

\* A block or EOT that has come to the front was alone.
LEMMA FitsReal ==
  ASSUME NEW l \in Seq(Items), l # <<>>, NEW b, NEW a, NEW s, NEW w, Fits(l, b, a, s, w),
         Head(l).t \in {"blk", "eot"}
  PROVE  /\ Tail(l) = <<>> /\ b = <<>> /\ ~a /\ w = "wait"
         /\ Head(l).t = "blk" => Head(l).n = s /\ s <= Blocks
         /\ Head(l).t = "eot" => s = Blocks + 1
<1>1. Head(l) = l[1] /\ 1 \in 1 .. Len(l)
  OBVIOUS
<1>2. 1 = Len(l) /\ b = <<>> /\ ~a /\ w = "wait"
  BY <1>1 DEF Fits
<1>3. Tail(l) \in Seq(Items) /\ Len(Tail(l)) = 0
  BY <1>2
<1>4. Tail(l) = <<>>
  BY <1>3, EmptySeq
<1> QED BY <1>1, <1>2, <1>4 DEF Fits

\* While an answer is under way or due there is neither a block nor EOT.
LEMMA FitsQuiet ==
  ASSUME NEW l \in Seq(Items), NEW b, NEW a, NEW s, NEW w, Fits(l, b, a, s, w),
         b # <<>> \/ a \/ l = <<>>
  PROVE  /\ \A i \in 1 .. Len(l) : l[i].t \notin {"blk", "eot"}
         /\ \A c, d, r : Fits(l, c, d, r, w)
<1>1. \A i \in 1 .. Len(l) : l[i].t \notin {"blk", "eot"}
  BY DEF Fits
<1> QED BY <1>1 DEF Fits

\* The sender transmits.
LEMMA FitsSent ==
  ASSUME NEW l \in Seq(Items), NEW b, NEW a, NEW s, NEW w, Fits(l, b, a, s, w),
         b # <<>> \/ a \/ l = <<>>, w # "quit", NEW n \in 1 .. Blocks + 1
  PROVE  /\ Append(l, Out(n)) \in Seq(Items)
         /\ Fits(Append(l, Out(n)), <<>>, FALSE, n, "wait")
<1>0. Blocks \in Nat
  BY XmodemAssumption
<1>a. PICK x : x = Out(n)
  OBVIOUS
<1>1. /\ x \in Items /\ x = Out(n) /\ x.t \in {"blk", "eot"}
      /\ x.t = "blk" => x.n = n /\ n <= Blocks
      /\ x.t = "eot" => n = Blocks + 1
  BY <1>0, <1>a DEF Out, Item, Items
<1>b. Append(l, x) \in Seq(Items)
  BY <1>1
<1>2. PICK k \in Seq(Items) : k = Append(l, x)
  BY <1>b
<1>3. /\ Len(k) = Len(l) + 1 /\ Len(l) \in Nat /\ k[Len(k)] = x
      /\ \A i \in 1 .. Len(l) : k[i] = l[i]
  BY <1>1, <1>2
<1>4. \A i \in 1 .. Len(l) : l[i].t \notin {"blk", "eot", "can"}
  BY FitsQuiet DEF Fits
<1>5. \A i \in 1 .. Len(k) : i = Len(k) \/ i \in 1 .. Len(l)
  BY <1>3
<1>6. Fits(k, <<>>, FALSE, n, "wait")
  BY <1>1, <1>3, <1>4, <1>5 DEF Fits
<1> QED BY <1>1, <1>2, <1>6

\* Nothing of either piece is a block or EOT, and so nothing of both.
LEMMA NoneInBoth ==
  ASSUME NEW l \in Seq(Items), NEW m \in Seq(Items),
         \A i \in 1 .. Len(l) : l[i].t \notin {"blk", "eot"},
         \A i \in 1 .. Len(m) : m[i].t \notin {"blk", "eot"}
  PROVE  /\ l \o m \in Seq(Items)
         /\ \A i \in 1 .. Len(l \o m) : (l \o m)[i].t \notin {"blk", "eot"}
<1>1. PICK x \in Nat, y \in Nat : x = Len(l) /\ y = Len(m)
  OBVIOUS
<1>2. l \o m \in Seq(Items) /\ Len(l \o m) = x + y
  BY <1>1, ConcatProperties
<1>3. \A i \in 1 .. x + y : (l \o m)[i] = IF i <= x THEN l[i] ELSE m[i - x]
  BY <1>1, ConcatProperties
<1>4. \A i \in 1 .. x + y : (i <= x => i \in 1 .. x) /\ (~(i <= x) => i - x \in 1 .. y)
  BY <1>1
<1> QED BY <1>1, <1>2, <1>3, <1>4

\* The sender gives up.
LEMMA FitsCans ==
  ASSUME NEW l \in Seq(Items), NEW b, NEW a, NEW s, NEW w, Fits(l, b, a, s, w),
         b # <<>> \/ a \/ l = <<>>, NEW c, NEW d, NEW r,
         NEW m, m = [i \in 1 .. CAN_COUNT |-> Item("can", 0, "ok")]
  PROVE  l \o m \in Seq(Items) /\ Fits(l \o m, c, d, r, "quit")
<1>a. PICK x : x = Item("can", 0, "ok")
  OBVIOUS
<1>1. x \in Items /\ x = Item("can", 0, "ok") /\ x.t = "can"
  BY <1>a DEF Item, Items
<1>2. m \in Seq(Items) /\ \A i \in 1 .. Len(m) : m[i].t \notin {"blk", "eot"}
  BY <1>1 DEF CAN_COUNT
<1>3. \A i \in 1 .. Len(l) : l[i].t \notin {"blk", "eot"}
  BY FitsQuiet
<1>4. /\ l \o m \in Seq(Items)
      /\ \A i \in 1 .. Len(l \o m) : (l \o m)[i].t \notin {"blk", "eot"}
  BY <1>2, <1>3, NoneInBoth
<1>5. PICK k : k = l \o m
  OBVIOUS
<1>6. \A i \in 1 .. Len(k) : k[i].t \notin {"blk", "eot"}
  BY <1>4, <1>5
<1> QED BY <1>4, <1>5, <1>6 DEF Fits

\* The line l with its first block garbled.
Garbled(l, q) == [l EXCEPT ![1].q = q]

\* A block is garbled.
LEMMA FitsGarbled ==
  ASSUME NEW l \in Seq(Items), l # <<>>, NEW b, NEW a, NEW s, NEW w, Fits(l, b, a, s, w),
         NEW q \in {"chksum", "frame", "cut"}, NEW k, k = Garbled(l, q)
  PROVE  k \in Seq(Items) /\ Fits(k, b, a, s, w)
<1>1. PICK x \in Items : x = l[1]
  OBVIOUS
<1>2. PICK y : y = [x EXCEPT !.q = q]
  OBVIOUS
<1>3. y \in Items /\ y.t = x.t /\ y.n = x.n
  BY <1>2 DEF Items
<1>4. k = [l EXCEPT ![1] = y]
  BY <1>1, <1>2 DEF Garbled
<1>5. k \in Seq(Items) /\ Len(k) = Len(l)
  BY <1>3, <1>4
<1>6. \A i \in 1 .. Len(l) : k[i].t = l[i].t /\ k[i].n = l[i].n
  BY <1>1, <1>3, <1>4
<1> QED BY <1>5, <1>6 DEF Fits

\* A stray character gets in front.
LEMMA FitsNoise ==
  ASSUME NEW l \in Seq(Items), NEW b, NEW a, NEW s, NEW w, Fits(l, b, a, s, w)
  PROVE  /\ <<Item("noise", 0, "ok")>> \o l \in Seq(Items)
         /\ Fits(<<Item("noise", 0, "ok")>> \o l, b, a, s, w)
<1>a. PICK x : x = Item("noise", 0, "ok")
  OBVIOUS
<1>1. x \in Items /\ x = Item("noise", 0, "ok") /\ x.t = "noise"
  BY <1>a DEF Item, Items
<1>b. <<x>> \o l \in Seq(Items)
  BY <1>1
<1>2. PICK k \in Seq(Items) : k = <<x>> \o l
  BY <1>b
<1>3. /\ Len(k) = Len(l) + 1 /\ Len(l) \in Nat /\ k[1] = x
      /\ \A i \in 1 .. Len(l) : k[i + 1] = l[i]
  BY <1>1, <1>2
<1>4. \A i \in 1 .. Len(k) : i = 1 \/ (i - 1 \in 1 .. Len(l) /\ k[i] = l[i - 1])
  <2>1. \A i \in 1 .. Len(k) : i = 1 \/ (i - 1 \in 1 .. Len(l) /\ (i - 1) + 1 = i)
    BY <1>3
  <2> QED BY <1>3, <2>1
<1>5. \A i \in 1 .. Len(k) : i - 1 = Len(l) => i = Len(k)
  BY <1>3
<1>6. Fits(k, b, a, s, w)
  BY <1>1, <1>3, <1>4, <1>5 DEF Fits
<1> QED BY <1>1, <1>2, <1>6

-----------------------------------------------------------------------------
(* Block numbers                                                            *)

\* Quotient and remainder of a number put together from them.
LEMMA DivMod ==
  ASSUME NEW b \in Nat \ {0}, NEW q \in Int, NEW r \in 0 .. b - 1, NEW x \in Int, x = b * q + r
  PROVE  x % b = r
  OBVIOUS

\* blk is counted modulo BlkMod: the next block has the next number, which is
\* not the one before.
LEMMA NextNumber ==
  ASSUME NEW n \in Nat
  PROVE  /\ ((n % BlkMod) + 1) % BlkMod = (n + 1) % BlkMod
         /\ (n + 1) % BlkMod # n % BlkMod
         /\ (((n + 1) % BlkMod) - 1) % BlkMod = n % BlkMod
<1>1. PICK m \in Nat \ {0} : m = BlkMod /\ m > 2
  BY XmodemAssumption
<1>2. PICK q \in Nat, r \in 0 .. m - 1 : n = m * q + r /\ r = n % m
  BY <1>1
<1>3. r \in Int /\ m \in Int /\ q \in Int /\ -1 \in Int /\ 0 \in 0 .. m - 1 /\ m - 1 \in 0 .. m - 1
  BY <1>1, <1>2
<1>6. m * q \in Int /\ m * (q + 1) = m * q + m /\ q + 1 \in Int
  BY <1>1, <1>2
<1>4. CASE r < m - 1
  <2>1. PICK y, x : y = r + 1 /\ x = n + 1
    OBVIOUS
  <2>a. y \in 0 .. m - 1 /\ x \in Int /\ y = m * 0 + y /\ r = m * 0 + r
    BY <1>1, <1>2, <1>4, <2>1
  <2>b. x = m * q + y
    <3>1. PICK z \in Int : z = m * q
      BY <1>6
    <3>2. n = z + r
      BY <1>2, <3>1
    <3>3. x = z + y
      BY <1>3, <2>1, <3>2
    <3> QED BY <3>1, <3>3
  <2>2. 0 \in Int /\ y \in Int
    BY <2>a
  <2>3. x % m = y
    BY <1>1, <1>3, <2>a, <2>b, DivMod
  <2>4. y % m = y
    BY <1>1, <2>a, <2>2, DivMod
  <2>5. r % m = r
    <3>1. r \in 0 .. m - 1 /\ r \in Int /\ r = m * 0 + r
      BY <1>2, <1>3, <2>a
    <3> QED BY <1>1, <2>2, <3>1, DivMod
  <2>6. (r + 1) - 1 = r /\ r + 1 # r
    BY <1>3
  <2> QED BY <1>1, <1>2, <2>1, <2>3, <2>4, <2>5, <2>6
<1>5. CASE r = m - 1
  <2>1. PICK x, p : x = n + 1 /\ p = q + 1
    OBVIOUS
  <2>a. x \in Int /\ p \in Int /\ x = m * p + 0
    BY <1>1, <1>2, <1>5, <1>6, <2>1
  <2>2. x % m = 0
    BY <1>1, <1>3, <2>a, DivMod
  <2>3. m % m = 0
    <3>1. m = m * 1 + 0
      BY <1>1
    <3> QED BY <1>1, <1>3, <3>1, DivMod
  <2>4. (-1) % m = m - 1
    <3>1. -1 = m * (-1) + (m - 1)
      BY <1>1
    <3> QED BY <1>1, <1>3, <3>1, DivMod
  <2>5. r + 1 = m /\ 0 - 1 = -1 /\ r # 0
    BY <1>1, <1>5
  <2> QED BY <1>1, <1>2, <1>5, <2>1, <2>2, <2>3, <2>4, <2>5
<1> QED BY <1>2, <1>4, <1>5

-----------------------------------------------------------------------------
(* The receiver's steps                                                     *)

\* The download is over; the caller's buffer stays.
LEMMA Ended ==
  ASSUME XmodemInv, pc' \in {"ok", "failed"}, hdr' = "enter", txAck' = FALSE, line' = <<>>,
         UNCHANGED <<got, crcMode, pkt, spc, sent>>,
         pc' = "ok" => LastGot = Blocks /\ got # <<>>
  PROVE  XmodemInv'
<1>1. XmodemTypeOK'
  <2>1. XmodemTypeOK /\ line' \in Seq(Items) /\ txAck' \in BOOLEAN
    BY EmptySeq DEF XmodemInv
  <2> QED BY <2>1 DEF XmodemTypeOK
<1>2. DeliveredWhole' /\ AllThere'
  BY DEF XmodemInv, DeliveredWhole, NoneSkipped, Complete, AllThere, LastGot
<1> QED BY <1>1, <1>2 DEF XmodemInv, Receiving

\* Cancelled, or a block that cannot be read.
LEMMA StatFails ==
  ASSUME XmodemInv, NEW stat \in {"cancel", "frame", "chksum"}, NEW n, NEW rest,
         Stat(stat, n, rest), UNCHANGED sender
  PROVE  XmodemInv'
<1>1. Finish("failed", <<>>) /\ UNCHANGED <<crcMode, pkt, got>>
  BY DEF Stat, OpenStat, ReadStat
<1>2. /\ pc' = "failed" /\ hdr' = "enter" /\ txAck' = FALSE /\ line' = <<>>
      /\ UNCHANGED <<got, crcMode, pkt, spc, sent>>
  BY <1>1 DEF Finish, sender
<1> QED BY <1>2, Ended

\* EOT: the sender has sent all its blocks, and so they are all here.
LEMMA StatEof ==
  ASSUME XmodemInv, Receiving, hdr = "scan", sent = Blocks + 1, NEW n, NEW rest,
         Stat("eof", n, rest), UNCHANGED sender
  PROVE  XmodemInv'
<1>0. Blocks \in Nat \ {0}
  BY XmodemAssumption
<1>1. pc = "read"
  BY <1>0 DEF XmodemInv, NotBegun, Receiving
<1>2. LastGot = Blocks
  BY <1>0, <1>1 DEF XmodemInv, InStep, Top
<1>3. got # <<>>
  BY <1>0, <1>2 DEF LastGot
<1>4. Finish("ok", <<"ACK", "ACK">>) /\ UNCHANGED <<crcMode, pkt, got>>
  BY <1>1 DEF Stat, OpenStat, ReadStat
<1>5. /\ pc' = "ok" /\ hdr' = "enter" /\ txAck' = FALSE /\ line' = <<>>
      /\ UNCHANGED <<got, crcMode, pkt, spc, sent>>
  BY <1>4 DEF Finish, sender
<1> QED BY <1>2, <1>3, <1>5, Ended

\* Nothing came in time: the receiver asks again, or gives up.
LEMMA StatTimeout ==
  ASSUME XmodemInv, Receiving, hdr = "scan", back = <<>>, NEW n,
         Stat("timeout", n, <<>>), UNCHANGED sender
  PROVE  XmodemInv'
<1>1. /\ Again(<<Poke>>, <<>>) /\ crcMode' \in BOOLEAN /\ UNCHANGED <<nextBlk, pkt, got>>
  <2>1. CASE pc = "open"
    <3>1. /\ crcMode' = (crcMode /\ crcLeft' > 0)
          /\ Again(<<Poke>>, <<>>) /\ UNCHANGED <<nextBlk, pkt, got>>
      BY <2>1 DEF Stat, OpenStat, ReadStat
    <3> QED BY <3>1
  <2>2. CASE pc = "read"
    <3>1. crcMode' = crcMode /\ Again(<<Poke>>, <<>>) /\ UNCHANGED <<nextBlk, pkt, got>>
      BY <2>2 DEF Stat, OpenStat, ReadStat
    <3> QED BY <3>1 DEF XmodemInv, XmodemTypeOK
  <2> QED BY <2>1, <2>2 DEF Receiving
<1>2. PICK p \in Answer : p = Poke /\ p # "ACK"
  BY DEF Poke, Answer
<1>3. CASE retries > 1
  <2>1. /\ hdr' = "enter" /\ line' = <<>> /\ back' = <<>> \o <<p>>
        /\ UNCHANGED <<pc, txAck, got, nextBlk, pkt, spc, sent>>
    BY <1>1, <1>2, <1>3 DEF Again, sender
  <2>2. back' = <<p>>
    BY <2>1
  <2>3. XmodemTypeOK'
    BY <1>1, <2>1 DEF XmodemInv, XmodemTypeOK
  <2>4. DeliveredWhole' /\ AllThere'
    BY <2>1 DEF XmodemInv, DeliveredWhole, NoneSkipped, Complete, AllThere, LastGot
  <2>5. ~txAck /\ ~txAck'
    BY <2>1 DEF XmodemInv, OneUnderWay
  <2>6. OneUnderWay'
    BY <1>2, <2>1, <2>2, <2>5 DEF OneUnderWay, Fits
  <2>7. <<p>> # <<"ACK">>
    BY <1>2
  <2>8. pc = "open" => NotBegun'
    BY <2>1, <2>2, <2>5, <2>7 DEF XmodemInv, NotBegun
  <2>9. pc = "read" => InStep'
    BY <2>1, <2>2, <2>5, <2>7 DEF XmodemInv, InStep, Top, LastGot
  <2> QED BY <2>1, <2>3, <2>4, <2>6, <2>8, <2>9 DEF XmodemInv
<1>4. CASE ~(retries > 1)
  <2>1. /\ pc' = "failed" /\ hdr' = "enter" /\ txAck' = FALSE /\ line' = <<>>
        /\ UNCHANGED <<got, pkt, spc, sent>>
    BY <1>1, <1>4 DEF Again, Finish, sender
  <2>2. XmodemTypeOK'
    <3>1. XmodemTypeOK /\ line' \in Seq(Items) /\ txAck' \in BOOLEAN
      BY <2>1, EmptySeq DEF XmodemInv
    <3> QED BY <1>1, <2>1, <3>1 DEF XmodemTypeOK
  <2>3. DeliveredWhole' /\ AllThere'
    BY <2>1 DEF XmodemInv, DeliveredWhole, NoneSkipped, Complete, AllThere, LastGot
  <2> QED BY <2>1, <2>2, <2>3 DEF XmodemInv, Receiving
<1> QED BY <1>3, <1>4

\* The first block.
LEMMA StatFirst ==
  ASSUME XmodemInv, pc = "open", hdr = "scan", back = <<>>, spc = "wait",
         Stat("block", sent, <<>>), UNCHANGED sender
  PROVE  XmodemInv'
<1>0. Blocks \in Nat \ {0}
  BY XmodemAssumption
<1>1. /\ pc' = "read" /\ hdr' = "copy" /\ txAck' = TRUE /\ pkt' = sent
      /\ nextBlk' = Succ(sent) /\ line' = <<>> /\ UNCHANGED <<crcMode, back, got, spc, sent>>
  BY DEF Stat, OpenStat, ReadStat, sender
<1>2. sent = 1 /\ got = <<>>
  BY DEF XmodemInv, NotBegun
<1>3. XmodemTypeOK'
  <2>1. XmodemTypeOK /\ line' \in Seq(Items) /\ txAck' \in BOOLEAN
    BY <1>1, EmptySeq DEF XmodemInv
  <2> QED BY <1>1, <1>2, <2>1 DEF XmodemTypeOK
<1>4. DeliveredWhole' /\ AllThere'
  BY <1>1, <1>2 DEF XmodemInv, DeliveredWhole, NoneSkipped, Complete, AllThere, LastGot
<1>5. OneUnderWay'
  BY <1>1 DEF OneUnderWay, Fits
<1>6. InStep'
  BY <1>0, <1>1, <1>2 DEF InStep, Top, LastGot, Succ
<1> QED BY <1>1, <1>3, <1>4, <1>5, <1>6 DEF XmodemInv

\* A block that is expected, or was there before.
LEMMA StatNext ==
  ASSUME XmodemInv, pc = "read", hdr = "scan", back = <<>>, spc = "wait", sent <= Blocks,
         Stat("block", sent, <<>>), UNCHANGED sender
  PROVE  XmodemInv'
<1>0. Blocks \in Nat \ {0}
  BY XmodemAssumption
<1>1. PICK k \in 1 .. Blocks : /\ k = LastGot /\ got # <<>> /\ sent \in {k, k + 1}
                               /\ nextBlk = (k + 1) % BlkMod
  BY DEF XmodemInv, InStep, Top, LastGot
<1>2. k \in Nat /\ k + 1 \in Nat
  BY <1>0, <1>1
<1>3. ~txAck
  BY DEF XmodemInv, OneUnderWay, Receiving
<1>4. CASE sent = k + 1
  <2>1. Expected(sent)
    BY <1>1, <1>4 DEF Expected
  <2>2. /\ hdr' = "copy" /\ txAck' = TRUE /\ pkt' = sent /\ nextBlk' = Succ(nextBlk)
        /\ line' = <<>> /\ UNCHANGED <<pc, back, crcMode, got, spc, sent>>
    BY <2>1 DEF Stat, OpenStat, ReadStat, sender
  <2>3. nextBlk' = ((k + 1) + 1) % BlkMod
    BY <1>1, <1>2, <2>2, NextNumber DEF Succ
  <2>4. XmodemTypeOK'
    BY <1>2, <1>4, <2>2 DEF XmodemInv, XmodemTypeOK
  <2>5. DeliveredWhole' /\ AllThere'
    BY <2>2 DEF XmodemInv, DeliveredWhole, NoneSkipped, Complete, AllThere, LastGot
  <2>6. OneUnderWay'
    BY <2>2 DEF OneUnderWay, Fits
  <2>7. Top' = k + 1 /\ LastGot' = k
    BY <1>1, <1>4, <2>2 DEF Top, LastGot
  <2>8. InStep'
    BY <1>0, <1>1, <1>2, <1>4, <2>2, <2>3, <2>7 DEF InStep
  <2> QED BY <2>2, <2>4, <2>5, <2>6, <2>8 DEF XmodemInv
<1>5. CASE sent = k
  <2>1. ~Expected(sent) /\ Repeated(sent)
    BY <1>1, <1>2, <1>5, NextNumber DEF Expected, Repeated
  <2>2. Duplicate(sent, <<>>) /\ UNCHANGED <<crcMode, got>>
    BY <2>1 DEF Stat, OpenStat, ReadStat
  <2>3. /\ hdr' \in {"enter", "copy"} /\ pkt' = sent /\ line' = <<>> /\ back' = <<"ACK">>
        /\ UNCHANGED <<pc, txAck, nextBlk, crcMode, got, spc, sent>>
    BY <2>2 DEF Duplicate, sender
  <2>4. XmodemTypeOK'
    BY <1>2, <1>5, <2>3 DEF XmodemInv, XmodemTypeOK
  <2>5. DeliveredWhole' /\ AllThere'
    BY <2>3 DEF XmodemInv, DeliveredWhole, NoneSkipped, Complete, AllThere, LastGot
  <2>6. OneUnderWay'
    BY <1>3, <2>3 DEF OneUnderWay, Fits, Answer
  <2>7. Top' = k /\ LastGot' = k
    BY <1>1, <1>5, <2>3 DEF Top, LastGot
  <2>8. InStep'
    BY <1>0, <1>1, <1>2, <1>5, <2>3, <2>7 DEF XmodemInv, InStep
  <2> QED BY <2>3, <2>4, <2>5, <2>6, <2>8 DEF XmodemInv
<1> QED BY <1>1, <1>4, <1>5

\* Xmodem_get_header acts on the item at the front of the line.
LEMMA HdrItemKeeps ==
  ASSUME XmodemInv, HdrItem
  PROVE  XmodemInv'
<1>1. PICK l \in Seq(Items) : l = line
  BY DEF XmodemInv, XmodemTypeOK
<1>2. PICK b, a, s, w : b = back /\ a = txAck /\ s = sent /\ w = spc
  OBVIOUS
<1>3. PICK x \in Items : x = Head(l)
  BY <1>1 DEF HdrItem
<1>4. PICK rest : rest = IF x.q = "frame" THEN <<>> ELSE Tail(l)
  OBVIOUS
<1>5. /\ Receiving /\ hdr = "scan" /\ l # <<>> /\ ~Skipped(x)
      /\ Stat(Status(x), x.n, rest) /\ UNCHANGED sender
  BY <1>1, <1>3, <1>4 DEF HdrItem
<1>6. Fits(l, b, a, s, w)
  BY <1>1, <1>2, <1>5 DEF XmodemInv, OneUnderWay
<1>7. x.t \in {"blk", "eot", "can"} /\ x.q \in {"ok", "chksum", "frame", "cut"}
  BY <1>3, <1>5 DEF Skipped, Items
<1>8. CASE x.t = "can"
  <2>1. Status(x) = "cancel"
    BY <1>8 DEF Status
  <2> QED BY <1>5, <2>1, StatFails
<1>9. CASE x.t = "eot"
  <2>1. Status(x) = "eof"
    BY <1>9 DEF Status
  <2>2. sent = Blocks + 1
    BY <1>2, <1>3, <1>5, <1>6, <1>9, FitsReal
  <2> QED BY <1>5, <2>1, <2>2, StatEof
<1>10. CASE x.t = "blk"
  <2>1. rest = <<>> /\ back = <<>> /\ spc = "wait" /\ x.n = sent /\ sent <= Blocks
    BY <1>2, <1>3, <1>4, <1>5, <1>6, <1>10, FitsReal
  <2>2. CASE x.q = "ok"
    <3>1. Status(x) = "block"
      BY <1>10, <2>2 DEF Status
    <3> QED BY <1>5, <2>1, <3>1, StatFirst, StatNext DEF Receiving
  <2>3. CASE x.q = "cut"
    <3>1. Status(x) = "timeout"
      BY <1>10, <2>3 DEF Status
    <3>2. PICK n : n = x.n
      OBVIOUS
    <3>3. Stat("timeout", n, <<>>)
      BY <1>5, <2>1, <3>1, <3>2
    <3> QED BY <1>5, <2>1, <3>3, StatTimeout
  <2>4. CASE x.q \in {"chksum", "frame"}
    <3>1. Status(x) = x.q
      BY <1>10, <2>4 DEF Status
    <3>2. PICK st \in {"cancel", "frame", "chksum"}, n \in {x.n} : st = Status(x)
      BY <2>4, <3>1
    <3>3. Stat(st, n, rest)
      BY <1>5, <3>2
    <3> QED BY <1>5, <3>3, StatFails
  <2> QED BY <1>7, <2>2, <2>3, <2>4
<1> QED BY <1>7, <1>8, <1>9, <1>10

\* Xmodem_get_header begins.
LEMMA HdrEnterKeeps ==
  ASSUME XmodemInv, HdrEnter
  PROVE  XmodemInv'
<1>1. /\ Receiving /\ hdr = "enter" /\ hdr' = "scan" /\ txAck' = FALSE
      /\ back' = IF txAck THEN Append(back, "ACK") ELSE back
      /\ UNCHANGED <<pc, crcMode, nextBlk, pkt, got, line, spc, sent>>
  BY DEF HdrEnter, sender
<1>2. XmodemTypeOK'
  <2>1. XmodemTypeOK /\ txAck' \in BOOLEAN
    BY <1>1 DEF XmodemInv
  <2> QED BY <1>1, <2>1 DEF XmodemTypeOK
<1>3. DeliveredWhole' /\ AllThere' /\ Receiving'
  BY <1>1 DEF XmodemInv, DeliveredWhole, NoneSkipped, Complete, AllThere, LastGot, Receiving
<1>4. OneUnderWay
  BY <1>1 DEF XmodemInv
<1>5. Top' = Top /\ LastGot' = LastGot
  BY <1>1 DEF Top, LastGot
<1>6. CASE txAck
  <2>1. back = <<>> /\ back' = <<"ACK">> /\ pc = "read"
    BY <1>1, <1>4, <1>6 DEF OneUnderWay, XmodemInv, NotBegun, Receiving
  <2>2. PICK l \in Seq(Items), b \in {back}, a \in {txAck}, s \in {sent}, w \in {spc} : l = line
    BY DEF XmodemInv, XmodemTypeOK
  <2>3. Fits(l, b, a, s, w)
    BY <1>4, <2>2 DEF OneUnderWay
  <2>4. Fits(l, <<"ACK">>, FALSE, s, w)
    BY <1>6, <2>2, <2>3, FitsQuiet
  <2>5. OneUnderWay'
    BY <1>1, <2>1, <2>2, <2>4 DEF OneUnderWay, Answer
  <2>6. InStep'
    BY <1>1, <1>5, <1>6, <2>1 DEF XmodemInv, InStep
  <2> QED BY <1>1, <1>2, <1>3, <2>1, <2>5, <2>6 DEF XmodemInv
<1>7. CASE ~txAck
  <2>1. back' = back /\ txAck' = txAck
    BY <1>1, <1>7 DEF XmodemInv, XmodemTypeOK
  <2>2. OneUnderWay'
    BY <1>1, <1>4, <2>1 DEF OneUnderWay
  <2>3. pc = "open" => NotBegun'
    BY <1>1, <2>1 DEF XmodemInv, NotBegun
  <2>4. pc = "read" => InStep'
    BY <1>1, <1>5, <2>1 DEF XmodemInv, InStep
  <2> QED BY <1>1, <1>2, <1>3, <2>2, <2>3, <2>4 DEF XmodemInv
<1> QED BY <1>6, <1>7

\* A step that only changes what is on the line keeps the rest.
LEMMA LineChanges ==
  ASSUME XmodemInv, Receiving, line' \in Seq(Items),
         UNCHANGED <<pc, hdr, crcMode, nextBlk, txAck, pkt, got, spc, sent>>,
         back' = back \/ back' = <<>>,
         Fits(line', back', txAck, sent, spc)
  PROVE  XmodemInv'
<1>1. XmodemTypeOK'
  BY DEF XmodemInv, XmodemTypeOK
<1>2. DeliveredWhole' /\ AllThere'
  BY DEF XmodemInv, DeliveredWhole, NoneSkipped, Complete, AllThere, LastGot
<1>3. OneUnderWay'
  BY DEF XmodemInv, OneUnderWay
<1>4. <<"ACK">> # <<>>
  OBVIOUS
<1>5. pc = "open" => NotBegun'
  BY <1>4 DEF XmodemInv, NotBegun
<1>6. pc = "read" => InStep'
  BY <1>4 DEF XmodemInv, InStep, Top, LastGot
<1> QED BY <1>1, <1>2, <1>3, <1>5, <1>6 DEF XmodemInv

\* The answer that is under way is gone.
LEMMA AnswerGone ==
  ASSUME XmodemInv, Receiving, back # <<>>
  PROVE  Tail(back) = <<>> /\ Head(back) \in Answer /\ back = <<Head(back)>> /\ ~txAck
<1>1. PICK a \in Answer : back = <<a>>
  BY DEF XmodemInv, OneUnderWay
<1>2. Tail(<<a>>) = <<>> /\ Head(<<a>>) = a
  OBVIOUS
<1> QED BY <1>1, <1>2 DEF XmodemInv, OneUnderWay

\* A character is skipped, or an item is lost.
LEMMA ItemGone ==
  ASSUME XmodemInv, Receiving, line # <<>>, line' = Tail(line),
         UNCHANGED <<pc, hdr, crcMode, nextBlk, txAck, pkt, got, spc, sent, back>>
  PROVE  XmodemInv'
<1>1. PICK l \in Seq(Items), b \in {back}, a \in {txAck}, s \in {sent}, w \in {spc} : l = line
  BY DEF XmodemInv, XmodemTypeOK
<1>2. Fits(l, b, a, s, w)
  BY <1>1 DEF XmodemInv, OneUnderWay
<1>3. Tail(l) \in Seq(Items) /\ Fits(Tail(l), b, a, s, w)
  BY <1>1, <1>2, FitsTail
<1>4. line' \in Seq(Items) /\ Fits(line', back', txAck, sent, spc)
  BY <1>1, <1>3
<1> QED BY <1>4, LineChanges

\* An answer is lost.
LEMMA AnswerLost ==
  ASSUME XmodemInv, Receiving, back # <<>>, back' = Tail(back),
         UNCHANGED <<pc, hdr, crcMode, nextBlk, txAck, pkt, got, spc, sent, line>>
  PROVE  XmodemInv'
<1>1. PICK l \in Seq(Items), b \in {back}, a \in {txAck}, s \in {sent}, w \in {spc} : l = line
  BY DEF XmodemInv, XmodemTypeOK
<1>2. Fits(l, b, a, s, w)
  BY <1>1 DEF XmodemInv, OneUnderWay
<1>3. Fits(l, <<>>, a, s, w)
  BY <1>1, <1>2, FitsQuiet
<1>4. line' \in Seq(Items) /\ back' = <<>> /\ Fits(line', back', txAck, sent, spc)
  BY <1>1, <1>3, AnswerGone
<1> QED BY <1>4, LineChanges

\* Whatever the line does.
LEMMA LineKeeps ==
  ASSUME XmodemInv, LoseAnswer \/ LoseItem \/ Garble \/ Noise
  PROVE  XmodemInv'
<1>1. /\ Receiving /\ UNCHANGED <<pc, hdr, crcMode, nextBlk, txAck, pkt, got, spc, sent>>
  BY DEF LoseAnswer, LoseItem, Garble, Noise, Misbehave, receiver, sender
<1>2. PICK l \in Seq(Items), b \in {back}, a \in {txAck}, s \in {sent}, w \in {spc} : l = line
  BY DEF XmodemInv, XmodemTypeOK
<1>3. Fits(l, b, a, s, w)
  BY <1>1, <1>2 DEF XmodemInv, OneUnderWay
<1>4. CASE LoseAnswer
  BY <1>1, <1>4, AnswerLost DEF LoseAnswer
<1>5. CASE LoseItem
  BY <1>1, <1>5, ItemGone DEF LoseItem
<1>6. CASE Garble
  <2>1. PICK q \in {"chksum", "frame", "cut"} : line' = Garbled(l, q)
    BY <1>2, <1>6 DEF Garble, Garbled
  <2>2. PICK k : k = Garbled(l, q)
    OBVIOUS
  <2>3. l # <<>> /\ back' = back
    BY <1>2, <1>6 DEF Garble
  <2>4. k \in Seq(Items) /\ Fits(k, b, a, s, w)
    BY <1>2, <1>3, <2>2, <2>3, FitsGarbled
  <2>5. line' \in Seq(Items) /\ Fits(line', back', txAck, sent, spc)
    BY <1>2, <2>1, <2>2, <2>3, <2>4
  <2> QED BY <1>1, <2>3, <2>5, LineChanges
<1>7. CASE Noise
  <2>1. /\ <<Item("noise", 0, "ok")>> \o l \in Seq(Items)
        /\ Fits(<<Item("noise", 0, "ok")>> \o l, b, a, s, w)
    BY <1>2, <1>3, FitsNoise
  <2>2. line' \in Seq(Items) /\ back' = back /\ Fits(line', back', txAck, sent, spc)
    BY <1>2, <1>7, <2>1 DEF Noise
  <2> QED BY <1>1, <2>2, LineChanges
<1> QED BY <1>4, <1>5, <1>6, <1>7

\* The search for a header times out with nothing under way.
LEMMA HdrTimeoutKeeps ==
  ASSUME XmodemInv, HdrTimeout
  PROVE  XmodemInv'
<1>1. /\ Receiving /\ hdr = "scan" /\ back = <<>> /\ UNCHANGED sender
      /\ Stat("timeout", 0, <<>>)
  BY DEF HdrTimeout, Quiet
<1> QED BY <1>1, StatTimeout

\* What a block more does to the buffer.
LEMMA OneMore ==
  ASSUME NEW g \in Seq(1 .. Blocks), NEW p \in 1 .. Blocks, NEW k, k = Append(g, p)
  PROVE  /\ k \in Seq(1 .. Blocks) /\ Len(k) = Len(g) + 1 /\ Len(g) \in Nat
         /\ k # <<>> /\ k[Len(k)] = p /\ \A i \in 1 .. Len(g) : k[i] = g[i]
  OBVIOUS

\* The memcpy of Xmodem_read.
LEMMA CopyKeeps ==
  ASSUME XmodemInv, Copy
  PROVE  XmodemInv'
<1>0. Blocks \in Nat \ {0}
  BY XmodemAssumption
<1>1. /\ pc = "read" /\ hdr = "copy" /\ got' = Append(got, pkt)
      /\ UNCHANGED <<crcMode, nextBlk, pkt, spc, sent>>
      /\ \/ hdr' = "enter" /\ UNCHANGED <<pc, txAck, line, back>>
         \/ /\ pc' \in {"ok", "failed"} /\ hdr' = "enter" /\ txAck' = FALSE /\ line' = <<>>
            /\ ~(Len(got') < BufBlocks)
  BY DEF Copy, Copied, Finish, sender
<1>2. PICK g \in Seq(1 .. Blocks), p \in 1 .. Blocks, z \in 0 .. Blocks :
        g = got /\ p = pkt /\ z = LastGot /\ p \in {z, z + 1}
  <2>1. got \in Seq(1 .. Blocks)
    BY DEF XmodemInv, XmodemTypeOK
  <2>2. LastGot \in 0 .. Blocks
    <3>1. CASE got = <<>>
      BY <1>0, <3>1 DEF LastGot
    <3>2. CASE got # <<>>
      <4>1. got[Len(got)] \in 1 .. Blocks
        <5>1. PICK S, g : S = 1 .. Blocks /\ g = got
          OBVIOUS
        <5>2. g \in Seq(S) /\ g # <<>>
          BY <2>1, <3>2, <5>1
        <5>3. Len(g) \in 1 .. Len(g)
          BY <5>2
        <5>4. g[Len(g)] \in S
          BY <5>2, <5>3, ElementOfSeq
        <5> QED BY <5>1, <5>4
      <4> QED BY <3>2, <4>1 DEF LastGot
    <3> QED BY <3>1, <3>2
  <2>3. pkt \in 1 .. Blocks /\ pkt \in {LastGot, LastGot + 1}
    BY <1>1 DEF XmodemInv, InStep, Top
  <2> QED BY <2>1, <2>2, <2>3
<1>3. PICK k : k = Append(g, p)
  OBVIOUS
<1>4. /\ k \in Seq(1 .. Blocks) /\ Len(k) = Len(g) + 1 /\ Len(g) \in Nat
      /\ k # <<>> /\ k[Len(k)] = p /\ \A i \in 1 .. Len(g) : k[i] = g[i]
  BY <1>2, <1>3, OneMore
<1>5. got' = k /\ LastGot' = p /\ Top' = p /\ Top = p
  BY <1>1, <1>2, <1>3, <1>4 DEF LastGot, Top
<1>6. g # <<>> => Len(g) \in 1 .. Len(g) /\ z = g[Len(g)]
  BY <1>2, <1>4 DEF LastGot
<1>7. XmodemTypeOK'
  <2>1. XmodemTypeOK /\ <<>> \in Seq(Items)
    BY EmptySeq DEF XmodemInv
  <2>2. line' \in Seq(Items) /\ txAck' \in BOOLEAN
    BY <1>1, <2>1 DEF XmodemTypeOK
  <2> QED BY <1>1, <1>4, <1>5, <2>1, <2>2 DEF XmodemTypeOK
<1>8. NoneSkipped'
  <2>1. k[1] = 1
    <3>1. CASE g = <<>>
      BY <1>2, <1>4, <3>1 DEF LastGot
    <3>2. CASE g # <<>>
      <4>1. 1 \in 1 .. Len(g)
        BY <1>2, <1>4, <3>2
      <4>2. g[1] = 1
        BY <1>2, <3>2 DEF XmodemInv, DeliveredWhole, NoneSkipped
      <4> QED BY <1>4, <4>1, <4>2
    <3> QED BY <3>1, <3>2
  <2>2. ASSUME NEW i \in 1 .. Len(k) - 1
        PROVE  k[i + 1] \in {k[i], k[i] + 1}
    <3>1. CASE i = Len(g)
      <4>1. g # <<>> /\ k[i] = z /\ k[i + 1] = p
        BY <1>4, <1>6, <2>2, <3>1
      <4> QED BY <1>2, <4>1
    <3>2. CASE i # Len(g)
      <4>1. i \in 1 .. Len(g) - 1 /\ i \in 1 .. Len(g) /\ i + 1 \in 1 .. Len(g)
        BY <1>4, <2>2, <3>2
      <4>2. g[i + 1] \in {g[i], g[i] + 1}
        BY <1>2, <4>1 DEF XmodemInv, DeliveredWhole, NoneSkipped
      <4> QED BY <1>4, <4>1, <4>2
    <3> QED BY <3>1, <3>2
  <2> QED BY <1>5, <2>1, <2>2 DEF NoneSkipped
<1>9. AllThere'
  <2>1. SUFFICES ASSUME NEW j \in 1 .. p
                 PROVE  \E i \in 1 .. Len(k) : k[i] = j
    BY <1>5 DEF AllThere
  <2>2. CASE j = p
    <3>1. Len(k) \in 1 .. Len(k)
      BY <1>4
    <3> QED BY <1>4, <2>2, <3>1
  <2>3. CASE j # p
    <3>1. j \in 1 .. z
      BY <1>2, <2>3
    <3>2. PICK i \in 1 .. Len(g) : g[i] = j
      BY <1>2, <3>1 DEF XmodemInv, AllThere
    <3>3. i \in 1 .. Len(k) /\ k[i] = j
      BY <1>4, <3>2
    <3> QED BY <3>3
  <2> QED BY <2>2, <2>3
<1>10. CASE hdr' = "enter" /\ UNCHANGED <<pc, txAck, line, back>>
  <2>1. Complete'
    BY <1>1, <1>10 DEF Complete
  <2>2. OneUnderWay'
    BY <1>1, <1>10 DEF XmodemInv, OneUnderWay, Receiving
  <2>3. InStep'
    BY <1>1, <1>5, <1>10 DEF XmodemInv, InStep
  <2> QED BY <1>1, <1>7, <1>8, <1>9, <1>10, <2>1, <2>2, <2>3 DEF XmodemInv, DeliveredWhole
<1>11. CASE pc' \in {"ok", "failed"} /\ ~(Len(got') < BufBlocks)
  <2>1. Complete'
    BY <1>11 DEF Complete
  <2> QED BY <1>7, <1>8, <1>9, <1>11, <2>1 DEF XmodemInv, DeliveredWhole, Receiving
<1> QED BY <1>1, <1>10, <1>11

-----------------------------------------------------------------------------
(* The sender's steps                                                       *)

\* After the download the sender no longer matters.
LEMMA SenderAlone ==
  ASSUME XmodemInv, ~Receiving, UNCHANGED receiver, line' \in Seq(Items),
         spc' \in {"start", "wait", "done", "quit"}, sent' \in 1 .. Blocks + 1
  PROVE  XmodemInv'
<1>1. UNCHANGED <<pc, hdr, crcMode, nextBlk, txAck, pkt, got>>
  BY DEF receiver
<1>2. XmodemTypeOK'
  BY <1>1 DEF XmodemInv, XmodemTypeOK
<1>3. DeliveredWhole' /\ AllThere'
  BY <1>1 DEF XmodemInv, DeliveredWhole, NoneSkipped, Complete, AllThere, LastGot
<1> QED BY <1>1, <1>2, <1>3 DEF XmodemInv, Receiving

\* The sender transmits block n.
LEMMA SendKeeps ==
  ASSUME XmodemInv, Receiving, UNCHANGED receiver, NEW n \in 1 .. Blocks + 1, Transmit(n),
         back' = <<>>, back # <<>> \/ (line = <<>> /\ hdr = "scan"), spc \in {"start", "wait"},
         n = sent \/ (spc = "wait" /\ n = sent + 1 /\ back = <<"ACK">>)
  PROVE  XmodemInv'
<1>1. UNCHANGED <<pc, hdr, crcMode, nextBlk, txAck, pkt, got>>
  BY DEF receiver
<1>2. sent' = n /\ line' = Append(line, Out(n)) /\ spc' = "wait"
  BY DEF Transmit
<1>3. OneUnderWay /\ ~txAck
  BY DEF XmodemInv, OneUnderWay
<1>4. PICK l \in Seq(Items), b \in {back}, a \in {txAck}, s \in {sent}, w \in {spc} : l = line
  BY DEF XmodemInv, XmodemTypeOK
<1>5. Fits(l, b, a, s, w) /\ (b # <<>> \/ a \/ l = <<>>) /\ w # "quit"
  BY <1>3, <1>4 DEF OneUnderWay
<1>6. /\ Append(l, Out(n)) \in Seq(Items)
      /\ Fits(Append(l, Out(n)), <<>>, FALSE, n, "wait")
  BY <1>4, <1>5, FitsSent
<1>7. XmodemTypeOK'
  BY <1>1, <1>2, <1>4, <1>6 DEF XmodemInv, XmodemTypeOK
<1>8. DeliveredWhole' /\ AllThere'
  BY <1>1 DEF XmodemInv, DeliveredWhole, NoneSkipped, Complete, AllThere, LastGot
<1>9. txAck = FALSE /\ txAck' = FALSE
  BY <1>1, <1>3 DEF XmodemInv, XmodemTypeOK
<1>10. OneUnderWay'
  BY <1>1, <1>2, <1>4, <1>6, <1>9 DEF OneUnderWay
<1>11. <<"ACK">> # <<>>
  OBVIOUS
<1>12. pc = "open" => NotBegun'
  BY <1>1, <1>2, <1>11 DEF XmodemInv, NotBegun
<1>13. pc = "read" => InStep'
  <2>1. SUFFICES ASSUME pc = "read" PROVE InStep'
    OBVIOUS
  <2>2. Top' = Top /\ LastGot' = LastGot
    BY <1>1 DEF Top, LastGot
  <2>3. n \in {Top, Top + 1}
    BY <2>1 DEF XmodemInv, InStep
  <2> QED BY <1>1, <1>2, <1>9, <1>11, <2>1, <2>2, <2>3 DEF XmodemInv, InStep
<1> QED BY <1>1, <1>7, <1>8, <1>10, <1>12, <1>13 DEF XmodemInv

\* The sender moves on, stops or ignores what it hears.
LEMMA SenderMoveKeeps ==
  ASSUME XmodemInv, SenderMove
  PROVE  XmodemInv'
<1>0. Blocks \in Nat \ {0}
  BY XmodemAssumption
<1>1. back # <<>> /\ back' = Tail(back) /\ UNCHANGED receiver
  BY DEF SenderMove
<1>2. /\ line \in Seq(Items) /\ sent \in 1 .. Blocks + 1
      /\ spc \in {"start", "wait", "done", "quit"}
  BY DEF XmodemInv, XmodemTypeOK
<1>3. CASE spc = "start" /\ Head(back) \in {"C", "NAK"} /\ Transmit(1)
  <2>1. CASE ~Receiving
    <3>1. Out(1) \in Items /\ 1 \in 1 .. Blocks + 1
      BY <1>0 DEF Out, Item, Items
    <3>2. line' \in Seq(Items) /\ sent' \in 1 .. Blocks + 1 /\ spc' = "wait"
      BY <1>2, <1>3, <3>1 DEF Transmit
    <3> QED BY <1>1, <2>1, <3>2, SenderAlone
  <2>2. CASE Receiving
    <3>1. back' = <<>>
      BY <1>1, <2>2, AnswerGone
    <3>2. sent = 1 /\ 1 \in 1 .. Blocks + 1
      BY <1>0, <1>3, <2>2 DEF XmodemInv, NotBegun, InStep, Receiving
    <3> QED BY <1>1, <1>3, <2>2, <3>1, <3>2, SendKeeps
  <2> QED BY <2>1, <2>2
<1>4. CASE spc = "wait" /\ Head(back) = "ACK" /\ sent <= Blocks /\ Transmit(sent + 1)
  <2>1. PICK n \in 1 .. Blocks + 1 : n = sent + 1
    BY <1>0, <1>2, <1>4
  <2>2. CASE ~Receiving
    <3>1. Out(n) \in Items
      BY <1>0, <2>1 DEF Out, Item, Items
    <3>2. line' \in Seq(Items) /\ sent' \in 1 .. Blocks + 1 /\ spc' = "wait"
      BY <1>2, <1>4, <2>1, <3>1 DEF Transmit
    <3> QED BY <1>1, <2>2, <3>2, SenderAlone
  <2>3. CASE Receiving
    <3>1. back' = <<>> /\ back = <<"ACK">>
      BY <1>1, <1>4, <2>3, AnswerGone
    <3>2. Transmit(n)
      BY <1>4, <2>1
    <3> QED BY <1>1, <1>4, <2>1, <2>3, <3>1, <3>2, SendKeeps
  <2> QED BY <2>2, <2>3
<1>5. CASE /\ UNCHANGED <<sent, line>>
           /\ \/ spc = "wait" /\ Head(back) = "ACK" /\ sent > Blocks /\ spc' = "done"
              \/ Head(back) = "CAN" /\ spc # "done" /\ spc' = "quit"
  <2>1. ~Receiving
    <3>1. SUFFICES ASSUME Receiving PROVE FALSE
      OBVIOUS
    <3>2. Head(back) # "CAN" /\ (Head(back) = "ACK" => back = <<"ACK">>)
      BY <1>1, <3>1, AnswerGone DEF Answer
    <3>3. Head(back) = "ACK" => sent <= Blocks
      BY <1>0, <1>2, <3>1, <3>2 DEF XmodemInv, NotBegun, InStep, Receiving
    <3> QED BY <1>0, <1>2, <1>5, <3>2, <3>3
  <2> QED BY <1>1, <1>2, <1>5, <2>1, SenderAlone
<1>6. CASE UNCHANGED <<sender, line>>
  <2>1. UNCHANGED <<spc, sent, line>>
    BY <1>6 DEF sender
  <2>2. CASE ~Receiving
    BY <1>1, <1>2, <2>1, <2>2, SenderAlone
  <2>3. CASE Receiving
    <3>1. UNCHANGED <<pc, hdr, crcMode, nextBlk, txAck, pkt, got, spc, sent, line>>
      BY <1>1, <2>1 DEF receiver
    <3> QED BY <1>1, <2>3, <3>1, AnswerLost
  <2> QED BY <2>2, <2>3
<1> QED BY <1>3, <1>4, <1>5, <1>6 DEF SenderMove

\* The sender repeats itself, or gives up.
LEMMA SenderRepeatKeeps ==
  ASSUME XmodemInv, SenderRepeat
  PROVE  XmodemInv'
<1>0. Blocks \in Nat \ {0}
  BY XmodemAssumption
<1>1. /\ spc = "wait" /\ UNCHANGED receiver
      /\ \/ back # <<>> /\ Head(back) \in {"C", "NAK"} /\ back' = Tail(back)
         \/ line = <<>> /\ back = <<>> /\ (Receiving => hdr = "scan") /\ back' = back
      /\ \/ Transmit(sent)
         \/ /\ spc' = "quit" /\ UNCHANGED sent
            /\ line' = line \o [i \in 1 .. CAN_COUNT |-> Item("can", 0, "ok")]
  BY DEF SenderRepeat, Quiet
<1>2. PICK l \in Seq(Items), n \in 1 .. Blocks + 1 : l = line /\ n = sent
  BY DEF XmodemInv, XmodemTypeOK
<1>3. Receiving => back' = <<>> /\ (back # <<>> \/ (line = <<>> /\ hdr = "scan"))
  BY <1>1, AnswerGone
<1>4. CASE Transmit(sent)
  <2>1. CASE ~Receiving
    <3>1. Out(n) \in Items
      BY <1>0, <1>2 DEF Out, Item, Items
    <3>2. line' \in Seq(Items) /\ sent' \in 1 .. Blocks + 1 /\ spc' = "wait"
      BY <1>2, <1>4, <3>1 DEF Transmit
    <3> QED BY <1>1, <2>1, <3>2, SenderAlone
  <2>2. CASE Receiving
    <3>1. Transmit(n)
      BY <1>2, <1>4
    <3> QED BY <1>1, <1>2, <1>3, <2>2, <3>1, SendKeeps
  <2> QED BY <2>1, <2>2
<1>5. CASE /\ spc' = "quit" /\ UNCHANGED sent
           /\ line' = line \o [i \in 1 .. CAN_COUNT |-> Item("can", 0, "ok")]
  <2>1. PICK m : m = [i \in 1 .. CAN_COUNT |-> Item("can", 0, "ok")]
    OBVIOUS
  <2>2. CASE ~Receiving
    <3>1. Fits(<<>>, 0, 0, 0, "quit") /\ <<>> \in Seq(Items)
      BY FitsEmpty, EmptySeq
    <3>2. Item("can", 0, "ok") \in Items
      BY DEF Item, Items
    <3>3. m \in Seq(Items)
      BY <2>1, <3>2 DEF CAN_COUNT
    <3>4. line' \in Seq(Items)
      BY <1>2, <1>5, <2>1, <3>3, ConcatProperties
    <3> QED BY <1>1, <1>2, <1>5, <2>2, <3>4, SenderAlone
  <2>3. CASE Receiving
    <3>1. PICK b \in {back}, a \in {txAck}, s \in {sent}, w \in {spc} : TRUE
      OBVIOUS
    <3>2. Fits(l, b, a, s, w) /\ (b # <<>> \/ a \/ l = <<>>)
      BY <1>2, <1>3, <2>3, <3>1 DEF XmodemInv, OneUnderWay
    <3>3. l \o m \in Seq(Items) /\ Fits(l \o m, <<>>, a, s, "quit")
      BY <1>2, <2>1, <3>2, FitsCans
    <3>4. UNCHANGED <<pc, hdr, crcMode, nextBlk, txAck, pkt, got, sent>> /\ line' = l \o m
      BY <1>1, <1>2, <1>5, <2>1 DEF receiver
    <3>5. XmodemTypeOK'
      BY <1>5, <3>3, <3>4 DEF XmodemInv, XmodemTypeOK
    <3>6. DeliveredWhole' /\ AllThere'
      BY <3>4 DEF XmodemInv, DeliveredWhole, NoneSkipped, Complete, AllThere, LastGot
    <3>7. OneUnderWay'
      BY <1>3, <1>5, <2>3, <3>1, <3>3, <3>4 DEF XmodemInv, OneUnderWay
    <3>8. <<"ACK">> # <<>>
      OBVIOUS
    <3>9. pc = "open" => NotBegun'
      BY <1>3, <1>5, <2>3, <3>4, <3>8 DEF XmodemInv, NotBegun
    <3>10. pc = "read" => InStep'
      BY <1>3, <1>5, <2>3, <3>4, <3>8 DEF XmodemInv, InStep, Top, LastGot
    <3> QED BY <3>4, <3>5, <3>6, <3>7, <3>9, <3>10 DEF XmodemInv
  <2> QED BY <2>2, <2>3
<1> QED BY <1>1, <1>4, <1>5

-----------------------------------------------------------------------------
(* The theorems                                                             *)

LEMMA XmodemInitOK == Init => XmodemInv
<1>1. Blocks \in Nat \ {0}
  BY XmodemAssumption
<1>2. SUFFICES ASSUME Init PROVE XmodemInv
  OBVIOUS
<1>3. XmodemTypeOK
  <2>1. line \in Seq(Items) /\ got \in Seq(1 .. Blocks) /\ crcMode \in BOOLEAN /\ txAck \in BOOLEAN
    BY <1>2, EmptySeq DEF Init
  <2> QED BY <1>1, <1>2, <2>1 DEF Init, XmodemTypeOK
<1>4. DeliveredWhole /\ AllThere
  BY <1>2 DEF Init, DeliveredWhole, NoneSkipped, Complete, AllThere, LastGot
<1>5. OneUnderWay
  BY <1>2 DEF Init, OneUnderWay, Fits
<1>6. NotBegun
  BY <1>2 DEF Init, NotBegun
<1> QED BY <1>2, <1>3, <1>4, <1>5, <1>6 DEF XmodemInv, Init

LEMMA XmodemStepOK == XmodemInv /\ [Next]_vars => XmodemInv'
<1>1. SUFFICES ASSUME XmodemInv, [Next]_vars PROVE XmodemInv'
  OBVIOUS
<1>2. CASE HdrEnter
  BY <1>1, <1>2, HdrEnterKeeps
<1>3. CASE HdrSkip
  <2>1. /\ Receiving /\ line # <<>> /\ line' = Tail(line)
        /\ UNCHANGED <<pc, hdr, crcMode, nextBlk, txAck, pkt, got, spc, sent, back>>
    BY <1>3 DEF HdrSkip, sender
  <2> QED BY <1>1, <2>1, ItemGone
<1>4. CASE HdrItem
  BY <1>1, <1>4, HdrItemKeeps
<1>5. CASE HdrTimeout
  BY <1>1, <1>5, HdrTimeoutKeeps
<1>6. CASE Copy
  BY <1>1, <1>6, CopyKeeps
<1>7. CASE SenderMove
  BY <1>1, <1>7, SenderMoveKeeps
<1>8. CASE SenderRepeat
  BY <1>1, <1>8, SenderRepeatKeeps
<1>9. CASE LoseAnswer \/ LoseItem \/ Garble \/ Noise
  BY <1>1, <1>9, LineKeeps
<1>10. CASE UNCHANGED vars
  <2>1. UNCHANGED <<pc, hdr, crcMode, nextBlk, txAck, pkt, got, spc, sent, line, back>>
    BY <1>10 DEF vars, receiver, sender
  <2> QED BY <1>1, <2>1 DEF XmodemInv, XmodemTypeOK, DeliveredWhole, NoneSkipped, Complete,
            AllThere, LastGot, Receiving, OneUnderWay, NotBegun, InStep, Top
<1> QED BY <1>1, <1>2, <1>3, <1>4, <1>5, <1>6, <1>7, <1>8, <1>9, <1>10 DEF Next, Receive, Over

\* What has arrived is the start of the file without a gap, and all of it when
\* the download succeeds (Xmodem_read, do_xmodem_download): for files and
\* buffers of every length, every width of the block number that tells three
\* blocks apart, any number of retries, and a line that loses, garbles and adds
\* without limit.
THEOREM AlwaysDeliveredWhole == Spec => []DeliveredWhole
<1>1. XmodemInv => DeliveredWhole
  BY DEF XmodemInv
<1> QED BY <1>1, XmodemInitOK, XmodemStepOK, PTL DEF Spec

\* The sender never believes a block delivered that the receiver has not taken
\* (Xmodem_get_header, Xmodem_read), for all of these.
THEOREM AckedAlwaysTaken == Spec => []AckedIsTaken
<1>1. XmodemInv => AckedIsTaken
  <2>1. SUFFICES ASSUME XmodemInv, pc = "read", spc = "wait", sent > 1,
                        ~(hdr = "copy" /\ pkt = sent - 1)
                 PROVE  \E i \in 1 .. Len(got) : got[i] = sent - 1
    BY DEF AckedIsTaken
  <2>2. PICK k \in 1 .. Blocks, s \in Nat : k = Top /\ s = sent /\ s \in {k, k + 1}
    BY <2>1 DEF XmodemInv, InStep
  <2>3. LastGot \in 0 .. Blocks /\ Blocks \in Nat
    BY <2>1, XmodemAssumption DEF XmodemInv, XmodemTypeOK, LastGot
  <2>4. sent - 1 \in 1 .. LastGot
    <3>1. CASE hdr = "copy"
      BY <2>1, <2>2, <2>3, <3>1 DEF XmodemInv, InStep, Top
    <3>2. CASE hdr # "copy"
      BY <2>1, <2>2, <2>3, <3>2 DEF Top
    <3> QED BY <3>1, <3>2
  <2> QED BY <2>1, <2>4 DEF XmodemInv, AllThere
<1> QED BY <1>1, XmodemInitOK, XmodemStepOK, PTL DEF Spec
=============================================================================
