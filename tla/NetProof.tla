------------------------------ MODULE NetProof ------------------------------
(***************************************************************************)
(* Proofs about the network.  The descriptor rings of the Ethernet drivers, *)
(* for every size of ring: the ownership rings of emac_sl2312.c and         *)
(* gmac_sl2312.c, and the pointer rings of sl_lepus_gmac.c.  The ARP cache  *)
(* and the ping command (Ping), sending a file by TFTP (TftpPut), the       *)
(* upload of the web server (Web), and the registers of the PHYs, for every *)
(* width of a frame (Mii).                                                  *)
(***************************************************************************)
EXTENDS Gmac, Emac, Mii, Ping, TftpPut, Web, FiniteSetTheorems, SequenceTheorems, TLAPS

\* How far slot i lies behind slot a, going round a ring of n.
Dist(a, i, n) == IF i >= a THEN i - a ELSE i - a + n

\* The slot before i.
Prev(i, n) == IF i = 0 THEN n - 1 ELSE i - 1

-----------------------------------------------------------------------------
(* Going round a ring                                                       *)

\* next_descriptor, without the remainder.
LEMMA AfterIs ==
  ASSUME NEW n \in Nat \ {0}, NEW d \in 0 .. n - 1
  PROVE  After(d, n) = IF d = n - 1 THEN 0 ELSE d + 1
<1>1. CASE d = n - 1
  <2>1. d + 1 = n
    BY <1>1
  <2>2. n % n = 0
    OBVIOUS
  <2> QED BY <1>1, <2>1, <2>2 DEF After
<1>2. CASE d < n - 1
  <2> DEFINE m == d + 1
  <2>1. m \in Nat /\ m < n
    BY <1>2
  <2> HIDE DEF m
  <2>2. m % n = m
    BY <2>1
  <2> QED BY <1>2, <2>2 DEF After, m
<1> QED BY <1>1, <1>2

\* The descriptor after one of the ring is one of the ring.
LEMMA AfterType ==
  ASSUME NEW n \in Nat \ {0}, NEW d \in 0 .. n - 1
  PROVE  After(d, n) \in 0 .. n - 1
<1>1. CASE d = n - 1
  BY <1>1, AfterIs
<1>2. CASE d # n - 1
  <2>1. d + 1 \in 0 .. n - 1
    BY <1>2
  <2> QED BY <1>2, <2>1, AfterIs
<1> QED BY <1>1, <1>2

\* One slot further is one more step away, until the ring closes.
LEMMA DistAfter ==
  ASSUME NEW n \in Nat \ {0}, NEW a \in 0 .. n - 1, NEW i \in 0 .. n - 1
  PROVE  /\ Dist(a, i, n) \in 0 .. n - 1 /\ Dist(a, a, n) = 0
         /\ Dist(a, i, n) = 0 => i = a
         /\ After(i, n) \in 0 .. n - 1 /\ Prev(i, n) \in 0 .. n - 1
         /\ Prev(After(i, n), n) = i /\ After(Prev(i, n), n) = i
         /\ Dist(a, i, n) < n - 1 => Dist(a, After(i, n), n) = Dist(a, i, n) + 1
         /\ Dist(a, i, n) = n - 1 => After(i, n) = a
         /\ i # a => /\ Dist(After(a, n), i, n) = Dist(a, i, n) - 1
                     /\ Dist(a, Prev(i, n), n) = Dist(a, i, n) - 1
         /\ Dist(After(a, n), a, n) = n - 1
<1>1. /\ After(i, n) = IF i = n - 1 THEN 0 ELSE i + 1
      /\ After(a, n) = IF a = n - 1 THEN 0 ELSE a + 1
  BY AfterIs
<1>2. /\ Prev(i, n) \in 0 .. n - 1 /\ Prev(After(i, n), n) = i
      /\ After(Prev(i, n), n) = i
  BY <1>1, AfterIs DEF Prev
<1> QED BY <1>1, <1>2 DEF Dist, Prev

\* Two slots at the same distance are one.
LEMMA DistInjective ==
  ASSUME NEW n \in Nat \ {0}, NEW a \in 0 .. n - 1, NEW i \in 0 .. n - 1, NEW j \in 0 .. n - 1
  PROVE  /\ Dist(a, i, n) = Dist(a, j, n) => i = j
         /\ Dist(i, a, n) = Dist(j, a, n) => i = j
  BY DEF Dist

-----------------------------------------------------------------------------
(* A ring of descriptors with an owner bit                                  *)

\* k descriptors from head on are mine, the others are not, and tail is the
\* one after them.  Their frames follow each other: f is the first one (or
\* the next one to come), last the one before tail (or before f).
Ring(n, own, mine, data, head, tail, k, f, last) ==
  /\ head \in 0 .. n - 1 /\ tail \in 0 .. n - 1 /\ k \in 0 .. n
  /\ \A i \in 0 .. n - 1 : own[i] = mine <=> Dist(head, i, n) < k
  /\ k < n => Dist(head, tail, n) = k
  /\ k = n => tail = head
  /\ k > 0 => data[head] = f /\ last = data[Prev(tail, n)]
  /\ k = 0 => f = Plus1(last)
  /\ \A i \in 0 .. n - 1 :
        0 < Dist(head, i, n) /\ Dist(head, i, n) < k => data[i] = Plus1(data[Prev(i, n)])

\* The engine (or the driver) fills the descriptor at the tail.
LEMMA RingPush ==
  ASSUME NEW n \in Nat \ {0}, NEW own \in [0 .. n - 1 -> {"CPU", "DMA"}],
         NEW mine \in {"CPU", "DMA"}, NEW data, DOMAIN data = 0 .. n - 1,
         data = [i \in 0 .. n - 1 |-> data[i]],
         NEW head, NEW tail, NEW k, NEW f, NEW last,
         Ring(n, own, mine, data, head, tail, k, f, last), own[tail] # mine
  PROVE  Ring(n, [own EXCEPT ![tail] = mine], mine, [data EXCEPT ![tail] = Plus1(last)],
              head, After(tail, n), k + 1, f, Plus1(last))
<1> DEFINE own2 == [own EXCEPT ![tail] = mine]
           data2 == [data EXCEPT ![tail] = Plus1(last)]
           tail2 == After(tail, n)
<1>1. head \in 0 .. n - 1 /\ tail \in 0 .. n - 1 /\ k \in 0 .. n
  BY DEF Ring
<1>2. k < n /\ Dist(head, tail, n) = k
  <2>1. ~ (Dist(head, tail, n) < k)
    BY <1>1 DEF Ring
  <2>2. Dist(head, tail, n) >= 0 /\ Dist(head, tail, n) < n
    BY <1>1 DEF Dist
  <2>3. k # n
    BY <1>1, <2>1, <2>2
  <2> QED BY <1>1, <2>3 DEF Ring
<1>3. /\ tail2 \in 0 .. n - 1 /\ Prev(tail2, n) = tail
      /\ k + 1 < n => Dist(head, tail2, n) = k + 1
      /\ k + 1 = n => tail2 = head
  <2>1. tail2 = IF tail = n - 1 THEN 0 ELSE tail + 1
    BY <1>1, AfterIs
  <2>2. tail2 \in 0 .. n - 1 /\ Prev(tail2, n) = tail
    BY <1>1, DistAfter
  <2> HIDE DEF tail2
  <2>3. k = IF tail >= head THEN tail - head ELSE tail - head + n
    BY <1>2 DEF Dist
  <2>4. ASSUME k + 1 < n PROVE Dist(head, tail2, n) = k + 1
    BY <1>1, <2>1, <2>3, <2>4 DEF Dist
  <2>5. ASSUME k + 1 = n PROVE tail2 = head
    BY <1>1, <2>1, <2>3, <2>5
  <2> QED BY <2>2, <2>4, <2>5
<1>4. ASSUME NEW i \in 0 .. n - 1
      PROVE  own2[i] = mine <=> Dist(head, i, n) < k + 1
  <2>1. Dist(head, i, n) \in 0 .. n - 1 /\ (Dist(head, i, n) = k => i = tail)
    BY <1>1, <1>2 DEF Dist
  <2>2. own[i] = mine <=> Dist(head, i, n) < k
    BY DEF Ring
  <2>3. own2[i] = IF i = tail THEN mine ELSE own[i]
    OBVIOUS
  <2> HIDE DEF own2
  <2> QED BY <1>1, <1>2, <2>1, <2>2, <2>3
<1>5. /\ data2[tail] = Plus1(last)
      /\ \A i \in 0 .. n - 1 : i # tail => data2[i] = data[i]
  BY <1>1
<1>6. data2[head] = f
  <2>1. CASE k = 0
    <3>1. tail = head
      BY <1>1, <1>2, <2>1, DistAfter
    <3> QED BY <1>5, <2>1, <3>1 DEF Ring
  <2>2. CASE k > 0
    <3>1. tail # head
      BY <1>1, <1>2, <2>2, DistAfter
    <3> HIDE DEF data2
    <3> QED BY <1>1, <1>5, <2>2, <3>1 DEF Ring
  <2> QED BY <1>1, <2>1, <2>2
<1>7. ASSUME NEW i \in 0 .. n - 1, 0 < Dist(head, i, n), Dist(head, i, n) < k + 1
      PROVE  data2[i] = Plus1(data2[Prev(i, n)])
  <2>0. i # head /\ Prev(i, n) \in 0 .. n - 1
    BY <1>1, <1>7, DistAfter
  <2>1. Dist(head, Prev(i, n), n) = Dist(head, i, n) - 1 /\ Dist(head, i, n) \in Nat
    BY <1>1, <2>0, DistAfter
  <2>2. Prev(i, n) # tail
    BY <1>1, <1>2, <1>7, <2>1
  <2>3. data2[Prev(i, n)] = data[Prev(i, n)]
    <3> HIDE DEF data2
    <3> QED BY <1>5, <2>0, <2>2
  <2>4. CASE i = tail
    <3>1. k > 0 /\ last = data[Prev(tail, n)]
      BY <1>1, <1>2, <1>7, <2>4 DEF Ring
    <3> HIDE DEF data2
    <3> QED BY <1>5, <2>3, <2>4, <3>1
  <2>5. CASE i # tail
    <3>1. Dist(head, i, n) < k
      BY <1>1, <1>2, <1>7, <2>1, <2>5, DistInjective
    <3>2. data[i] = Plus1(data[Prev(i, n)])
      BY <1>7, <3>1 DEF Ring
    <3> HIDE DEF data2
    <3> QED BY <1>5, <2>3, <2>5, <3>2
  <2> QED BY <2>4, <2>5
<1> HIDE DEF own2, data2, tail2
<1>8. k + 1 \in 0 .. n /\ k + 1 > 0 /\ k + 1 # 0
  BY <1>1, <1>2
<1>9. Ring(n, own2, mine, data2, head, tail2, k + 1, f, Plus1(last))
  BY <1>1, <1>3, <1>4, <1>5, <1>6, <1>7, <1>8 DEF Ring
<1> QED BY <1>9 DEF own2, data2, tail2

\* The other side gives the descriptor at the head back.
LEMMA RingPop ==
  ASSUME NEW n \in Nat \ {0}, NEW own \in [0 .. n - 1 -> {"CPU", "DMA"}],
         NEW mine \in {"CPU", "DMA"}, NEW other \in {"CPU", "DMA"}, mine # other,
         NEW data, NEW head, NEW tail, NEW k, NEW f, NEW last,
         Ring(n, own, mine, data, head, tail, k, f, last), own[head] = mine
  PROVE  Ring(n, [own EXCEPT ![head] = other], mine, data,
              After(head, n), tail, k - 1, Plus1(f), last)
<1> DEFINE own2 == [own EXCEPT ![head] = other]
           head2 == After(head, n)
<1>1. head \in 0 .. n - 1 /\ tail \in 0 .. n - 1 /\ k \in 0 .. n
  BY DEF Ring
<1>2. k > 0 /\ data[head] = f /\ last = data[Prev(tail, n)]
  BY <1>1, DistAfter DEF Ring
<1>3. head2 \in 0 .. n - 1 /\ Prev(head2, n) = head /\ Dist(head2, head, n) = n - 1
  BY <1>1, DistAfter
<1>4. ASSUME NEW i \in 0 .. n - 1, i # head
      PROVE  Dist(head2, i, n) = Dist(head, i, n) - 1 /\ Dist(head, i, n) \in Nat
  <2>1. head2 = IF head = n - 1 THEN 0 ELSE head + 1
    BY <1>1, AfterIs
  <2> HIDE DEF head2
  <2> QED BY <1>1, <1>4, <2>1 DEF Dist
<1>5. ASSUME NEW i \in 0 .. n - 1
      PROVE  own2[i] = mine <=> Dist(head2, i, n) < k - 1
  <2>1. own2[i] = IF i = head THEN other ELSE own[i]
    BY <1>1
  <2>2. own[i] = mine <=> Dist(head, i, n) < k
    BY DEF Ring
  <2> HIDE DEF own2, head2
  <2>3. CASE i = head
    BY <1>1, <1>3, <2>1, <2>3
  <2>4. CASE i # head
    BY <1>1, <1>4, <2>1, <2>2, <2>4
  <2> QED BY <2>3, <2>4
<1>6. /\ k - 1 < n => Dist(head2, tail, n) = k - 1
      /\ k - 1 # n
  <2>1. CASE tail = head
    <3>1. k = n
      BY <1>1, <1>2, <2>1, DistAfter DEF Ring
    <3> HIDE DEF head2
    <3> QED BY <1>1, <1>3, <2>1, <3>1
  <2>2. CASE tail # head
    <3>1. Dist(head, tail, n) = k
      BY <1>1, <2>2 DEF Ring
    <3> HIDE DEF head2
    <3> QED BY <1>1, <1>4, <2>2, <3>1
  <2> QED BY <2>1, <2>2
<1>7. ASSUME k - 1 = 0 PROVE Plus1(f) = Plus1(last)
  <2>1. tail = head2
    <3>1. tail \in 0 .. n - 1 /\ Dist(head2, tail, n) = 0
      BY <1>1, <1>6, <1>7
    <3> HIDE DEF head2
    <3> QED BY <1>3, <3>1, DistAfter
  <2> QED BY <1>2, <1>3, <2>1
<1>8. ASSUME k - 1 > 0 PROVE data[head2] = Plus1(f)
  <2>1. n > 1
    BY <1>1, <1>8
  <2>2. Dist(head, head2, n) = 1
    <3>1. head2 = IF head = n - 1 THEN 0 ELSE head + 1
      BY <1>1, AfterIs
    <3> HIDE DEF head2
    <3> QED BY <1>1, <2>1, <3>1 DEF Dist
  <2> HIDE DEF head2
  <2>3. data[head2] = Plus1(data[Prev(head2, n)])
    BY <1>1, <1>3, <1>8, <2>2 DEF Ring
  <2> QED BY <1>2, <1>3, <2>3
<1>9. ASSUME NEW i \in 0 .. n - 1, 0 < Dist(head2, i, n), Dist(head2, i, n) < k - 1
      PROVE  data[i] = Plus1(data[Prev(i, n)])
  <2> HIDE DEF head2
  <2>1. i # head
    BY <1>1, <1>3, <1>9
  <2>2. 0 < Dist(head, i, n) /\ Dist(head, i, n) < k
    BY <1>1, <1>4, <1>9, <2>1
  <2> QED BY <2>2 DEF Ring
<1> HIDE DEF own2, head2
<1>10. k - 1 \in 0 .. n
  BY <1>1, <1>2
<1>11. Ring(n, own2, mine, data, head2, tail, k - 1, Plus1(f), last)
  BY <1>1, <1>2, <1>3, <1>5, <1>6, <1>7, <1>8, <1>9, <1>10 DEF Ring
<1> QED BY <1>11 DEF own2, head2

-----------------------------------------------------------------------------
(* emac_sl2312.c and gmac_sl2312.c                                          *)

EmacTypeOK ==
  /\ chip \in {"emac", "gmac"} /\ macOn \in BOOLEAN
  /\ at \in {"start", "enable", "dma", "idle", "look", "release", "restart", "kick"}
  /\ rxOwn \in [0 .. RxDesc - 1 -> {"CPU", "DMA"}]
  /\ rxData \in [0 .. RxDesc - 1 -> 0 .. FrameMod - 1]
  /\ txOwn \in [0 .. TxDesc - 1 -> {"CPU", "DMA"}]
  /\ txData \in [0 .. TxDesc - 1 -> 0 .. FrameMod - 1]
  /\ rxCur \in 0 .. RxDesc - 1 /\ rxDma \in 0 .. RxDesc - 1 /\ rxBusy \in BOOLEAN
  /\ txCur \in 0 .. TxDesc - 1 /\ txDma \in 0 .. TxDesc - 1 /\ txBusy \in BOOLEAN
  /\ stored \in 0 .. FrameMod - 1 /\ taken \in 0 .. FrameMod - 1
  /\ queued \in 0 .. FrameMod - 1 /\ gone \in 0 .. FrameMod - 1

\* The frame in the first descriptor that is the driver's: the next one to
\* take, or the one just taken whose descriptor is not yet given back.
FirstRx == IF at = "release" THEN taken ELSE Plus1(taken)

RxRingIs(k) == Ring(RxDesc, rxOwn, "CPU", rxData, rxCur, rxDma, k, FirstRx, stored)
TxRingIs(k) == Ring(TxDesc, txOwn, "DMA", txData, txDma, txCur, k, Plus1(gone), queued)

RxRingOK ==
  /\ \E k \in 0 .. RxDesc : RxRingIs(k)
  /\ at = "release" => rxOwn[rxCur] = "CPU"

TxRingOK ==
  /\ \E k \in 0 .. TxDesc : TxRingIs(k)
  /\ at # "kick" /\ txOwn[txDma] = "DMA" => txBusy

EmacInv == EmacTypeOK /\ RxRingOK /\ TxRingOK

\* Frame numbers stay in their range.
LEMMA Plus1Type ==
  ASSUME NEW f \in 0 .. FrameMod - 1
  PROVE  Plus1(f) \in 0 .. FrameMod - 1
<1>1. FrameMod \in Nat \ {0} /\ f + 1 \in Int
  BY EmacAssumption
<1> QED BY <1>1 DEF Plus1

\* emac_init_desc_buf: both rings empty, every receive descriptor with the engine.
LEMMA EmacInitOK == EmacInit => EmacInv
<1> SUFFICES ASSUME EmacInit PROVE EmacInv
  OBVIOUS
<1>1. /\ RxDesc \in Nat \ {0} /\ TxDesc \in Nat \ {0} /\ FrameMod \in Nat /\ FrameMod > 1
      /\ 0 \in 0 .. RxDesc - 1 /\ 0 \in 0 .. TxDesc - 1 /\ 0 \in 0 .. FrameMod - 1
  BY EmacAssumption
<1>2. EmacTypeOK
  BY <1>1 DEF EmacInit, EmacTypeOK, RxRing, TxRing
<1>3. RxRingIs(0)
  <2>1. \A i \in 0 .. RxDesc - 1 : rxOwn[i] = "DMA" /\ Dist(0, i, RxDesc) >= 0
    BY <1>1 DEF EmacInit, RxRing, Dist
  <2>2. Dist(0, 0, RxDesc) = 0 /\ rxCur = 0 /\ rxDma = 0 /\ FirstRx = Plus1(stored)
    BY <1>1 DEF EmacInit, Dist, FirstRx
  <2>3. \A i \in 0 .. RxDesc - 1 : Dist(0, i, RxDesc) \in Int
    BY <1>1 DEF Dist
  <2> QED BY <1>1, <2>1, <2>2, <2>3 DEF RxRingIs, Ring
<1>4. TxRingIs(0)
  <2>1. \A i \in 0 .. TxDesc - 1 : txOwn[i] = "CPU" /\ Dist(0, i, TxDesc) >= 0
    BY <1>1 DEF EmacInit, TxRing, Dist
  <2>2. Dist(0, 0, TxDesc) = 0 /\ txCur = 0 /\ txDma = 0 /\ Plus1(gone) = Plus1(queued)
    BY <1>1 DEF EmacInit, Dist
  <2>3. \A i \in 0 .. TxDesc - 1 : Dist(0, i, TxDesc) \in Int
    BY <1>1 DEF Dist
  <2> QED BY <1>1, <2>1, <2>2, <2>3 DEF TxRingIs, Ring
<1>5. at # "release" /\ txOwn[txDma] # "DMA"
  BY <1>1 DEF EmacInit, TxRing
<1> QED BY <1>1, <1>2, <1>3, <1>4, <1>5 DEF EmacInv, RxRingOK, TxRingOK

\* A step that leaves a ring and its place in the driver alone.
LEMMA RxRingKept ==
  ASSUME RxRingOK, RxDesc \in Nat \ {0}, rxOwn' = rxOwn, rxData' = rxData, rxCur' = rxCur,
         rxDma' = rxDma, stored' = stored, taken' = taken, at # "release", at' # "release"
  PROVE  RxRingOK'
  BY DEF RxRingOK, RxRingIs, FirstRx

\* A step of the receive side does not disturb the transmit ring.
LEMMA TxRingKept ==
  ASSUME TxRingOK, txOwn' = txOwn, txData' = txData, txCur' = txCur, txDma' = txDma,
         queued' = queued, gone' = gone, txBusy' = txBusy, at' = "kick" <=> at = "kick"
  PROVE  TxRingOK'
  BY DEF TxRingOK, TxRingIs

\* The engine stores a frame.
LEMMA StepRxStore ==
  ASSUME EmacInv, RxStore
  PROVE  EmacInv'
<1>1. /\ EmacTypeOK /\ RxRingOK /\ TxRingOK /\ RxDesc \in Nat \ {0}
      /\ rxOwn[rxDma] # "CPU" /\ UNCHANGED <<chip, macOn, rxCur, rxBusy, taken, txVars, at>>
      /\ rxData' = [rxData EXCEPT ![rxDma] = Plus1(stored)]
      /\ rxOwn' = [rxOwn EXCEPT ![rxDma] = "CPU"]
      /\ stored' = Plus1(stored) /\ rxDma' = After(rxDma, RxDesc)
  BY EmacAssumption DEF EmacInv, RxStore
<1>2. Plus1(stored) \in 0 .. FrameMod - 1 /\ After(rxDma, RxDesc) \in 0 .. RxDesc - 1
  BY <1>1, Plus1Type, AfterType DEF EmacTypeOK
<1>3. EmacTypeOK'
  BY <1>1, <1>2 DEF EmacTypeOK, txVars
<1>4. TxRingOK'
  BY <1>1, TxRingKept DEF txVars
<1>5. RxRingOK'
  <2>1. PICK k \in 0 .. RxDesc : RxRingIs(k)
    BY <1>1 DEF RxRingOK
  <2>2. /\ rxOwn \in [0 .. RxDesc - 1 -> {"CPU", "DMA"}] /\ DOMAIN rxData = 0 .. RxDesc - 1
        /\ rxData = [i \in 0 .. RxDesc - 1 |-> rxData[i]]
    BY <1>1 DEF EmacTypeOK
  <2>3. Ring(RxDesc, rxOwn', "CPU", rxData', rxCur, rxDma', k + 1, FirstRx, stored')
    BY <1>1, <2>1, <2>2, RingPush DEF RxRingIs
  <2>4. RxRingIs(k + 1)' /\ k + 1 \in 0 .. RxDesc
    BY <1>1, <2>3 DEF RxRingIs, FirstRx, Ring
  <2>5. at = "release" => rxOwn'[rxCur] = "CPU"
    BY <1>1, <2>2 DEF RxRingOK, EmacTypeOK
  <2> QED BY <1>1, <2>4, <2>5 DEF RxRingOK
<1> QED BY <1>3, <1>4, <1>5 DEF EmacInv

\* The driver takes the frame, then gives the descriptor back.
LEMMA StepLook ==
  ASSUME EmacInv, Look
  PROVE  EmacInv'
<1>1. /\ EmacTypeOK /\ RxRingOK /\ TxRingOK /\ RxDesc \in Nat \ {0} /\ at = "look"
      /\ UNCHANGED <<chip, macOn, rxOwn, rxData, rxCur, rxDma, rxBusy, stored, txVars>>
      /\ IF rxOwn[rxCur] = "CPU" THEN at' = "release" /\ taken' = rxData[rxCur]
         ELSE at' = "restart" /\ UNCHANGED taken
  BY EmacAssumption DEF EmacInv, Look
<1>2. EmacTypeOK'
  BY <1>1 DEF EmacTypeOK, txVars
<1>3. TxRingOK'
  BY <1>1, TxRingKept DEF txVars
<1>4. RxRingOK'
  <2>1. PICK k \in 0 .. RxDesc : RxRingIs(k)
    BY <1>1 DEF RxRingOK
  <2>2. FirstRx' = FirstRx
    <3>1. CASE rxOwn[rxCur] = "CPU"
      <4>1. k > 0
        BY <1>1, <2>1, <3>1 DEF RxRingIs, Ring, Dist
      <4>2. rxData[rxCur] = FirstRx
        BY <2>1, <4>1 DEF RxRingIs, Ring
      <4> QED BY <1>1, <3>1, <4>2 DEF FirstRx
    <3>2. CASE rxOwn[rxCur] # "CPU"
      BY <1>1, <3>2 DEF FirstRx
    <3> QED BY <3>1, <3>2
  <2>3. RxRingIs(k)'
    BY <1>1, <2>1, <2>2 DEF RxRingIs
  <2> QED BY <1>1, <2>3 DEF RxRingOK
<1> QED BY <1>2, <1>3, <1>4 DEF EmacInv

\* The driver gives a receive descriptor back and turns to the next.
LEMMA StepRelease ==
  ASSUME EmacInv, NEW c, NEW nxt \in {"look", "restart"}, Release(c, nxt)
  PROVE  EmacInv'
<1>1. /\ EmacTypeOK /\ RxRingOK /\ TxRingOK /\ RxDesc \in Nat \ {0}
      /\ at = "release" /\ at' = nxt /\ rxOwn[rxCur] = "CPU"
      /\ rxOwn' = [rxOwn EXCEPT ![rxCur] = "DMA"] /\ rxCur' = After(rxCur, RxDesc)
      /\ UNCHANGED <<chip, macOn, rxData, rxDma, rxBusy, stored, taken, txVars>>
  BY EmacAssumption DEF EmacInv, Release, RxRingOK
<1>2. After(rxCur, RxDesc) \in 0 .. RxDesc - 1
  BY <1>1, AfterType DEF EmacTypeOK
<1>3. EmacTypeOK'
  BY <1>1, <1>2 DEF EmacTypeOK, txVars
<1>4. TxRingOK'
  BY <1>1, TxRingKept DEF txVars
<1>5. RxRingOK'
  <2>1. PICK k \in 0 .. RxDesc : RxRingIs(k)
    BY <1>1 DEF RxRingOK
  <2>2. rxOwn \in [0 .. RxDesc - 1 -> {"CPU", "DMA"}]
    BY <1>1 DEF EmacTypeOK
  <2>3. Ring(RxDesc, rxOwn', "CPU", rxData, rxCur', rxDma, k - 1, Plus1(FirstRx), stored)
    BY <1>1, <2>1, <2>2, RingPop DEF RxRingIs
  <2>4. FirstRx' = Plus1(FirstRx)
    BY <1>1 DEF FirstRx
  <2>5. RxRingIs(k - 1)' /\ k - 1 \in 0 .. RxDesc
    BY <1>1, <2>3, <2>4 DEF RxRingIs, Ring
  <2> QED BY <1>1, <2>5 DEF RxRingOK
<1> QED BY <1>3, <1>4, <1>5 DEF EmacInv

\* The driver queues a frame.
LEMMA StepFill ==
  ASSUME EmacInv, NEW c, Fill(c)
  PROVE  EmacInv'
<1>1. /\ EmacTypeOK /\ RxRingOK /\ TxRingOK /\ TxDesc \in Nat \ {0} /\ RxDesc \in Nat \ {0}
      /\ at = "idle" /\ at' = "kick" /\ txOwn[txCur] # "DMA"
      /\ UNCHANGED <<chip, macOn, rxVars, txDma, txBusy, gone>>
      /\ txData' = [txData EXCEPT ![txCur] = Plus1(queued)]
      /\ txOwn' = [txOwn EXCEPT ![txCur] = "DMA"]
      /\ queued' = Plus1(queued) /\ txCur' = After(txCur, TxDesc)
  BY EmacAssumption DEF EmacInv, Fill
<1>2. Plus1(queued) \in 0 .. FrameMod - 1 /\ After(txCur, TxDesc) \in 0 .. TxDesc - 1
  BY <1>1, Plus1Type, AfterType DEF EmacTypeOK
<1>3. EmacTypeOK'
  BY <1>1, <1>2 DEF EmacTypeOK, rxVars
<1>4. RxRingOK'
  BY <1>1, RxRingKept DEF rxVars
<1>5. TxRingOK'
  <2>1. PICK k \in 0 .. TxDesc : TxRingIs(k)
    BY <1>1 DEF TxRingOK
  <2>2. /\ txOwn \in [0 .. TxDesc - 1 -> {"CPU", "DMA"}] /\ DOMAIN txData = 0 .. TxDesc - 1
        /\ txData = [i \in 0 .. TxDesc - 1 |-> txData[i]]
    BY <1>1 DEF EmacTypeOK
  <2>3. Ring(TxDesc, txOwn', "DMA", txData', txDma, txCur', k + 1, Plus1(gone), queued')
    BY <1>1, <2>1, <2>2, RingPush DEF TxRingIs
  <2>4. TxRingIs(k + 1)' /\ k + 1 \in 0 .. TxDesc
    BY <1>1, <2>3 DEF TxRingIs, Ring
  <2> QED BY <1>1, <2>4 DEF TxRingOK
<1> QED BY <1>3, <1>4, <1>5 DEF EmacInv

\* The engine sends the frame at its place.
LEMMA StepTxTake ==
  ASSUME EmacInv, TxTake
  PROVE  EmacInv'
<1>1. /\ EmacTypeOK /\ RxRingOK /\ TxRingOK /\ TxDesc \in Nat \ {0}
      /\ txBusy = TRUE /\ txOwn[txDma] = "DMA" /\ gone' = txData[txDma]
      /\ txOwn' = [txOwn EXCEPT ![txDma] = "CPU"] /\ txDma' = After(txDma, TxDesc)
      /\ UNCHANGED <<chip, macOn, rxVars, txData, txCur, txBusy, queued, at>>
  BY EmacAssumption DEF EmacInv, TxTake, EmacTypeOK
<1>2. After(txDma, TxDesc) \in 0 .. TxDesc - 1
  BY <1>1, AfterType DEF EmacTypeOK
<1>3. EmacTypeOK'
  BY <1>1, <1>2 DEF EmacTypeOK, rxVars
<1>4. RxRingOK'
  BY <1>1 DEF RxRingOK, RxRingIs, FirstRx, rxVars
<1>5. TxRingOK'
  <2>1. PICK k \in 0 .. TxDesc : TxRingIs(k)
    BY <1>1 DEF TxRingOK
  <2>2. txOwn \in [0 .. TxDesc - 1 -> {"CPU", "DMA"}]
    BY <1>1 DEF EmacTypeOK
  <2>3. Ring(TxDesc, txOwn', "DMA", txData, txDma', txCur, k - 1, Plus1(Plus1(gone)), queued)
    BY <1>1, <2>1, <2>2, RingPop DEF TxRingIs
  <2>4. gone' = Plus1(gone)
    <3>1. k > 0
      BY <1>1, <2>1 DEF TxRingIs, Ring, Dist
    <3> QED BY <1>1, <2>1, <3>1 DEF TxRingIs, Ring
  <2>5. TxRingIs(k - 1)' /\ k - 1 \in 0 .. TxDesc
    BY <1>1, <2>3, <2>4 DEF TxRingIs, Ring
  <2> QED BY <1>1, <2>5 DEF TxRingOK
<1> QED BY <1>3, <1>4, <1>5 DEF EmacInv

\* The steps that move no frame.
LEMMA StepEmacQuiet ==
  ASSUME EmacInv,
         \/ EmacInitChip \/ GmacInitChip \/ EmacEnableTxRx \/ EmacHwStart \/ GmacHwStart
         \/ RxStop \/ TxStop \/ DeliverStart \/ GmacRestart \/ EmacRestart \/ Kick
         \/ UNCHANGED emacVars
  PROVE  EmacInv'
<1>1. /\ EmacTypeOK /\ RxRingOK /\ TxRingOK /\ RxDesc \in Nat \ {0}
  BY EmacAssumption DEF EmacInv
<1>2. /\ UNCHANGED <<chip, rxOwn, rxData, rxCur, rxDma, stored, taken>>
      /\ UNCHANGED <<txOwn, txData, txCur, txDma, queued, gone>>
      /\ macOn' \in BOOLEAN /\ rxBusy' \in BOOLEAN /\ txBusy' \in BOOLEAN
      /\ at' = at \/ (at # "release" /\ at' \in {"start", "enable", "dma", "idle", "look", "restart"})
      /\ txBusy' = TRUE \/ (txBusy' = txBusy /\ (at' = "kick" <=> at = "kick")) \/ txOwn[txDma] # "DMA"
  BY <1>1 DEF EmacInitChip, GmacInitChip, EmacEnableTxRx, EmacHwStart, GmacHwStart, RxStop, TxStop,
              DeliverStart, GmacRestart, EmacRestart, Kick, InitMac, HwStart, Restart, emacVars,
              rxVars, txVars, EmacTypeOK
<1>3. EmacTypeOK'
  BY <1>1, <1>2 DEF EmacTypeOK
<1>4. RxRingOK'
  BY <1>1, <1>2 DEF RxRingOK, RxRingIs, FirstRx
<1>5. TxRingOK'
  BY <1>1, <1>2 DEF TxRingOK, TxRingIs
<1> QED BY <1>3, <1>4, <1>5 DEF EmacInv

\* Every step of the SL2312 driver and of its engine keeps the invariant.
LEMMA EmacStepOK == EmacInv /\ [EmacNext]_emacVars => EmacInv'
  BY StepRxStore, StepLook, StepRelease, StepFill, StepTxTake, StepEmacQuiet
     DEF EmacNext, GmacRelease, EmacRelease, GmacFill, EmacFill

\* The invariant says that both rings are in order.
LEMMA EmacInvOrdered == EmacInv => RingsInOrder
<1> SUFFICES ASSUME EmacInv PROVE RingsInOrder
  OBVIOUS
<1>1. PICK k \in 0 .. RxDesc : RxRingIs(k)
  BY DEF EmacInv, RxRingOK
<1>2. PICK m \in 0 .. TxDesc : TxRingIs(m)
  BY DEF EmacInv, TxRingOK
<1>3. rxOwn[rxCur] = "CPU" => rxData[rxCur] = FirstRx
  BY <1>1, EmacAssumption DEF RxRingIs, Ring, Dist
<1>4. txOwn[txDma] = "DMA" => txData[txDma] = Plus1(gone)
  BY <1>2, EmacAssumption DEF TxRingIs, Ring, Dist
<1> QED BY <1>3, <1>4 DEF EmacInv, RxRingOK, TxRingOK, RingsInOrder, FirstRx

\* Received frames are taken in order, each once and before the engine may
\* overwrite it, frames go out in order, and none is left to a stopped engine
\* (sl2312_emac_deliver, sl2312_gmac_deliver and the two send routines), for
\* every number of descriptors.
THEOREM RingsAlwaysInOrder == EmacSpec => []RingsInOrder
  BY EmacInitOK, EmacStepOK, EmacInvOrdered, PTL DEF EmacSpec

-----------------------------------------------------------------------------
(* sl_lepus_gmac.c                                                          *)

\* One step of a ring pointer of Lepus, measured from another pointer.
LEMMA Next1Facts ==
  ASSUME NEW n \in Nat \ {0, 1}, NEW a \in 0 .. n - 1, NEW w \in 0 .. n - 1
  PROVE  /\ Next1(w, n) \in 0 .. n - 1 /\ Next1(w, n) # w
         /\ Dist(a, w, n) \in 0 .. n - 1 /\ (a = w <=> Dist(a, w, n) = 0)
         /\ Next1(w, n) # a => Dist(a, Next1(w, n), n) = Dist(a, w, n) + 1
         /\ Next1(w, n) = a <=> Dist(a, w, n) = n - 1
         /\ a # w => Dist(Next1(a, n), w, n) = Dist(a, w, n) - 1
         /\ Dist(Next1(a, n), a, n) = n - 1
         /\ Dist(w, Next1(w, n), n) = 1
<1>1. (w = n - 1 /\ Next1(w, n) = 0) \/ (w # n - 1 /\ Next1(w, n) = w + 1)
  BY DEF Next1
<1>2. (a = n - 1 /\ Next1(a, n) = 0) \/ (a # n - 1 /\ Next1(a, n) = a + 1)
  BY DEF Next1
<1>3. Next1(w, n) \in 0 .. n - 1 /\ Next1(w, n) # w
  BY <1>1
<1>4. Dist(a, w, n) \in 0 .. n - 1 /\ (a = w <=> Dist(a, w, n) = 0)
  BY DEF Dist
<1>5. Next1(w, n) # a => Dist(a, Next1(w, n), n) = Dist(a, w, n) + 1
  BY <1>1 DEF Dist
<1>6. Next1(w, n) = a <=> Dist(a, w, n) = n - 1
  BY <1>1 DEF Dist
<1>7. a # w => Dist(Next1(a, n), w, n) = Dist(a, w, n) - 1
  BY <1>2 DEF Dist
<1>8. Dist(Next1(a, n), a, n) = n - 1
  BY <1>2 DEF Dist
<1>9. Dist(w, Next1(w, n), n) = 1
  BY <1>1 DEF Dist
<1> QED BY <1>3, <1>4, <1>5, <1>6, <1>7, <1>8, <1>9

\* A distance along the ring is less than the ring's size.
LEMMA DistNat ==
  ASSUME NEW n \in Nat \ {0, 1}, NEW a \in 0 .. n - 1, NEW w \in 0 .. n - 1
  PROVE  Dist(a, w, n) \in Nat /\ Dist(a, w, n) <= n - 1 /\ (Dist(a, w, n) = 0 <=> a = w)
  BY DEF Dist

\* The write pointer goes on, unless the ring is full.
LEMMA WriteOn ==
  ASSUME NEW n \in Nat \ {0, 1}, NEW a \in 0 .. n - 1, NEW w \in 0 .. n - 1,
         Next1(w, n) # a \/ Dist(a, w, n) # n - 1
  PROVE  Next1(w, n) \in 0 .. n - 1 /\ Dist(a, Next1(w, n), n) = Dist(a, w, n) + 1
<1>1. /\ Next1(w, n) \in 0 .. n - 1
      /\ Next1(w, n) # a => Dist(a, Next1(w, n), n) = Dist(a, w, n) + 1
      /\ Next1(w, n) = a <=> Dist(a, w, n) = n - 1
  BY Next1Facts
<1> QED BY <1>1

\* The read pointer goes on, unless the ring is empty.
LEMMA ReadOn ==
  ASSUME NEW n \in Nat \ {0, 1}, NEW a \in 0 .. n - 1, NEW w \in 0 .. n - 1, a # w
  PROVE  Next1(a, n) \in 0 .. n - 1 /\ Dist(Next1(a, n), w, n) = Dist(a, w, n) - 1
<1>1. Dist(Next1(a, n), w, n) = Dist(a, w, n) - 1
  BY Next1Facts
<1>2. Next1(a, n) \in 0 .. n - 1
  BY DEF Next1
<1> QED BY <1>1, <1>2

\* A slot between two others splits the way.
LEMMA DistSplit ==
  ASSUME NEW n \in Nat \ {0, 1}, NEW a \in 0 .. n - 1, NEW i \in 0 .. n - 1, NEW w \in 0 .. n - 1,
         Dist(a, i, n) < Dist(a, w, n)
  PROVE  Dist(a, i, n) + Dist(i, w, n) = Dist(a, w, n)
  BY DEF Dist

\* The entries between the read and the write pointer are those less far from
\* the read pointer than the write pointer is.
LEMMA BetweenIs ==
  ASSUME NEW n \in Nat \ {0, 1}, NEW p, p.r \in 0 .. n - 1, p.w \in 0 .. n - 1, NEW i
  PROVE  i \in Between(p, n) <=> i \in 0 .. n - 1 /\ Dist(p.r, i, n) < Dist(p.r, p.w, n)
<1>1. CASE i \in 0 .. n - 1
  <2> DEFINE r == p.r
             w == p.w
  <2>1. r \in 0 .. n - 1 /\ w \in 0 .. n - 1
    OBVIOUS
  <2>2. i \in Between(p, n) <=> IF r <= w THEN r <= i /\ i < w ELSE r <= i \/ i < w
    BY <1>1 DEF Between
  <2> HIDE DEF r, w
  <2>3. (IF r <= w THEN r <= i /\ i < w ELSE r <= i \/ i < w) <=> Dist(r, i, n) < Dist(r, w, n)
    BY <1>1, <2>1 DEF Dist
  <2> QED BY <1>1, <2>2, <2>3 DEF r, w
<1>2. CASE i \notin 0 .. n - 1
  BY <1>2 DEF Between
<1> QED BY <1>1, <1>2

GmacTypeOK ==
  /\ free \in [r : 0 .. FreeNum - 1, w : 0 .. FreeNum - 1]
  /\ rx \in [r : 0 .. RxNum - 1, w : 0 .. RxNum - 1]
  /\ rxDesc \in [0 .. RxNum - 1 -> 0 .. FreeNum - 1]
  /\ tx \in [r : 0 .. TxNum - 1, w : 0 .. TxNum - 1]
  /\ drv \in [at : {"phy", "chip", "enable", "idle", "copy", "read", "free", "hang"},
              r : 0 .. RxNum - 1, w : 0 .. RxNum - 1, n : Nat]

\* The buffers of the frames on the default queue are the ones the engine
\* took last, in that order: as far before the free queue's read pointer as
\* the descriptor is before the write pointer.
Placed(desc, r, w, fr) ==
  \A i \in 0 .. RxNum - 1 :
     Dist(r, i, RxNum) < Dist(r, w, RxNum)
       => Dist(desc[i], fr, FreeNum) = Dist(i, w, RxNum)

\* Buffers are on the free queue, on the default queue, or just copied.
Conserved ==
  Dist(free.r, free.w, FreeNum) + Dist(rx.r, rx.w, RxNum)
    + (IF drv.at = "free" THEN 1 ELSE 0) = FreeNum - 1

\* The pointers toe_gmac_handle_default_rxq works with: its read pointer is
\* the queue's, its write pointer one the queue's has passed.
LocalsFit ==
  /\ drv.at \in {"copy", "read", "free"} =>
        drv.r = rx.r /\ Dist(rx.r, drv.w, RxNum) <= Dist(rx.r, rx.w, RxNum)
  /\ drv.at \in {"copy", "read"} => drv.r # drv.w

GmacInv ==
  /\ GmacTypeOK /\ Placed(rxDesc, rx.r, rx.w, free.r) /\ Conserved /\ LocalsFit

\* A frame placed at the write pointer, in the next buffer of the free queue.
LEMMA PlacedPush ==
  ASSUME NEW desc \in [0 .. RxNum - 1 -> 0 .. FreeNum - 1],
         NEW r \in 0 .. RxNum - 1, NEW w \in 0 .. RxNum - 1, NEW fr \in 0 .. FreeNum - 1,
         Placed(desc, r, w, fr), Next1(w, RxNum) # r, Dist(r, w, RxNum) < FreeNum - 1
  PROVE  Placed([desc EXCEPT ![w] = fr], r, Next1(w, RxNum), Next1(fr, FreeNum))
<1> DEFINE d2 == [desc EXCEPT ![w] = fr]
           w2 == Next1(w, RxNum)
           fr2 == Next1(fr, FreeNum)
<1>0. RxNum \in Nat \ {0, 1} /\ FreeNum \in Nat \ {0, 1}
  BY GmacAssumption
<1>1. /\ Dist(r, w2, RxNum) = Dist(r, w, RxNum) + 1 /\ Dist(w, w2, RxNum) = 1
      /\ Dist(fr, fr2, FreeNum) = 1 /\ Dist(r, w, RxNum) \in Nat
  <2>1. Dist(r, w2, RxNum) = Dist(r, w, RxNum) + 1 /\ Dist(w, w2, RxNum) = 1
    BY <1>0, Next1Facts
  <2>2. Dist(fr, fr2, FreeNum) = 1
    BY <1>0, Next1Facts
  <2>3. Dist(r, w, RxNum) \in Nat
    BY <1>0 DEF Dist
  <2> QED BY <2>1, <2>2, <2>3
<1>2. ASSUME NEW i \in 0 .. RxNum - 1, Dist(r, i, RxNum) < Dist(r, w2, RxNum)
      PROVE  Dist(d2[i], fr2, FreeNum) = Dist(i, w2, RxNum)
  <2>1. CASE i = w
    BY <1>1, <2>1
  <2>2. CASE i # w
    <3>1. Dist(r, i, RxNum) \in Nat /\ Dist(r, i, RxNum) < Dist(r, w, RxNum)
      <4> HIDE DEF w2
      <4>1. Dist(r, i, RxNum) # Dist(r, w, RxNum)
        BY <1>0, <2>2 DEF Dist
      <4>2. Dist(r, i, RxNum) \in Nat
        BY <1>0 DEF Dist
      <4> QED BY <1>1, <1>2, <4>1, <4>2
    <3>2. Dist(desc[i], fr, FreeNum) = Dist(i, w, RxNum) /\ d2[i] = desc[i] /\ desc[i] \in 0 .. FreeNum - 1
      BY <2>2, <3>1 DEF Placed
    <3>3. Dist(r, i, RxNum) + Dist(i, w, RxNum) = Dist(r, w, RxNum)
      BY <1>0, <3>1, DistSplit
    <3>4. Dist(i, w, RxNum) \in Nat
      BY <1>0 DEF Dist
    <3>5. Dist(i, w, RxNum) < FreeNum - 1 /\ Dist(i, w, RxNum) < RxNum - 1
      <4>1. Dist(r, w, RxNum) # RxNum - 1 /\ Dist(r, w, RxNum) \in 0 .. RxNum - 1
        BY <1>0, Next1Facts
      <4> DEFINE x == Dist(r, w, RxNum)
                 y == Dist(r, i, RxNum)
                 z == Dist(i, w, RxNum)
      <4>2. x # RxNum - 1 /\ x \in 0 .. RxNum - 1 /\ y \in Nat /\ z \in Nat /\ y + z = x /\ x < FreeNum - 1
        BY <3>1, <3>3, <3>4, <4>1
      <4> HIDE DEF x, y, z
      <4>3. z < FreeNum - 1 /\ z < RxNum - 1
        BY <1>0, <4>2
      <4> QED BY <4>3 DEF z
    <3>6. w2 # i /\ fr2 # desc[i]
      <4>1. w2 = i <=> Dist(i, w, RxNum) = RxNum - 1
        BY <1>0, Next1Facts
      <4>2. fr2 = desc[i] <=> Dist(desc[i], fr, FreeNum) = FreeNum - 1
        <5>1. ASSUME NEW b \in 0 .. FreeNum - 1
              PROVE  fr2 = b <=> Dist(b, fr, FreeNum) = FreeNum - 1
          BY <1>0, Next1Facts
        <5> QED BY <3>2, <5>1
      <4> HIDE DEF w2, fr2
      <4> QED BY <1>0, <3>2, <3>4, <3>5, <4>1, <4>2
    <3>7. Dist(i, w2, RxNum) = Dist(i, w, RxNum) + 1
      BY <1>0, <3>6, Next1Facts
    <3>8. Dist(desc[i], fr2, FreeNum) = Dist(desc[i], fr, FreeNum) + 1
      BY <1>0, <3>2, <3>6, Next1Facts
    <3> QED BY <3>2, <3>7, <3>8
  <2> QED BY <2>1, <2>2
<1> HIDE DEF d2, w2, fr2
<1>3. Placed(d2, r, w2, fr2)
  BY <1>2 DEF Placed
<1> QED BY <1>3 DEF d2, w2, fr2

\* The driver takes the frame at the read pointer.
LEMMA PlacedPop ==
  ASSUME NEW desc, NEW r \in 0 .. RxNum - 1, NEW w \in 0 .. RxNum - 1, NEW fr,
         Placed(desc, r, w, fr), r # w
  PROVE  Placed(desc, Next1(r, RxNum), w, fr)
<1>0. RxNum \in Nat \ {0, 1}
  BY GmacAssumption
<1>1. /\ Dist(Next1(r, RxNum), w, RxNum) = Dist(r, w, RxNum) - 1
      /\ Dist(Next1(r, RxNum), r, RxNum) = RxNum - 1 /\ Dist(r, w, RxNum) \in 0 .. RxNum - 1
  BY <1>0, Next1Facts
<1>2. ASSUME NEW i \in 0 .. RxNum - 1,
             Dist(Next1(r, RxNum), i, RxNum) < Dist(Next1(r, RxNum), w, RxNum)
      PROVE  Dist(r, i, RxNum) < Dist(r, w, RxNum)
  <2>1. i # r
    BY <1>0, <1>1, <1>2
  <2>2. Dist(Next1(r, RxNum), i, RxNum) = Dist(r, i, RxNum) - 1 /\ Dist(r, i, RxNum) \in 0 .. RxNum - 1
    BY <1>0, <2>1, Next1Facts
  <2> QED BY <1>0, <1>1, <1>2, <2>2
<1> QED BY <1>2 DEF Placed

\* toe_gmac_sl2312_init: the receive queue is empty, the free queue full.
LEMMA GmacInitOK == GmacInit => GmacInv
<1> SUFFICES ASSUME GmacInit PROVE GmacInv
  OBVIOUS
<1>0. /\ RxNum \in Nat \ {0, 1} /\ FreeNum \in Nat \ {0, 1} /\ TxNum \in Nat \ {0, 1}
      /\ 0 \in 0 .. RxNum - 1 /\ 0 \in 0 .. FreeNum - 1 /\ FreeNum - 1 \in 0 .. FreeNum - 1
      /\ 0 \in 0 .. TxNum - 1
  BY GmacAssumption
<1>1. /\ free = [r |-> 0, w |-> FreeNum - 1] /\ rx = [r |-> 0, w |-> 0] /\ tx = [r |-> 0, w |-> 0]
      /\ drv = [at |-> "phy", r |-> 0, w |-> 0, n |-> 0]
      /\ rxDesc = [i \in 0 .. RxNum - 1 |-> 0]
  BY DEF GmacInit, FreeInit, DefaultInit, SwTxInit, Idle
<1>2. GmacTypeOK
  BY <1>0, <1>1 DEF GmacTypeOK
<1>3. Dist(0, 0, RxNum) = 0 /\ Dist(0, FreeNum - 1, FreeNum) = FreeNum - 1
  BY <1>0 DEF Dist
<1>4. Placed(rxDesc, 0, 0, 0)
  <2>1. \A i \in 0 .. RxNum - 1 : ~ (Dist(0, i, RxNum) < 0)
    BY <1>0 DEF Dist
  <2> QED BY <1>3, <2>1 DEF Placed
<1>5. Conserved /\ LocalsFit
  BY <1>0, <1>1, <1>3 DEF Conserved, LocalsFit
<1> QED BY <1>1, <1>2, <1>4, <1>5 DEF GmacInv

\* The types, spelled out for the steps below.
LEMMA GmacTypes ==
  ASSUME GmacTypeOK
  PROVE  /\ free.r \in 0 .. FreeNum - 1 /\ free.w \in 0 .. FreeNum - 1
         /\ rx.r \in 0 .. RxNum - 1 /\ rx.w \in 0 .. RxNum - 1
         /\ drv.r \in 0 .. RxNum - 1 /\ drv.w \in 0 .. RxNum - 1 /\ drv.n \in Nat
         /\ rxDesc \in [0 .. RxNum - 1 -> 0 .. FreeNum - 1]
         /\ RxNum \in Nat \ {0, 1} /\ FreeNum \in Nat \ {0, 1} /\ TxNum \in Nat \ {0, 1}
  BY GmacAssumption DEF GmacTypeOK

\* The engine receives a frame into the next free buffer.
LEMMA StepReceive ==
  ASSUME GmacInv, Receive
  PROVE  GmacInv'
<1> DEFINE fr == Next1(free.r, FreeNum)
           w2 == Next1(rx.w, RxNum)
<1>0. GmacTypeOK /\ Placed(rxDesc, rx.r, rx.w, free.r) /\ Conserved /\ LocalsFit
  BY DEF GmacInv
<1>1. /\ free.r # free.w /\ w2 # rx.r
      /\ rxDesc' = [rxDesc EXCEPT ![rx.w] = free.r]
      /\ rx' = [rx EXCEPT !.w = w2] /\ free' = [free EXCEPT !.r = fr]
      /\ tx' = tx /\ drv' = drv
  BY DEF Receive
<1>2. /\ free.r \in 0 .. FreeNum - 1 /\ free.w \in 0 .. FreeNum - 1
      /\ rx.r \in 0 .. RxNum - 1 /\ rx.w \in 0 .. RxNum - 1
      /\ drv.r \in 0 .. RxNum - 1 /\ drv.w \in 0 .. RxNum - 1
      /\ rxDesc \in [0 .. RxNum - 1 -> 0 .. FreeNum - 1]
      /\ RxNum \in Nat \ {0, 1} /\ FreeNum \in Nat \ {0, 1}
  BY <1>0, GmacTypes
<1>3. w2 \in 0 .. RxNum - 1 /\ Dist(rx.r, w2, RxNum) = Dist(rx.r, rx.w, RxNum) + 1
  BY <1>1, <1>2, WriteOn
<1>4. /\ fr \in 0 .. FreeNum - 1 /\ Dist(fr, free.w, FreeNum) = Dist(free.r, free.w, FreeNum) - 1
  BY <1>1, <1>2, ReadOn
<1>5. /\ Dist(free.r, free.w, FreeNum) \in Nat /\ Dist(free.r, free.w, FreeNum) # 0
      /\ Dist(rx.r, rx.w, RxNum) \in Nat
  <2>1. Dist(rx.r, rx.w, RxNum) \in Nat
    BY <1>2, DistNat
  <2>2. Dist(free.r, free.w, FreeNum) \in Nat /\ Dist(free.r, free.w, FreeNum) # 0
    BY <1>1, <1>2, DistNat
  <2> QED BY <2>1, <2>2
<1>6. Dist(rx.r, rx.w, RxNum) < FreeNum - 1
  BY <1>0, <1>2, <1>5 DEF Conserved
<1>7. Placed(rxDesc', rx.r, w2, fr)
  BY <1>0, <1>1, <1>2, <1>6, PlacedPush
<1>8. /\ rx'.r = rx.r /\ rx'.w = w2 /\ free'.r = fr /\ free'.w = free.w
  BY <1>0, <1>1 DEF GmacTypeOK
<1> HIDE DEF fr, w2
<1>9. GmacTypeOK'
  <2>1. rxDesc' \in [0 .. RxNum - 1 -> 0 .. FreeNum - 1]
    BY <1>1, <1>2
  <2> QED BY <1>0, <1>1, <1>3, <1>4, <2>1 DEF GmacTypeOK
<1>10. Conserved'
  BY <1>0, <1>1, <1>2, <1>3, <1>4, <1>5, <1>8 DEF Conserved
<1>11. LocalsFit'
  <2>1. Dist(rx.r, drv.w, RxNum) \in Nat
    BY SMTT(30), <1>2 DEF Dist
  <2> QED BY <1>0, <1>1, <1>3, <1>5, <1>8, <2>1 DEF LocalsFit
<1> QED BY <1>7, <1>8, <1>9, <1>10, <1>11 DEF GmacInv

\* The driver sets the receive queue's read pointer.
LEMMA StepSetRptr ==
  ASSUME GmacInv, SetRptr
  PROVE  GmacInv'
<1> DEFINE r2 == Next1(rx.r, RxNum)
<1>0. GmacTypeOK /\ Placed(rxDesc, rx.r, rx.w, free.r) /\ Conserved /\ LocalsFit
  BY DEF GmacInv
<1>1. /\ drv.at = "read" /\ drv.r = rx.r /\ drv.r # drv.w
      /\ Dist(rx.r, drv.w, RxNum) <= Dist(rx.r, rx.w, RxNum)
      /\ rx' = [rx EXCEPT !.r = r2] /\ drv' = [drv EXCEPT !.at = "free", !.r = r2]
      /\ free' = free /\ rxDesc' = rxDesc /\ tx' = tx
  BY <1>0 DEF SetRptr, LocalsFit
<1>2. /\ free.r \in 0 .. FreeNum - 1 /\ free.w \in 0 .. FreeNum - 1
      /\ rx.r \in 0 .. RxNum - 1 /\ rx.w \in 0 .. RxNum - 1
      /\ drv.r \in 0 .. RxNum - 1 /\ drv.w \in 0 .. RxNum - 1
      /\ RxNum \in Nat \ {0, 1} /\ FreeNum \in Nat \ {0, 1}
  BY <1>0, GmacTypes
<1>3. rx.r # rx.w
  BY <1>1, <1>2 DEF Dist
<1>4. /\ r2 \in 0 .. RxNum - 1 /\ Dist(r2, rx.w, RxNum) = Dist(rx.r, rx.w, RxNum) - 1
  BY <1>2, <1>3, ReadOn
<1>5. Dist(r2, drv.w, RxNum) = Dist(rx.r, drv.w, RxNum) - 1
  BY <1>1, <1>2, ReadOn
<1>6. /\ Dist(free.r, free.w, FreeNum) \in Nat /\ Dist(rx.r, rx.w, RxNum) \in Nat
      /\ Dist(rx.r, drv.w, RxNum) \in Nat
  BY <1>2 DEF Dist
<1>7. Placed(rxDesc, r2, rx.w, free.r)
  BY <1>0, <1>2, <1>3, PlacedPop
<1>8. /\ rx'.r = r2 /\ rx'.w = rx.w
      /\ drv'.at = "free" /\ drv'.r = r2 /\ drv'.w = drv.w
  BY <1>0, <1>1 DEF GmacTypeOK
<1> HIDE DEF r2
<1>9. GmacTypeOK'
  BY <1>0, <1>1, <1>4 DEF GmacTypeOK
<1>10. Conserved'
  BY <1>0, <1>1, <1>2, <1>4, <1>6, <1>8 DEF Conserved
<1>11. LocalsFit'
  BY <1>1, <1>4, <1>5, <1>6, <1>8 DEF LocalsFit
<1> QED BY <1>1, <1>7, <1>8, <1>9, <1>10, <1>11 DEF GmacInv

\* The driver sets the free queue's write pointer.
LEMMA StepSetWptr ==
  ASSUME GmacInv, SetWptr
  PROVE  GmacInv'
<1> DEFINE w2 == Next1(free.w, FreeNum)
<1>0. GmacTypeOK /\ Placed(rxDesc, rx.r, rx.w, free.r) /\ Conserved /\ LocalsFit
  BY DEF GmacInv
<1>1. /\ drv.at = "free" /\ free' = [free EXCEPT !.w = w2]
      /\ drv' = (IF drv.r # drv.w /\ drv.n < Batch
                 THEN [drv EXCEPT !.at = "copy", !.n = @ + 1] ELSE Idle)
      /\ rx' = rx /\ rxDesc' = rxDesc /\ tx' = tx
  BY DEF SetWptr
<1>2. /\ free.r \in 0 .. FreeNum - 1 /\ free.w \in 0 .. FreeNum - 1
      /\ rx.r \in 0 .. RxNum - 1 /\ rx.w \in 0 .. RxNum - 1
      /\ drv.r \in 0 .. RxNum - 1 /\ drv.w \in 0 .. RxNum - 1 /\ drv.n \in Nat
      /\ RxNum \in Nat \ {0, 1} /\ FreeNum \in Nat \ {0, 1}
  BY <1>0, GmacTypes
<1>3. /\ Dist(free.r, free.w, FreeNum) \in Nat /\ Dist(rx.r, rx.w, RxNum) \in Nat
  BY <1>2 DEF Dist
<1>4. Dist(free.r, free.w, FreeNum) # FreeNum - 1
  BY <1>0, <1>1, <1>2, <1>3 DEF Conserved
<1>5. w2 \in 0 .. FreeNum - 1 /\ Dist(free.r, w2, FreeNum) = Dist(free.r, free.w, FreeNum) + 1
  BY <1>2, <1>4, WriteOn
<1>6. /\ free'.r = free.r /\ free'.w = w2
      /\ drv'.at \in {"copy", "idle"}
      /\ drv'.at = "copy" => drv'.r = drv.r /\ drv'.w = drv.w /\ drv.r # drv.w
  BY <1>0, <1>1 DEF GmacTypeOK, Idle
<1> HIDE DEF w2
<1>7. drv' \in [at : {"phy", "chip", "enable", "idle", "copy", "read", "free", "hang"},
                r : 0 .. RxNum - 1, w : 0 .. RxNum - 1, n : Nat]
  <2>1. 0 \in 0 .. RxNum - 1 /\ drv.n + 1 \in Nat
    BY <1>2
  <2>2. CASE drv.r # drv.w /\ drv.n < Batch
    BY <1>0, <1>1, <2>1, <2>2 DEF GmacTypeOK
  <2>3. CASE ~(drv.r # drv.w /\ drv.n < Batch)
    BY <1>1, <2>1, <2>3 DEF Idle
  <2> QED BY <2>2, <2>3
<1>8. GmacTypeOK'
  BY <1>0, <1>1, <1>5, <1>7 DEF GmacTypeOK
<1>9. Conserved'
  BY <1>0, <1>1, <1>2, <1>3, <1>5, <1>6 DEF Conserved
<1>10. LocalsFit'
  BY <1>0, <1>1, <1>6 DEF LocalsFit
<1> QED BY <1>0, <1>1, <1>6, <1>8, <1>9, <1>10 DEF GmacInv

\* The driver reads both pointers of the receive queue.
LEMMA StepDeliver ==
  ASSUME GmacInv, Deliver
  PROVE  GmacInv'
<1>0. GmacTypeOK /\ Placed(rxDesc, rx.r, rx.w, free.r) /\ Conserved /\ LocalsFit
  BY DEF GmacInv
<1>1. /\ drv.at = "idle" /\ UNCHANGED <<rings, tx>>
      /\ drv' = [at |-> IF rx.r # swRead THEN "hang" ELSE IF rx.r # rx.w THEN "copy" ELSE "idle",
                 r |-> rx.r, w |-> rx.w, n |-> 1]
  BY DEF Deliver
<1>2. /\ free' = free /\ rx' = rx /\ rxDesc' = rxDesc /\ tx' = tx
      /\ drv'.at \in {"hang", "copy", "idle"} /\ drv'.r = rx.r /\ drv'.w = rx.w
      /\ drv'.at = "copy" => rx.r # rx.w
  BY <1>1 DEF rings
<1>3. /\ rx.r \in 0 .. RxNum - 1 /\ rx.w \in 0 .. RxNum - 1 /\ RxNum \in Nat \ {0, 1}
  BY <1>0, GmacTypes
<1>4. drv' \in [at : {"phy", "chip", "enable", "idle", "copy", "read", "free", "hang"},
                r : 0 .. RxNum - 1, w : 0 .. RxNum - 1, n : Nat]
  BY <1>1, <1>3
<1>5. GmacTypeOK'
  BY <1>0, <1>2, <1>4 DEF GmacTypeOK
<1>6. Conserved'
  BY <1>0, <1>1, <1>2 DEF Conserved
<1>7. Dist(rx.r, rx.w, RxNum) \in Nat
  BY <1>3 DEF Dist
<1>8. LocalsFit'
  BY <1>2, <1>7 DEF LocalsFit
<1> QED BY <1>0, <1>2, <1>5, <1>6, <1>8 DEF GmacInv

\* The steps that move no buffer.
LEMMA StepGmacQuiet ==
  ASSUME GmacInv,
         \/ SetPhyStatus \/ InitChip \/ ToeInitGmac \/ Transmit \/ Plug \/ Copy \/ Send
         \/ UNCHANGED gmacVars
  PROVE  GmacInv'
<1>0. GmacTypeOK /\ Placed(rxDesc, rx.r, rx.w, free.r) /\ Conserved /\ LocalsFit
  BY DEF GmacInv
<1>1. free' = free /\ rx' = rx /\ rxDesc' = rxDesc
  BY DEF SetPhyStatus, InitChip, ToeInitGmac, Transmit, Plug, Copy, Send, gmacVars, rings
<1>2. tx' \in [r : 0 .. TxNum - 1, w : 0 .. TxNum - 1]
  <2>1. tx \in [r : 0 .. TxNum - 1, w : 0 .. TxNum - 1] /\ TxNum \in Nat \ {0, 1}
    BY <1>0, GmacTypes DEF GmacTypeOK
  <2>2. Next1(tx.r, TxNum) \in 0 .. TxNum - 1 /\ Next1(tx.w, TxNum) \in 0 .. TxNum - 1
    BY <2>1, Next1Facts
  <2>3. \/ tx' = tx \/ tx' = [tx EXCEPT !.r = Next1(@, TxNum)] \/ tx' = [tx EXCEPT !.w = Next1(@, TxNum)]
    BY DEF SetPhyStatus, InitChip, ToeInitGmac, Transmit, Plug, Copy, Send, gmacVars
  <2> QED BY <2>1, <2>2, <2>3
<1>3. \/ drv' = drv
      \/ drv.at = "copy" /\ \E a \in {"hang", "read"} : drv' = [drv EXCEPT !.at = a]
      \/ drv.at \in {"phy", "chip"} /\ \E a \in {"chip", "enable"} : drv' = [drv EXCEPT !.at = a]
      \/ drv.at \in {"enable", "idle"} /\ drv' = Idle
      \/ drv.at \in {"enable", "idle"} /\ drv' = [Idle EXCEPT !.at = "hang"]
  BY DEF SetPhyStatus, InitChip, ToeInitGmac, Transmit, Plug, Copy, Send, gmacVars
<1>4. drv' \in [at : {"phy", "chip", "enable", "idle", "copy", "read", "free", "hang"},
                r : 0 .. RxNum - 1, w : 0 .. RxNum - 1, n : Nat]
  <2>1. 0 \in 0 .. RxNum - 1
    BY GmacAssumption
  <2>2. CASE drv' = drv
    BY <1>0, <2>2 DEF GmacTypeOK
  <2>3. CASE \E a \in {"hang", "read", "chip", "enable"} : drv' = [drv EXCEPT !.at = a]
    BY <1>0, <2>3 DEF GmacTypeOK
  <2>4. CASE drv' = Idle \/ drv' = [Idle EXCEPT !.at = "hang"]
    BY <2>1, <2>4 DEF Idle
  <2> QED BY <1>3, <2>2, <2>3, <2>4
<1>5. /\ drv'.at = "free" <=> drv.at = "free"
      /\ drv'.at \in {"copy", "read", "free"} =>
            /\ drv.at \in {"copy", "read", "free"} /\ (drv.at = "free" <=> drv'.at = "free")
            /\ drv'.r = drv.r /\ drv'.w = drv.w
  BY <1>0, <1>3 DEF GmacTypeOK, Idle
<1>6. GmacTypeOK'
  BY <1>0, <1>1, <1>2, <1>4 DEF GmacTypeOK
<1>7. Conserved'
  BY <1>0, <1>1, <1>5 DEF Conserved
<1>8. LocalsFit'
  BY <1>0, <1>1, <1>5 DEF LocalsFit
<1> QED BY <1>0, <1>1, <1>6, <1>7, <1>8 DEF GmacInv

\* Every step of the Lepus driver and of its engine keeps the invariant.
LEMMA GmacStepOK == GmacInv /\ [GmacNext]_gmacVars => GmacInv'
  BY StepReceive, StepSetRptr, StepSetWptr, StepDeliver, StepGmacQuiet DEF GmacNext

\* The buffers of the default queue are distinct and not the engine's.
LEMMA GmacInvIntact == GmacInv => RxIntact
<1> SUFFICES ASSUME GmacInv PROVE RxIntact
  OBVIOUS
<1> DEFINE B == Between(rx, RxNum)
           used == {rxDesc[i] : i \in B}
           c == Dist(rx.r, rx.w, RxNum)
<1>0. GmacTypeOK /\ Placed(rxDesc, rx.r, rx.w, free.r) /\ Conserved
  BY DEF GmacInv
<1>1. /\ free.r \in 0 .. FreeNum - 1 /\ free.w \in 0 .. FreeNum - 1
      /\ rx.r \in 0 .. RxNum - 1 /\ rx.w \in 0 .. RxNum - 1
      /\ rxDesc \in [0 .. RxNum - 1 -> 0 .. FreeNum - 1]
      /\ RxNum \in Nat \ {0, 1} /\ FreeNum \in Nat \ {0, 1}
  BY <1>0, GmacTypes
<1>2. ASSUME NEW i \in B
      PROVE  /\ i \in 0 .. RxNum - 1 /\ rxDesc[i] \in 0 .. FreeNum - 1
             /\ Dist(rxDesc[i], free.r, FreeNum) = Dist(i, rx.w, RxNum)
             /\ Dist(i, rx.w, RxNum) <= c /\ Dist(i, rx.w, RxNum) > 0
  <2>1. i \in 0 .. RxNum - 1 /\ Dist(rx.r, i, RxNum) < c
    BY <1>1, <1>2, BetweenIs
  <2>2. Dist(rx.r, i, RxNum) + Dist(i, rx.w, RxNum) = c
    BY <1>1, <2>1, DistSplit
  <2>3. Dist(rx.r, i, RxNum) \in Nat /\ Dist(i, rx.w, RxNum) \in Nat /\ c \in Nat
    BY <1>1, <2>1, DistNat
  <2>4. Dist(rxDesc[i], free.r, FreeNum) = Dist(i, rx.w, RxNum)
    BY <1>0, <2>1 DEF Placed
  <2> HIDE DEF c
  <2> QED BY <1>1, <2>1, <2>2, <2>3, <2>4
<1>3. ASSUME NEW i \in B, NEW j \in B, rxDesc[i] = rxDesc[j] PROVE i = j
  BY <1>1, <1>2, <1>3, DistInjective
<1>4. Cardinality(used) = Cardinality(B)
  <2> DEFINE f == [i \in B |-> rxDesc[i]]
  <2>1. B \subseteq 0 .. RxNum - 1 /\ IsFiniteSet(B)
    <3>1. B \subseteq 0 .. RxNum - 1
      BY DEF Between
    <3>2. IsFiniteSet(0 .. RxNum - 1)
      BY <1>1, FS_Interval
    <3> QED BY <3>1, <3>2, FS_Subset
  <2>2. f \in Bijection(B, used)
    BY <1>3 DEF Bijection, Injection, Surjection, IsInjective
  <2>3. ExistsBijection(B, used)
    BY <2>2 DEF ExistsBijection
  <2> QED BY <2>1, <2>3, FS_Bijection
<1>5. used \cap Between(free, FreeNum) = {}
  <2>1. ASSUME NEW i \in B, rxDesc[i] \in Between(free, FreeNum) PROVE FALSE
    <3> DEFINE b == rxDesc[i]
    <3>1. /\ b \in 0 .. FreeNum - 1 /\ Dist(b, free.r, FreeNum) <= c /\ Dist(b, free.r, FreeNum) > 0
      BY <1>2
    <3>2. Dist(free.r, b, FreeNum) < Dist(free.r, free.w, FreeNum)
      BY <1>1, <2>1, BetweenIs
    <3>3. c \in Nat
      BY <1>1 DEF Dist
    <3>4. Dist(free.r, free.w, FreeNum) <= FreeNum - 1 - c
      <4>1. Dist(free.r, free.w, FreeNum) \in Nat
        BY <1>1 DEF Dist
      <4> QED BY <1>0, <1>1, <3>3, <4>1 DEF Conserved
    <3> HIDE DEF b, c
    <3>5. Dist(free.r, b, FreeNum) >= FreeNum - c
      BY <1>1, <3>1, <3>3 DEF Dist
    <3>6. Dist(free.r, b, FreeNum) \in Nat /\ Dist(free.r, free.w, FreeNum) \in Nat
      BY <1>1, <3>1, DistNat
    <3> QED BY <1>1, <3>2, <3>3, <3>4, <3>5, <3>6
  <2> QED BY <2>1
<1> QED BY <1>4, <1>5 DEF RxIntact

\* Frames that toe_gmac_handle_default_rxq has not yet copied lie in
\* different buffers, none of which the DMA engine owns, for every size of
\* the free and the default queue.
THEOREM RxAlwaysIntact == GmacSpec => []RxIntact
  BY GmacInitOK, GmacStepOK, GmacInvIntact, PTL DEF GmacSpec
-----------------------------------------------------------------------------
(* arp.c                                                                    *)

Request == [ip : Host \cup {NoHost}, left : Nat]

ArpTypeOK ==
  /\ arpTbl \in [Slot -> Host \cup {NoHost}] /\ arpNum \in Nat
  /\ listens \in BOOLEAN /\ req \in Seq(Request)

\* The entries in use.
Used(tbl) == {i \in Slot : tbl[i] # NoHost}

\* Some waiting request has set the listener and has not yet removed it; a
\* request that found no buffer, though on the stack, is not one of these.
ListenerWaited == listens => \E i \in 1 .. Len(req) : req[i].ip # NoHost

ArpInv == ArpTypeOK /\ ArpSound /\ ListenerWaited

\* The table is finite.
LEMMA SlotFinite == IsFiniteSet(Slot) /\ \A tbl : IsFiniteSet(Used(tbl))
<1>1. CacheNum - 1 \in Int /\ 0 \in Int
  BY PingAssumption
<1>2. IsFiniteSet(Slot)
  BY <1>1, FS_Interval DEF Slot
<1>3. \A tbl : Used(tbl) \subseteq Slot
  BY DEF Used
<1> QED BY <1>2, <1>3, FS_Subset

\* What a lookup asks for is an address.
LEMMA NextHopHost == \A h : NextHop(h) \in Host /\ NextHop(h) # NoHost
  BY PingAssumption DEF NextHop

\* arp_reply_listener: an entry that was free is taken, and counted.
LEMMA LearnSound ==
  ASSUME ArpInv, NEW h \in Host, Learn(h)
  PROVE  /\ arpTbl' \in [Slot -> Host \cup {NoHost}] /\ arpNum' \in Nat
         /\ arpNum' = Cardinality(Used(arpTbl'))
         /\ \A i, j \in Slot : i # j /\ arpTbl'[i] = arpTbl'[j] => arpTbl'[i] = NoHost
<1>0. /\ arpTbl \in [Slot -> Host \cup {NoHost}] /\ arpNum \in Nat
      /\ arpNum = Cardinality(Used(arpTbl))
      /\ \A i, j \in Slot : i # j /\ arpTbl[i] = arpTbl[j] => arpTbl[i] = NoHost
  BY DEF ArpInv, ArpTypeOK, ArpSound, Used
<1>1. CASE LearnAt(h) = {}
  <2>1. arpTbl' = arpTbl /\ arpNum' = arpNum
    BY <1>1 DEF Learn
  <2> QED BY <1>0, <2>1
<1>2. CASE LearnAt(h) # {}
  <2>1. PICK i \in LearnAt(h) : arpTbl' = [arpTbl EXCEPT ![i] = h] /\ arpNum' = arpNum + 1
    BY <1>2 DEF Learn
  <2>2. ~Cached(h) /\ i \in Slot /\ arpTbl[i] = NoHost
    BY <2>1 DEF LearnAt
  <2>3. h # NoHost
    BY PingAssumption
  <2>4. \A j \in Slot : arpTbl'[j] = IF j = i THEN h ELSE arpTbl[j]
    BY <1>0, <2>1, <2>2
  <2>5. Used(arpTbl') = Used(arpTbl) \cup {i} /\ i \notin Used(arpTbl)
    BY <2>2, <2>3, <2>4 DEF Used
  <2>6. Cardinality(Used(arpTbl')) = Cardinality(Used(arpTbl)) + 1
    BY <2>5, SlotFinite, FS_AddElement
  <2>7. \A j \in Slot : arpTbl[j] # h
    BY <2>2 DEF Cached
  <2>8. ASSUME NEW j \in Slot, NEW k \in Slot, j # k, arpTbl'[j] = arpTbl'[k]
        PROVE  arpTbl'[j] = NoHost
    BY <1>0, <2>4, <2>7, <2>8
  <2>9. arpTbl' \in [Slot -> Host \cup {NoHost}] /\ arpNum' \in Nat
    BY <1>0, <2>1, <2>2
  <2> QED BY <1>0, <2>1, <2>6, <2>8, <2>9
<1> QED BY <1>1, <1>2

\* arp_flush_cache: no entry is in use, and none is counted.
LEMMA FlushSound ==
  ASSUME Flush
  PROVE  /\ arpTbl' \in [Slot -> Host \cup {NoHost}] /\ arpNum' \in Nat
         /\ arpNum' = Cardinality(Used(arpTbl'))
         /\ \A i, j \in Slot : i # j /\ arpTbl'[i] = arpTbl'[j] => arpTbl'[i] = NoHost
<1>1. arpTbl' = [i \in Slot |-> NoHost] /\ arpNum' = 0
  BY DEF Flush
<1>2. Used(arpTbl') = {}
  BY <1>1 DEF Used
<1> QED BY <1>1, <1>2, FS_EmptySet

\* arp_request: a request for an address sets the listener; one that has no
\* buffer does not.
LEMMA AskSound ==
  ASSUME ArpInv, NEW h \in Host, Ask(h)
  PROVE  /\ req' \in Seq(Request) /\ listens' \in BOOLEAN /\ req' # <<>>
         /\ ListenerWaited'
<1>0. req \in Seq(Request) /\ listens \in BOOLEAN /\ ListenerWaited /\ h # NoHost
  BY PingAssumption DEF ArpInv, ArpTypeOK
<1>1. CASE req' = Append(req, [ip |-> h, left |-> Tries - 1]) /\ listens' = TRUE
  <2> DEFINE r == [ip |-> h, left |-> Tries - 1]
  <2>1. r \in Request
    BY PingAssumption DEF Request
  <2>2. r.ip = h
    OBVIOUS
  <2> HIDE DEF r
  <2>3. req' = Append(req, r)
    BY <1>1 DEF r
  <2>4. /\ req' \in Seq(Request) /\ req' # <<>> /\ Len(req') \in 1 .. Len(req')
        /\ req'[Len(req')] = r
    BY <1>0, <2>1, <2>3
  <2> QED BY <1>0, <1>1, <2>2, <2>4 DEF ListenerWaited
<1>2. CASE req' = Append(req, [ip |-> NoHost, left |-> 0]) /\ UNCHANGED listens
  <2> DEFINE r == [ip |-> NoHost, left |-> 0]
  <2>1. r \in Request
    BY DEF Request
  <2> HIDE DEF r
  <2>3. req' = Append(req, r)
    BY <1>2 DEF r
  <2>4. /\ req' \in Seq(Request) /\ req' # <<>> /\ Len(req') = Len(req) + 1 /\ Len(req) \in Nat
        /\ \A i \in 1 .. Len(req) : req'[i] = req[i] /\ i \in 1 .. Len(req')
    BY <1>0, <2>1, <2>3
  <2> QED BY <1>0, <1>2, <2>4 DEF ListenerWaited
<1> QED BY <1>1, <1>2 DEF Ask

\* The invariant after a step, put together.
LEMMA ArpAssemble ==
  ASSUME arpTbl' \in [Slot -> Host \cup {NoHost}], arpNum' \in Nat,
         arpNum' = Cardinality(Used(arpTbl')),
         \A i, j \in Slot : i # j /\ arpTbl'[i] = arpTbl'[j] => arpTbl'[i] = NoHost,
         req' \in Seq(Request), listens' \in BOOLEAN, ListenerWaited'
  PROVE  ArpInv'
<1>1. listens' => req' # <<>>
  <2>1. SUFFICES ASSUME listens', req' = <<>> PROVE FALSE
    OBVIOUS
  <2>2. Len(req') = 0
    BY <2>1
  <2> QED BY <2>1, <2>2 DEF ListenerWaited
<1> QED BY <1>1 DEF ArpInv, ArpTypeOK, ArpSound, Used

\* A request leaves the stack: the listener is gone, or was another's.
LEMMA PopSound ==
  ASSUME ArpInv, req # <<>>, req' = SubSeq(req, 1, Len(req) - 1), listens' \in BOOLEAN,
         listens' => listens /\ req[Len(req)].ip = NoHost
  PROVE  req' \in Seq(Request) /\ ListenerWaited'
<1>0. req \in Seq(Request) /\ ListenerWaited /\ Len(req) \in Nat /\ Len(req) >= 1
  BY DEF ArpInv, ArpTypeOK
<1>1. PICK m \in Int : m = Len(req) - 1
  BY <1>0
<1>2. /\ req' \in Seq(Request) /\ Len(req') = m
      /\ \A i \in 1 .. m : req'[i] = req[i]
  BY <1>0, <1>1, SubSeqProperties
<1>3. ASSUME listens' PROVE \E i \in 1 .. Len(req') : req'[i].ip # NoHost
  <2>1. PICK i \in 1 .. Len(req) : req[i].ip # NoHost
    BY <1>0, <1>3 DEF ListenerWaited
  <2>2. i # Len(req)
    BY <1>3, <2>1
  <2>3. i \in 1 .. m
    BY <1>0, <1>1, <2>1, <2>2
  <2> QED BY <1>2, <2>1, <2>3
<1> QED BY <1>2, <1>3 DEF ListenerWaited


\* Every step of the polling loop, of ping and of the network keeps the ARP
\* cache and its listener as they should be.
LEMMA ArpStep ==
  ASSUME ArpInv, PingNext
  PROVE  ArpInv'
<1> USE DEF ArpInv
<1>0. /\ arpTbl \in [Slot -> Host \cup {NoHost}] /\ arpNum \in Nat
      /\ arpNum = Cardinality(Used(arpTbl))
      /\ \A i, j \in Slot : i # j /\ arpTbl[i] = arpTbl[j] => arpTbl[i] = NoHost
      /\ req \in Seq(Request) /\ listens \in BOOLEAN /\ ListenerWaited
  BY DEF ArpTypeOK, ArpSound, Used
<1>1. ASSUME UNCHANGED arp PROVE ArpInv'
  <2>1. arpTbl' = arpTbl /\ arpNum' = arpNum /\ listens' = listens /\ req' = req
    BY <1>1 DEF arp
  <2> QED BY <1>0, <2>1, ArpAssemble DEF ListenerWaited
<1>2. ASSUME UNCHANGED <<arpTbl, arpNum>>, req' \in Seq(Request), listens' \in BOOLEAN,
             ListenerWaited'
      PROVE  ArpInv'
  BY <1>0, <1>2, ArpAssemble
<1>3. ASSUME NEW h, LookUpMiss(h) PROVE ArpInv'
  <2>1. NextHop(h) \in Host
    BY NextHopHost
  <2>2. req' \in Seq(Request) /\ listens' \in BOOLEAN /\ ListenerWaited'
    BY <1>3, <2>1, AskSound DEF LookUpMiss
  <2>3. CASE Flush
    BY <2>2, <2>3, FlushSound, ArpAssemble
  <2>4. CASE UNCHANGED <<arpTbl, arpNum>>
    BY <1>2, <2>2, <2>4
  <2> QED BY <1>3, <2>3, <2>4 DEF LookUpMiss
<1>4. ASSUME NEW h, req # <<>>, Answer(h), listens' \in BOOLEAN,
             listens' => listens /\ req[Len(req)].ip = NoHost,
             UNCHANGED <<arpTbl, arpNum>>
      PROVE  ArpInv'
  <2>1. req' = SubSeq(req, 1, Len(req) - 1)
    BY <1>4 DEF Answer
  <2>2. req' \in Seq(Request) /\ ListenerWaited'
    BY <1>4, <2>1, PopSound
  <2> QED BY <1>2, <1>4, <2>2
<1>5. CASE ArpReply
  <2>1. UNCHANGED <<listens, req>>
    BY <1>5 DEF ArpReply
  <2>2. req' \in Seq(Request) /\ listens' \in BOOLEAN /\ ListenerWaited'
    BY <1>0, <2>1 DEF ListenerWaited
  <2>3. PICK h \in Host : Learn(h) \/ UNCHANGED <<arpTbl, arpNum>>
    BY <1>5 DEF ArpReply
  <2> QED BY <1>2, <2>2, <2>3, LearnSound, ArpAssemble
<1>6. CASE NestedLookUp
  BY <1>3, <1>6 DEF NestedLookUp
<1>7. CASE RequestFound
  BY <1>4, <1>7 DEF RequestFound
<1>8. CASE RequestTimeout
  <2> DEFINE top == req[Len(req)]
  <2>1. req # <<>> /\ UNCHANGED <<arpTbl, arpNum>>
    BY <1>8 DEF RequestTimeout
  <2>2. CASE top.ip # NoHost /\ top.left > 0 /\ listens' = TRUE
             /\ req' = [req EXCEPT ![Len(req)].left = @ - 1]
    <3>1. /\ Len(req) \in 1 .. Len(req) /\ Len(req) \in Nat /\ top \in Request
      BY <1>0, <2>1
    <3> DEFINE r == [top EXCEPT !.left = @ - 1]
    <3>2. r \in Request /\ r.ip = top.ip
      BY <2>2, <3>1 DEF Request
    <3>3. req' = [req EXCEPT ![Len(req)] = r]
      BY <2>2, <3>1
    <3> HIDE DEF r
    <3>4. req' \in Seq(Request) /\ Len(req') = Len(req) /\ req'[Len(req)] = r
      BY <1>0, <3>1, <3>2, <3>3
    <3>5. ListenerWaited'
      BY <2>2, <3>1, <3>2, <3>4 DEF ListenerWaited
    <3> QED BY <1>2, <2>1, <2>2, <3>4, <3>5
  <2>3. CASE listens' = FALSE /\ Answer(NoHost)
    BY <1>4, <2>1, <2>3
  <2>4. CASE Answer(NoHost) /\ listens' = IF top.ip = NoHost THEN listens ELSE FALSE
    <3>1. listens' \in BOOLEAN /\ (listens' => listens /\ top.ip = NoHost)
      BY <1>0, <2>4
    <3> QED BY <1>4, <2>1, <2>4, <3>1
  <2> QED BY <1>8, <2>2, <2>3, <2>4 DEF RequestTimeout
<1>9. CASE PingStart
  <2>1. PICK h \in Host : Ask(NextHop(h))
    BY <1>9 DEF PingStart
  <2>2. Flush
    BY <1>9 DEF PingStart
  <2>3. req' \in Seq(Request) /\ listens' \in BOOLEAN /\ ListenerWaited'
    BY <2>1, NextHopHost, AskSound
  <2> QED BY <2>2, <2>3, FlushSound, ArpAssemble
<1>10. CASE PingLookUp /\ ~UNCHANGED arp
  BY <1>3, <1>10 DEF PingLookUp
<1>11. CASE PingSend \/ HostAnswers \/ EchoReply \/ PingReport
  BY <1>1, <1>11 DEF PingSend, HostAnswers, EchoReply, PingReport
<1> QED BY <1>1, <1>5, <1>6, <1>7, <1>8, <1>9, <1>10, <1>11 DEF PingNext

\* At power-up the cache is empty and nothing listens.
LEMMA ArpInit == PingInit => ArpInv
<1> SUFFICES ASSUME PingInit PROVE ArpInv
  OBVIOUS
<1>1. arpTbl = [i \in Slot |-> NoHost] /\ arpNum = 0 /\ listens = FALSE /\ req = <<>>
  BY DEF PingInit
<1>2. {i \in Slot : arpTbl[i] # NoHost} = {}
  BY <1>1
<1>3. arpNum = Cardinality({i \in Slot : arpTbl[i] # NoHost})
  BY <1>1, <1>2, FS_EmptySet
<1>4. arpTbl \in [Slot -> Host \cup {NoHost}] /\ arpNum \in Nat /\ req \in Seq(Request)
  BY <1>1
<1>5. listens \in BOOLEAN /\ ListenerWaited
  BY <1>1 DEF ListenerWaited
<1> QED BY <1>1, <1>3, <1>4, <1>5 DEF ArpInv, ArpSound, ArpTypeOK

\* The ARP cache is sound in every state of every behaviour, whatever requests
\* nest in each other and whatever replies come in: arp_cache_num counts the
\* entries in use, no address has two of them, and the listener is set only
\* while a request waits (arp_request, arp_reply_listener, arp_flush_cache).
THEOREM ArpAlwaysSound == PingSpec => []ArpSound
<1>2. ArpInv /\ [PingNext]_pingVars => ArpInv'
  <2> SUFFICES ASSUME ArpInv, UNCHANGED pingVars PROVE ArpInv'
    BY ArpStep
  <2> QED BY DEF pingVars, ArpInv, ArpTypeOK, ArpSound, ListenerWaited
<1>3. ArpInv => ArpSound
  BY DEF ArpInv
<1> QED BY ArpInit, <1>2, <1>3, PTL DEF PingSpec

-----------------------------------------------------------------------------
(* icmp_ping                                                                *)

Pinging == [pc : {"idle", "first", "ready", "next", "send", "wait"},
            host : Host \cup {NoHost}, num : Nat, count : Nat, arg : Int,
            arp : Host \cup {NoHost}]

PingTypeOK ==
  /\ ping \in Pinging /\ ident \in Nat \ {0}
  /\ onWay \subseteq Nat \ {0} /\ answered \subseteq onWay

\* Only earlier echoes have gone out, and the one that is waited for.
Earlier == \A e \in onWay : e < ident \/ (e = ident /\ ping.pc = "wait")

\* While icmp_ping waits: arg is its ident until a reply comes, 0 only after
\* the answer to this echo.
Awaited ==
  ping.pc = "wait" => /\ ping.arg \in {ident, 0, -1}
                      /\ ping.arg = 0 => ident \in answered

PingInv == PingTypeOK /\ Earlier /\ Awaited /\ PingHonest

\* The three ways icmp_ping's locals change together.
LEMMA WaitUpdate ==
  ASSUME NEW p \in Pinging, NEW a \in Int
  PROVE  LET q == [p EXCEPT !.pc = "wait", !.arg = a]
         IN  q \in Pinging /\ q.pc = "wait" /\ q.arg = a
  BY DEF Pinging

\* The next round of the loop.
LEMMA RoundUpdate ==
  ASSUME NEW p \in Pinging, NEW n \in Nat
  PROVE  LET q == [p EXCEPT !.pc = "ready", !.num = n]
         IN  q \in Pinging /\ q.pc = "ready"
  BY DEF Pinging

\* The start of the command.
LEMMA StartUpdate ==
  ASSUME NEW p \in Pinging, NEW h \in Host, NEW n \in Nat
  PROVE  LET q == [p EXCEPT !.pc = "first", !.host = h, !.count = n]
         IN  q \in Pinging /\ q.pc = "first"
  BY DEF Pinging

\* The 16 bits of an ident, as a remainder.
LEMMA FieldIs ==
  ASSUME NEW e \in Nat
  PROVE  e % IdentMod \in Nat /\ e % IdentMod <= e
<1>1. IdentMod \in Nat \ {0}
  BY PingAssumption
<1> QED BY <1>1

\* The listener's comparison, against the whole ident: of the echoes that were
\* answered only the one that is waited for can pass, since the field of an
\* earlier one is smaller.
LEMMA OnlyOwnMatches ==
  ASSUME PingInv, ping.pc = "wait", ping.arg = ident, NEW e \in answered,
         Matches(ping.arg, e % IdentMod)
  PROVE  e = ident
<1>1. e \in Nat /\ ident \in Nat /\ e <= ident
  BY DEF PingInv, PingTypeOK, Earlier
<1>2. e % IdentMod \in Nat /\ e % IdentMod <= e
  BY <1>1, FieldIs
<1>3. e % IdentMod = ident
  BY DEF Matches
<1> QED BY <1>1, <1>2, <1>3

\* An answer to a request changes neither what icmp_ping waits for nor makes
\* it wait.
LEMMA AnswerKeeps ==
  ASSUME PingInv, NEW h \in Host \cup {NoHost}, Answer(h)
  PROVE  ping' \in Pinging /\ (ping'.pc = "wait" \/ ping.pc = "wait" => ping' = ping)
<1>1. ping \in Pinging /\ NoPing \in Pinging
  BY DEF PingInv, PingTypeOK, NoPing, Pinging
<1>2. CASE ping' = ping
  BY <1>1, <1>2
<1>3. CASE ping' = NoPing /\ ping.pc = "first"
  BY <1>1, <1>3 DEF NoPing
<1>4. CASE ping' = [ping EXCEPT !.arp = h, !.pc = IF ping.pc = "first" THEN "ready" ELSE "send"]
           /\ ping.pc \in {"first", "next"}
  <2>1. CASE ping.pc = "first"
    BY <1>1, <1>4, <2>1 DEF Pinging
  <2>2. CASE ping.pc = "next"
    BY <1>1, <1>4, <2>2 DEF Pinging
  <2> QED BY <1>4, <2>1, <2>2
<1> QED BY <1>2, <1>3, <1>4 DEF Answer

\* Every step of the polling loop, of ping and of the network keeps the
\* invariant about echoes.
LEMMA PingStep ==
  ASSUME ArpInv, PingInv, PingNext
  PROVE  PingInv'
<1>0. /\ ping \in Pinging /\ NoPing \in Pinging /\ NoPing.pc = "idle" /\ ident \in Nat \ {0}
      /\ onWay \subseteq Nat \ {0} /\ answered \subseteq onWay
  BY DEF PingInv, PingTypeOK, NoPing, Pinging
<1>1. ASSUME UNCHANGED <<ident, answered, onWay, said>>, ping' \in Pinging,
             ping'.pc = "wait" \/ ping.pc = "wait" => ping' = ping
      PROVE  PingInv'
  <2>1. PingTypeOK'
    BY <1>0, <1>1 DEF PingTypeOK
  <2>2. Earlier'
    BY <1>1 DEF PingInv, Earlier
  <2>3. Awaited'
    BY <1>1 DEF PingInv, Awaited
  <2>4. PingHonest'
    BY <1>1 DEF PingInv, PingHonest
  <2> QED BY <2>1, <2>2, <2>3, <2>4 DEF PingInv
<1>2. CASE ArpReply \/ NestedLookUp
  BY <1>0, <1>1, <1>2 DEF ArpReply, NestedLookUp
<1>3. CASE RequestFound
  <2>1. /\ req # <<>> /\ Answer(req[Len(req)].ip)
        /\ UNCHANGED <<ident, answered, onWay, said>>
    BY <1>3 DEF RequestFound
  <2>2. req[Len(req)] \in Request
    BY <2>1 DEF ArpInv, ArpTypeOK
  <2>3. req[Len(req)].ip \in Host \cup {NoHost}
    BY <2>2 DEF Request
  <2> QED BY <1>1, <2>1, <2>3, AnswerKeeps
<1>4. CASE RequestTimeout
  <2>1. (ping' = ping \/ Answer(NoHost)) /\ UNCHANGED <<ident, answered, onWay, said>>
    BY <1>4 DEF RequestTimeout
  <2> QED BY <1>0, <1>1, <2>1, AnswerKeeps
<1>5. CASE PingStart
  <2>1. PICK h \in Host, n \in 1 .. 2 :
          ping' = [NoPing EXCEPT !.pc = "first", !.host = h, !.count = n]
    BY <1>5 DEF PingStart
  <2>2. ping' \in Pinging /\ ping'.pc = "first" /\ ping.pc = "idle"
    <3>1. n \in Nat
      OBVIOUS
    <3>2. ping' \in Pinging /\ ping'.pc = "first"
      BY <1>0, <2>1, <3>1, StartUpdate
    <3> QED BY <1>5, <3>2 DEF PingStart
  <2> QED BY <1>1, <1>5, <2>2 DEF PingStart
<1>6. CASE PingLookUp
  <2>1. ping.pc = "ready" /\ UNCHANGED <<ident, answered, onWay, said>>
    BY <1>6 DEF PingLookUp
  <2>2. \/ ping' = [ping EXCEPT !.pc = "send", !.arp = ping.host]
        \/ ping' = [ping EXCEPT !.pc = "next"]
    BY <1>6 DEF PingLookUp
  <2>3. ping' \in Pinging /\ ping'.pc # "wait"
    BY <1>0, <2>2 DEF Pinging
  <2> QED BY <1>1, <2>1, <2>3
<1>7. CASE PingSend
  <2>1. ping.pc = "send" /\ UNCHANGED <<ident, answered, said>>
    BY <1>7 DEF PingSend
  <2>2. CASE ping' = NoPing /\ UNCHANGED onWay
    BY <1>0, <1>1, <2>1, <2>2
  <2>3. CASE ping' = [ping EXCEPT !.pc = "wait", !.arg = ident]
             /\ onWay' = IF ping.arp = NoHost THEN onWay ELSE onWay \cup {ident}
    <3>1. ping' \in Pinging /\ ping'.pc = "wait" /\ ping'.arg = ident
      <4>1. ident \in Int
        BY <1>0
      <4> QED BY <1>0, <2>3, <4>1, WaitUpdate
    <3>2. onWay \subseteq onWay' /\ onWay' \subseteq onWay \cup {ident}
      BY <2>3
    <3>3. PingTypeOK'
      BY <1>0, <2>1, <3>1, <3>2 DEF PingTypeOK
    <3>4. Earlier'
      BY <2>1, <3>1, <3>2 DEF PingInv, Earlier
    <3>5. Awaited'
      BY <1>0, <2>1, <3>1 DEF Awaited
    <3>6. PingHonest'
      BY <2>1 DEF PingInv, PingHonest
    <3> QED BY <3>3, <3>4, <3>5, <3>6 DEF PingInv
  <2> QED BY <1>7, <2>2, <2>3 DEF PingSend
<1>8. CASE HostAnswers
  <2>1. PICK e \in onWay \ answered : answered' = answered \cup {e}
    BY <1>8 DEF HostAnswers
  <2>2. UNCHANGED <<ping, ident, onWay, said>>
    BY <1>8 DEF HostAnswers
  <2>3. PingTypeOK'
    BY <1>0, <2>1, <2>2 DEF PingTypeOK
  <2>4. Earlier'
    BY <2>2 DEF PingInv, Earlier
  <2>5. Awaited'
    BY <2>1, <2>2 DEF PingInv, Awaited
  <2>6. PingHonest'
    BY <2>1, <2>2 DEF PingInv, PingHonest
  <2> QED BY <2>3, <2>4, <2>5, <2>6 DEF PingInv
<1>9. CASE EchoReply
  <2>1. PICK e \in answered :
          ping' = [ping EXCEPT !.arg = IF Matches(ping.arg, e % IdentMod) THEN 0 ELSE -1]
    BY <1>9 DEF EchoReply
  <2>2. ping.pc = "wait" /\ UNCHANGED <<ident, answered, onWay, said>>
    BY <1>9 DEF EchoReply
  <2>3. /\ ping' \in Pinging /\ ping'.pc = "wait"
        /\ ping'.arg = IF Matches(ping.arg, e % IdentMod) THEN 0 ELSE -1
    BY <1>0, <2>1, <2>2 DEF Pinging
  <2>4. PingTypeOK'
    BY <1>0, <2>2, <2>3 DEF PingTypeOK
  <2>5. Earlier'
    BY <2>2, <2>3 DEF PingInv, Earlier
  <2>6. ASSUME Matches(ping.arg, e % IdentMod) PROVE ident \in answered
    <3>1. CASE ping.arg = ident
      BY <2>1, <2>2, <2>6, <3>1, OnlyOwnMatches
    <3>2. CASE ping.arg = 0
      BY <2>2, <3>2 DEF PingInv, Awaited
    <3>3. CASE ping.arg = -1
      <4>1. e \in Nat
        BY <1>0, <2>1
      <4> QED BY <2>6, <3>3, <4>1, FieldIs DEF Matches
    <3> QED BY <2>2, <3>1, <3>2, <3>3 DEF PingInv, Awaited
  <2>7. Awaited'
    BY <2>2, <2>3, <2>6 DEF Awaited
  <2>8. PingHonest'
    BY <2>2 DEF PingInv, PingHonest
  <2> QED BY <2>4, <2>5, <2>7, <2>8 DEF PingInv
<1>10. CASE PingReport
  <2>1. /\ ping.pc = "wait" /\ ident' = ident + 1 /\ UNCHANGED <<answered, onWay>>
        /\ said' = IF ping.arg = ident THEN "time-out"
                   ELSE IF ping.arg # 0 THEN "error" ELSE "reply"
    BY <1>10 DEF PingReport
  <2>2. ping' \in Pinging /\ ping'.pc # "wait"
    <3>1. CASE ping' = NoPing
      BY <1>0, <3>1
    <3>2. CASE ping' = [ping EXCEPT !.pc = "ready", !.num = @ + 1]
      <4>1. ping.num \in Nat
        BY <1>0 DEF Pinging
      <4>2. ping.num + 1 \in Nat
        BY <4>1
      <4> QED BY <1>0, <3>2, <4>2, RoundUpdate
    <3> QED BY <1>10, <3>1, <3>2 DEF PingReport
  <2>3. PingTypeOK'
    BY <1>0, <2>1, <2>2 DEF PingTypeOK
  <2>4. Earlier'
    BY <1>0, <2>1 DEF PingInv, Earlier
  <2>5. Awaited'
    BY <2>2 DEF Awaited
  <2>6. said' = "reply" => ident \in answered
    BY <2>1 DEF PingInv, Awaited
  <2>7. PingHonest'
    BY <1>0, <2>1, <2>6 DEF PingHonest
  <2> QED BY <2>3, <2>4, <2>5, <2>7 DEF PingInv
<1> QED BY <1>2, <1>3, <1>4, <1>5, <1>6, <1>7, <1>8, <1>9, <1>10 DEF PingNext

\* icmp_ping reports a reply only for an echo that its host has received and
\* answered, for any width of the ident field and any number of echoes: late
\* and repeated answers to earlier ones are never taken for it.
THEOREM PingAlwaysHonest == PingSpec => []PingHonest
<1>1. PingInit => ArpInv /\ PingInv
  <2> SUFFICES ASSUME PingInit PROVE ArpInv /\ PingInv
    OBVIOUS
  <2>1. ArpInv
    BY ArpInit
  <2>2. /\ ping = NoPing /\ ident = 1 /\ answered = {} /\ onWay = {} /\ said = "nothing"
    BY DEF PingInit
  <2>3. ping \in Pinging /\ ping.pc = "idle"
    BY <2>2 DEF NoPing, Pinging
  <2> QED BY <2>1, <2>2, <2>3 DEF PingInv, PingTypeOK, Earlier, Awaited, PingHonest
<1>2. ArpInv /\ PingInv /\ [PingNext]_pingVars => ArpInv' /\ PingInv'
  <2> SUFFICES ASSUME ArpInv, PingInv, UNCHANGED pingVars PROVE ArpInv' /\ PingInv'
    BY ArpStep, PingStep
  <2>1. ArpInv'
    BY DEF pingVars, ArpInv, ArpTypeOK, ArpSound, ListenerWaited
  <2>2. PingInv'
    BY DEF pingVars, PingInv, PingTypeOK, Earlier, Awaited, PingHonest
  <2> QED BY <2>1, <2>2
<1>3. PingInv => PingHonest
  BY DEF PingInv
<1> QED BY <1>1, <1>2, <1>3, PTL DEF PingSpec

-----------------------------------------------------------------------------
(* tftpc_put                                                                *)

Code == {"none", "ok", "net", "no memory", "timeout", "error", "unknown"}

Putting == [pc : {"idle", "wrq", "data"}, len : Nat, total : Nat, last : Nat, touts : Nat,
            rc : Code]

Datagram == [k : {"WRQ", "DATA"}, p : 1 .. MaxPort, n : 0 .. PutMod - 1, from : Nat, len : Nat]

Reply == [k : {"ACK", "ERROR"}, p : 1 .. MaxPort, n : 0 .. PutMod - 1]

PutTypeOK ==
  /\ put \in Putting /\ port \in 0 .. MaxPort /\ toSrv \subseteq Datagram
  /\ toPut \subseteq Reply /\ srvHas \in [1 .. MaxPort -> Int]

\* Nothing was sent from, or to, a port that is still to come.
PortsToCome ==
  /\ \A m \in toSrv : m.p <= port /\ (m.k = "WRQ" => m.n = 0)
  /\ \A m \in toPut : m.p <= port
  /\ \A p \in 1 .. MaxPort : srvHas[p] >= -1 /\ (p > port => srvHas[p] = -1)

\* While the request waits for its answer: no data has gone out, and an ACK is
\* the one for the request.
Asking ==
  put.pc = "wrq" =>
    /\ put.rc = "none" /\ put.total = 0 /\ put.len >= 1 /\ port >= 1
    /\ srvHas[port] \in {-1, 0}
    /\ \A m \in toSrv : m.p = port => m.k # "DATA"
    /\ \A m \in toPut : m.p = port /\ m.k = "ACK" => m.n = 0 /\ srvHas[port] = 0

\* The blocks that have gone out from this port: those up to last, and the last
\* one with the size k.
SentTo(last, k) ==
  \A m \in toSrv : m.p = port /\ m.k = "DATA" =>
    \E j \in 1 .. last : m.n = j % PutMod /\ (j = last => m.len = k)

\* The server has the blocks before last, or that one too; an ACK of last says
\* that it has.
ServerAt(last, total, k) ==
  /\ srvHas[port] = total \/ srvHas[port] = total + k
  /\ \A m \in toPut : m.p = port /\ m.k = "ACK" =>
       m.n <= last /\ (m.n = last => srvHas[port] = total + k)

\* tftpc_put's locals against what the network and the server hold.  Block
\* PutMod is sent as number 0 and never counts as acknowledged, so that then
\* nothing is known of the server.
Progress(p) ==
  /\ port >= 1 /\ p.total <= p.len /\ p.last \in 1 .. PutMod
  /\ p.total = PutBlock * (p.last - 1) \/ (p.total = p.len /\ p.len % PutBlock # 0)
  /\ SentTo(p.last, Size(p.total, p.len))
  /\ p.total = p.len => srvHas[port] = p.len
  /\ p.total < p.len /\ p.last < PutMod => ServerAt(p.last, p.total, Size(p.total, p.len))

Sending == put.pc = "data" => put.rc = "none" /\ put.total < put.len /\ Progress(put)

Over == put.rc = "ok" => put.pc = "idle" /\ put.total = put.len /\ Progress(put)

PutInv == PutTypeOK /\ PortsToCome /\ Asking /\ Sending /\ Over

\* Quotient and remainder of a number put together from them.
LEMMA DivMod ==
  ASSUME NEW b \in Nat \ {0}, NEW q \in Nat, NEW r \in 0 .. b - 1, NEW x \in Int, x = b * q + r
  PROVE  x \div b = q /\ x % b = r
  OBVIOUS

\* th_block of the blocks of one round.
LEMMA BlockNumber ==
  ASSUME NEW j \in 1 .. PutMod
  PROVE  j % PutMod = IF j = PutMod THEN 0 ELSE j
<1>0. PutMod \in Nat \ {0}
  BY PutAssumption
<1>1. CASE j = PutMod
  <2>1. j = PutMod * 1 + 0 /\ 0 \in 0 .. PutMod - 1 /\ 1 \in Nat /\ j \in Int
    BY <1>0, <1>1
  <2> QED BY <1>0, <1>1, <2>1, DivMod
<1>2. CASE j # PutMod
  <2>1. j = PutMod * 0 + j /\ j \in 0 .. PutMod - 1 /\ 0 \in Nat /\ j \in Int
    BY <1>0, <1>2
  <2> QED BY <1>0, <1>2, <2>1, DivMod
<1> QED BY <1>1, <1>2

\* The size of the next block: zero only when all is sent, short only at the end.
LEMMA SizeIs ==
  ASSUME NEW len \in Nat, NEW total \in Nat, total <= len
  PROVE  /\ Size(total, len) \in 0 .. PutBlock /\ total + Size(total, len) <= len
         /\ Size(total, len) = 0 <=> total = len
         /\ total + Size(total, len) < len => Size(total, len) = PutBlock
<1>1. PutBlock \in Nat \ {0}
  BY PutAssumption
<1> QED BY <1>1 DEF Size

\* A call that ends without success.
LEMMA EndsOK ==
  ASSUME PutInv, put' \in Putting, put'.pc = "idle", put'.rc # "ok",
         UNCHANGED <<port, toSrv, toPut, srvHas>>
  PROVE  PutInv'
<1>1. PutTypeOK' /\ PortsToCome'
  BY DEF PutInv, PutTypeOK, PortsToCome
<1> QED BY <1>1 DEF PutInv, Asking, Sending, Over

\* tftpc_put returns.
LEMMA EndUpdate ==
  ASSUME NEW p \in Putting, NEW r \in Code
  PROVE  LET q == [p EXCEPT !.pc = "idle", !.rc = r]
         IN  /\ q \in Putting /\ q.pc = "idle" /\ q.rc = r /\ q.len = p.len
             /\ q.total = p.total /\ q.last = p.last
  BY DEF Putting

\* It goes on.
LEMMA PcUpdate ==
  ASSUME NEW p \in Putting, NEW c \in {"idle", "wrq", "data"}
  PROVE  LET q == [p EXCEPT !.pc = c]
         IN  /\ q \in Putting /\ q.pc = c /\ q.rc = p.rc /\ q.len = p.len
             /\ q.total = p.total /\ q.last = p.last
  BY DEF Putting

\* The request goes out, from a port on which there is nothing yet.
LEMMA SendWrqOK ==
  ASSUME PutInv, NEW p \in Putting, p.rc = "none", p.total = 0, p.len >= 1,
         SendWrq(p), UNCHANGED <<toPut, srvHas>>
  PROVE  PutInv'
<1>1. CASE put' = [p EXCEPT !.pc = "idle", !.rc = "net"] /\ UNCHANGED <<port, toSrv>>
  <2>1. put' \in Putting /\ put'.pc = "idle" /\ put'.rc = "net"
    <3>1. "net" \in Code
      BY DEF Code
    <3> QED BY <1>1, <3>1, EndUpdate
  <2> QED BY <1>1, <2>1, EndsOK
<1>2. CASE /\ port < MaxPort /\ port' = port + 1 /\ put' = [p EXCEPT !.pc = "wrq"]
           /\ toSrv' = toSrv \cup {[k |-> "WRQ", p |-> port + 1, n |-> 0, from |-> 0, len |-> 0]}
  <2> DEFINE w == [k |-> "WRQ", p |-> port + 1, n |-> 0, from |-> 0, len |-> 0]
  <2>0. /\ port \in 0 .. MaxPort /\ toSrv \subseteq Datagram /\ toPut \subseteq Reply
        /\ srvHas \in [1 .. MaxPort -> Int] /\ MaxPort \in Nat /\ PutMod \in Nat \ {0}
    BY PutAssumption DEF PutInv, PutTypeOK
  <2>1. w \in Datagram /\ w.k = "WRQ" /\ w.p = port + 1 /\ w.n = 0
    BY <1>2, <2>0 DEF Datagram
  <2> HIDE DEF w
  <2>2. toSrv' = toSrv \cup {w}
    BY <1>2 DEF w
  <2>3. /\ put' \in Putting /\ put'.pc = "wrq" /\ put'.rc = "none" /\ put'.len >= 1
        /\ put'.total = 0
    BY <1>2, PcUpdate
  <2>4. /\ \A m \in toSrv : m.p <= port /\ m.p \in Nat /\ (m.k = "WRQ" => m.n = 0)
        /\ \A m \in toPut : m.p <= port /\ m.p \in Nat
        /\ \A q \in 1 .. MaxPort : srvHas[q] >= -1 /\ (q > port => srvHas[q] = -1)
    BY <2>0 DEF PutInv, PortsToCome, Datagram, Reply
  <2>5. port' \in 0 .. MaxPort /\ port' \in 1 .. MaxPort /\ port' > port /\ port' >= 1
    BY <1>2, <2>0
  <2>6. PutTypeOK'
    BY <2>0, <2>1, <2>2, <2>3, <2>5 DEF PutTypeOK
  <2>7. PortsToCome'
    <3>1. \A m \in toSrv' : m.p <= port' /\ (m.k = "WRQ" => m.n = 0)
      BY <1>2, <2>0, <2>1, <2>2, <2>4
    <3>2. \A m \in toPut' : m.p <= port'
      BY <1>2, <2>0, <2>4
    <3>3. \A q \in 1 .. MaxPort : srvHas'[q] >= -1 /\ (q > port' => srvHas'[q] = -1)
      BY <1>2, <2>0, <2>4
    <3> QED BY <3>1, <3>2, <3>3 DEF PortsToCome
  <2>8. Asking'
    <3>1. srvHas'[port'] = -1
      BY <2>4, <2>5
    <3>2. \A m \in toSrv' : m.p = port' => m.k # "DATA"
      BY <1>2, <2>0, <2>1, <2>2, <2>4
    <3>3. \A m \in toPut' : m.p # port'
      BY <1>2, <2>0, <2>4
    <3> QED BY <2>3, <2>5, <3>1, <3>2, <3>3 DEF Asking
  <2> QED BY <2>3, <2>6, <2>7, <2>8 DEF PutInv, Sending, Over
<1> QED BY <1>1, <1>2 DEF SendWrq

\* A block goes out.
LEMMA SendDataOK ==
  ASSUME PutInv, NEW p \in Putting, p.rc = "none", Progress(p),
         SendData(p), UNCHANGED <<port, toPut, srvHas>>
  PROVE  PutInv'
<1> DEFINE k == Size(p.total, p.len)
           d == [k |-> "DATA", p |-> port, n |-> p.last % PutMod, from |-> p.total, len |-> k]
<1>0. /\ p.total \in Nat /\ p.len \in Nat /\ p.last \in Nat /\ p.total <= p.len
      /\ p.last \in 1 .. PutMod /\ PutMod \in Nat \ {0} /\ PutBlock \in Nat /\ port >= 1
  BY PutAssumption DEF Progress, Putting
<1>1. k \in Nat /\ (k = 0 <=> p.total = p.len)
  <2>1. PICK t \in Nat, l \in Nat : t = p.total /\ l = p.len /\ t <= l
    BY <1>0
  <2>2. Size(t, l) \in Nat /\ (Size(t, l) = 0 <=> t = l)
    BY SMTT(30), <2>1, SizeIs
  <2> QED
    BY <2>1, <2>2
<1>2. CASE put' = [p EXCEPT !.pc = "idle", !.rc = "net"] /\ UNCHANGED toSrv
  <2>1. put' \in Putting /\ put'.pc = "idle" /\ put'.rc = "net"
    <3>1. "net" \in Code
      BY DEF Code
    <3> QED BY <1>2, <3>1, EndUpdate
  <2> QED BY <1>2, <2>1, EndsOK
<1>3. CASE /\ toSrv' = toSrv \cup {d}
           /\ put' = IF k = 0 THEN [p EXCEPT !.pc = "idle", !.rc = "ok"] ELSE [p EXCEPT !.pc = "data"]
  <2>0. /\ port \in 0 .. MaxPort /\ toSrv \subseteq Datagram /\ toPut \subseteq Reply
        /\ srvHas \in [1 .. MaxPort -> Int] /\ MaxPort \in Nat
    BY PutAssumption DEF PutInv, PutTypeOK
  <2>1. p.last % PutMod \in 0 .. PutMod - 1
    BY <1>0
  <2>2. port \in 1 .. MaxPort
    BY <1>0, <2>0
  <2>3. /\ d \in Datagram /\ d.k = "DATA" /\ d.p = port /\ d.n = p.last % PutMod /\ d.len = k
    BY <1>0, <1>1, <2>1, <2>2 DEF Datagram
  <2> HIDE DEF d, k
  <2>4. /\ put' \in Putting /\ put'.len = p.len /\ put'.total = p.total /\ put'.last = p.last
        /\ k = 0 => put'.pc = "idle" /\ put'.rc = "ok"
        /\ k # 0 => put'.pc = "data" /\ put'.rc = "none"
    <3>1. CASE k = 0
      <4>1. "ok" \in Code
        BY DEF Code
      <4> QED BY <1>3, <3>1, <4>1, EndUpdate
    <3>2. CASE k # 0
      BY <1>3, <3>2, PcUpdate
    <3> QED BY <3>1, <3>2
  <2>5. PutTypeOK'
    BY <1>3, <2>0, <2>3, <2>4 DEF PutTypeOK
  <2>6. PortsToCome'
    BY <1>3, <2>0, <2>3 DEF PutInv, PortsToCome
  <2>7. SentTo(p.last, k)'
    <3>1. SentTo(p.last, k)
      BY DEF Progress, k
    <3>2. p.last \in 1 .. p.last
      BY <1>0
    <3> QED BY <1>3, <2>3, <3>1, <3>2 DEF SentTo
  <2>8. Progress(put)'
    <3>1. /\ port' >= 1 /\ p.total <= p.len /\ p.last \in 1 .. PutMod
          /\ p.total = PutBlock * (p.last - 1) \/ (p.total = p.len /\ p.len % PutBlock # 0)
          /\ p.total = p.len => srvHas'[port'] = p.len
      BY DEF Progress
    <3>2. p.total < p.len /\ p.last < PutMod => ServerAt(p.last, p.total, k)'
      BY DEF Progress, k, ServerAt
    <3>3. SentTo(p.last, Size(p.total, p.len))'
      BY <2>7 DEF k
    <3>4. p.total < p.len /\ p.last < PutMod => ServerAt(p.last, p.total, Size(p.total, p.len))'
      BY <3>2 DEF k
    <3> QED BY <2>4, <3>1, <3>3, <3>4 DEF Progress
  <2>9. Asking'
    BY <2>4 DEF Asking
  <2>10. Sending'
    BY <1>0, <1>1, <2>4, <2>8 DEF Sending
  <2>11. Over'
    BY <1>0, <1>1, <2>4, <2>8 DEF Over
  <2> QED BY <2>5, <2>6, <2>9, <2>10, <2>11 DEF PutInv
<1> QED BY <1>2, <1>3 DEF SendData

\* What the server takes of a block of this port, while tftpc_put is where
\* Progress says: the block it waits for and no other.
LEMMA ServerTakesNext ==
  ASSUME PutInv, NEW p \in Putting, Progress(p), NEW m \in toSrv, m.p = port, m.k = "DATA",
         srvHas[port] >= 0, p.total = p.len \/ p.last < PutMod
  PROVE  LET had  == srvHas[port]
             good == m.n = (had \div PutBlock + 1) % PutMod /\ had % PutBlock = 0
         IN  /\ p.total = p.len /\ good => m.len = 0
             /\ p.total < p.len => m.n \in 1 .. p.last
             /\ p.total < p.len /\ good => had = p.total /\ m.len = Size(p.total, p.len)
             /\ p.total < p.len /\ m.n = p.last /\ had = p.total => good
<1> DEFINE had  == srvHas[port]
           good == m.n = (had \div PutBlock + 1) % PutMod /\ had % PutBlock = 0
           k    == Size(p.total, p.len)
<1>0. /\ p.total \in Nat /\ p.len \in Nat /\ p.last \in 1 .. PutMod /\ p.total <= p.len
      /\ PutMod \in Nat \ {0, 1} /\ PutBlock \in Nat \ {0} /\ p.last - 1 \in Nat
  BY PutAssumption DEF Progress, Putting
<1>1. PICK j \in 1 .. p.last : m.n = j % PutMod /\ (j = p.last => m.len = k)
  BY DEF Progress, SentTo
<1>2. j \in 1 .. PutMod /\ m.n = IF j = PutMod THEN 0 ELSE j
  BY <1>0, <1>1, BlockNumber
<1>3. k \in 0 .. PutBlock /\ (k = 0 <=> p.total = p.len)
  BY <1>0, SizeIs
<1>5. ASSUME had = PutBlock * (p.last - 1)
      PROVE  had \div PutBlock + 1 = p.last /\ had % PutBlock = 0
  <2>1. had = PutBlock * (p.last - 1) + 0 /\ 0 \in 0 .. PutBlock - 1 /\ had \in Int
    BY <1>0, <1>5
  <2>2. had \div PutBlock = p.last - 1 /\ had % PutBlock = 0
    BY <1>0, <2>1, DivMod
  <2> QED BY <1>0, <2>2
<1>6. p.last % PutMod = IF p.last = PutMod THEN 0 ELSE p.last
  BY <1>0, BlockNumber
<1>7. CASE p.total = p.len
  <2>1. had = p.len
    BY <1>7 DEF Progress
  <2>2. ASSUME good PROVE m.len = 0
    <3>1. had = PutBlock * (p.last - 1)
      BY <1>7, <2>1, <2>2 DEF Progress
    <3>2. m.n = p.last % PutMod
      BY <1>5, <2>2, <3>1
    <3>3. j = p.last
      BY <1>0, <1>2, <1>6, <3>2
    <3> QED BY <1>1, <1>3, <1>7, <3>3
  <2> QED BY <1>0, <1>7, <2>2
<1>8. CASE p.total < p.len
  <2>1. p.last < PutMod /\ p.total = PutBlock * (p.last - 1)
    BY <1>0, <1>8 DEF Progress
  <2>2. had = p.total \/ had = p.total + k
    BY <1>8, <2>1 DEF Progress, ServerAt
  <2>3. m.n = j /\ j \in 1 .. p.last /\ p.last % PutMod = p.last
    BY <1>0, <1>1, <1>2, <1>6, <2>1
  <2>4. ASSUME had = p.total PROVE good <=> m.n = p.last
    BY <1>5, <2>1, <2>3, <2>4
  <2>5. ASSUME had = p.total + k PROVE ~good
    <3>1. k >= 1
      BY <1>0, <1>3, <1>8
    <3>2. CASE k < PutBlock
      <4>1. had = PutBlock * (p.last - 1) + k /\ k \in 0 .. PutBlock - 1 /\ had \in Int
        BY <1>0, <1>3, <2>1, <2>5, <3>2
      <4>2. had % PutBlock = k
        <5>1. PICK h, q, r : h = had /\ q = p.last - 1 /\ r = k
          OBVIOUS
        <5>2. h = PutBlock * q + r /\ q \in Nat /\ r \in 0 .. PutBlock - 1 /\ h \in Int
          BY <1>0, <4>1, <5>1
        <5>3. h % PutBlock = r
          BY <1>0, <5>2, DivMod
        <5> QED BY <5>1, <5>3
      <4> QED BY <1>3, <3>1, <4>2
    <3>3. CASE k = PutBlock
      <4> HIDE DEF had, k
      <4>1. had = PutBlock * p.last + 0 /\ 0 \in 0 .. PutBlock - 1 /\ had \in Int /\ p.last \in Nat
        BY <1>0, <2>1, <2>5, <3>3
      <4>2. had \div PutBlock = p.last
        BY <1>0, <4>1, DivMod
      <4>3. p.last + 1 \in 1 .. PutMod
        BY <1>0, <2>1
      <4>4. (p.last + 1) % PutMod = IF p.last + 1 = PutMod THEN 0 ELSE p.last + 1
        BY <4>3, BlockNumber
      <4>5. m.n # (had \div PutBlock + 1) % PutMod
        BY <1>0, <2>3, <4>2, <4>4
      <4> QED BY <4>5
    <3> QED BY <1>0, <1>3, <3>2, <3>3
  <2>6. good => had = p.total /\ m.len = k
    BY <1>1, <2>2, <2>3, <2>4, <2>5
  <2> QED BY <1>0, <1>8, <2>3, <2>4, <2>6
<1> QED BY <1>0, <1>7, <1>8

\* The server's step, seen from the one port it is about.
LEMMA ServerTakesOne ==
  ASSUME PutInv, ServerTakes
  PROVE  \E m \in toSrv, had \in Int :
           /\ had = srvHas[m.p] /\ had >= -1 /\ m \in Datagram /\ (m.k = "WRQ" => m.n = 0)
           /\ \E now \in Int, a \in Reply :
                /\ srvHas' = [srvHas EXCEPT ![m.p] = now] /\ now >= 0
                /\ toPut' = toPut \cup {a} /\ a.p = m.p /\ (a.k = "ACK" => a.n = m.n)
                /\ m.k = "WRQ" => now = IF had < 0 THEN 0 ELSE had
                /\ m.k # "WRQ" =>
                     /\ had >= 0
                     /\ now = IF m.n = (had \div PutBlock + 1) % PutMod /\ had % PutBlock = 0
                             THEN had + m.len ELSE had
<1>0. toSrv \subseteq Datagram /\ srvHas \in [1 .. MaxPort -> Int] /\ PutMod \in Nat \ {0}
  BY PutAssumption DEF PutInv, PutTypeOK
<1> DEFINE Want(m) == srvHas[m.p] \div PutBlock + 1
           Good(m) == m.k = "DATA" /\ srvHas[m.p] >= 0 /\ m.n = Want(m) % PutMod
                      /\ srvHas[m.p] % PutBlock = 0
<1>1. PICK m \in toSrv :
        /\ m.k = "WRQ" \/ srvHas[m.p] >= 0
        /\ srvHas' = IF m.k = "WRQ"
                     THEN [srvHas EXCEPT ![m.p] = IF srvHas[m.p] < 0 THEN 0 ELSE srvHas[m.p]]
                     ELSE IF Good(m) THEN [srvHas EXCEPT ![m.p] = srvHas[m.p] + m.len] ELSE srvHas
        /\ \/ toPut' = toPut \cup {[k |-> "ACK", p |-> m.p, n |-> m.n]}
           \/ toPut' = toPut \cup {[k |-> "ERROR", p |-> m.p, n |-> 0]}
  BY DEF ServerTakes
<1>2. /\ m \in Datagram /\ m.p \in 1 .. MaxPort /\ m.k \in {"WRQ", "DATA"} /\ m.len \in Nat
      /\ m.n \in 0 .. PutMod - 1
  BY <1>0, <1>1 DEF Datagram
<1>3. /\ srvHas[m.p] \in Int /\ srvHas[m.p] >= -1 /\ (m.k = "WRQ" => m.n = 0)
  BY <1>0, <1>1, <1>2 DEF PutInv, PortsToCome
<1> DEFINE had  == srvHas[m.p]
           good == m.n = (had \div PutBlock + 1) % PutMod /\ had % PutBlock = 0
           now  == IF m.k = "WRQ" THEN IF had < 0 THEN 0 ELSE had
                   ELSE IF good THEN had + m.len ELSE had
<1>4. now \in Int /\ now >= 0
  <2> HIDE DEF good, had
  <2>1. had \in Int /\ had >= -1 /\ (m.k # "WRQ" => had >= 0)
    BY <1>1, <1>3 DEF had
  <2> QED BY <1>2, <2>1
<1>5. srvHas' = [srvHas EXCEPT ![m.p] = now]
  <2>1. srvHas = [srvHas EXCEPT ![m.p] = srvHas[m.p]]
    BY <1>0, <1>2
  <2>2. m.k # "WRQ" => (Good(m) <=> good)
    BY <1>1, <1>2
  <2> HIDE DEF Good, good
  <2>3. CASE m.k = "WRQ"
    BY <1>1, <2>3
  <2>4. CASE m.k # "WRQ" /\ Good(m)
    BY <1>1, <2>2, <2>4
  <2>5. CASE m.k # "WRQ" /\ ~Good(m)
    BY <1>1, <2>1, <2>2, <2>5
  <2> QED BY <2>3, <2>4, <2>5
<1>6. PICK a \in Reply : toPut' = toPut \cup {a} /\ a.p = m.p /\ (a.k = "ACK" => a.n = m.n)
  <2>1. [k |-> "ACK", p |-> m.p, n |-> m.n] \in Reply /\ [k |-> "ERROR", p |-> m.p, n |-> 0] \in Reply
    BY <1>0, <1>2 DEF Reply
  <2> QED BY <1>1, <2>1
<1>7. m.k # "WRQ" => had >= 0
  BY <1>1
<1>8. /\ m.k = "WRQ" => now = IF had < 0 THEN 0 ELSE had
      /\ m.k # "WRQ" => now = IF good THEN had + m.len ELSE had
  OBVIOUS
<1> HIDE DEF now, had
<1>9. had = srvHas[m.p] /\ had \in Int
  BY <1>3 DEF had
<1> QED BY <1>1, <1>2, <1>3, <1>4, <1>5, <1>6, <1>7, <1>8, <1>9

\* The server takes, and answers, whatever of this and of earlier ports
\* arrives.
LEMMA ServerOK ==
  ASSUME PutInv, ServerTakes
  PROVE  PutInv'
<1>0. /\ put \in Putting /\ port \in 0 .. MaxPort /\ toSrv \subseteq Datagram
      /\ toPut \subseteq Reply /\ srvHas \in [1 .. MaxPort -> Int] /\ MaxPort \in Nat
      /\ put' = put /\ port' = port /\ toSrv' = toSrv
      /\ put.total \in Nat /\ put.len \in Nat
  BY PutAssumption DEF PutInv, PutTypeOK, ServerTakes, Putting
<1>1. PICK m \in toSrv, had \in Int :
           /\ had = srvHas[m.p] /\ had >= -1 /\ m \in Datagram /\ (m.k = "WRQ" => m.n = 0)
           /\ \E now \in Int, a \in Reply :
                /\ srvHas' = [srvHas EXCEPT ![m.p] = now] /\ now >= 0
                /\ toPut' = toPut \cup {a} /\ a.p = m.p /\ (a.k = "ACK" => a.n = m.n)
                /\ m.k = "WRQ" => now = IF had < 0 THEN 0 ELSE had
                /\ m.k # "WRQ" =>
                     /\ had >= 0
                     /\ now = IF m.n = (had \div PutBlock + 1) % PutMod /\ had % PutBlock = 0
                             THEN had + m.len ELSE had
  BY ServerTakesOne
<1>2. PICK now \in Int, a \in Reply :
                /\ srvHas' = [srvHas EXCEPT ![m.p] = now] /\ now >= 0
                /\ toPut' = toPut \cup {a} /\ a.p = m.p /\ (a.k = "ACK" => a.n = m.n)
                /\ m.k = "WRQ" => now = IF had < 0 THEN 0 ELSE had
                /\ m.k # "WRQ" =>
                     /\ had >= 0
                     /\ now = IF m.n = (had \div PutBlock + 1) % PutMod /\ had % PutBlock = 0
                             THEN had + m.len ELSE had
  BY <1>1
<1>3. m.p \in 1 .. MaxPort /\ m.p <= port /\ m.k \in {"WRQ", "DATA"} /\ m.n \in Nat
      /\ m.len \in Nat
  BY <1>0, <1>1 DEF Datagram, PutInv, PortsToCome
<1>4. \A q \in 1 .. MaxPort : srvHas'[q] = IF q = m.p THEN now ELSE srvHas[q]
  BY <1>0, <1>2, <1>3
<1>5. PutTypeOK'
  BY <1>0, <1>2, <1>3 DEF PutTypeOK
<1>6. PortsToCome'
  BY <1>0, <1>2, <1>3, <1>4 DEF PutInv, PortsToCome
<1>7. Asking'
  <2> SUFFICES ASSUME put.pc = "wrq" PROVE Asking'
    BY <1>0 DEF Asking
  <2>1. /\ put.rc = "none" /\ put.total = 0 /\ put.len >= 1 /\ port \in 1 .. MaxPort
        /\ srvHas[port] \in {-1, 0}
        /\ \A x \in toSrv : x.p = port => x.k # "DATA"
        /\ \A x \in toPut : x.p = port /\ x.k = "ACK" => x.n = 0 /\ srvHas[port] = 0
    BY <1>0 DEF PutInv, Asking
  <2>2. CASE m.p # port
    BY <1>0, <1>2, <1>4, <2>1, <2>2 DEF Asking
  <2>3. CASE m.p = port
    <3>1. m.k = "WRQ" /\ m.n = 0
      BY <1>1, <1>3, <2>1, <2>3
    <3>2. now = 0 /\ srvHas'[port] = 0
      BY <1>1, <1>2, <1>4, <2>1, <2>3, <3>1
    <3> QED BY <1>0, <1>2, <2>1, <3>1, <3>2 DEF Asking
  <2> QED BY <2>2, <2>3
<1>8. ASSUME Progress(put) PROVE Progress(put)'
  <2>k. PICK k \in Nat : k = Size(put.total, put.len)
    <3>1. put.total <= put.len
      BY <1>8 DEF Progress
    <3>2. PutBlock \in Nat
      BY PutAssumption
    <3>3. Size(put.total, put.len) \in 0 .. PutBlock
      BY <1>0, <3>1, SizeIs
    <3>4. Size(put.total, put.len) \in Nat
      BY <3>2, <3>3
    <3> QED BY <3>4
  <2>0. /\ port \in 1 .. MaxPort /\ put.total <= put.len /\ put.last \in 1 .. PutMod
        /\ put.total = PutBlock * (put.last - 1) \/ (put.total = put.len /\ put.len % PutBlock # 0)
        /\ SentTo(put.last, k)
        /\ put.total = put.len => srvHas[port] = put.len
        /\ put.total < put.len /\ put.last < PutMod => ServerAt(put.last, put.total, k)
    BY <1>0, <1>8, <2>k DEF Progress
  <2>1. put.last \in Nat /\ PutMod \in Nat
    BY <2>0, PutAssumption
  <2>2. SentTo(put.last, k)'
    BY <1>0, <2>0 DEF SentTo
  <2>3. /\ put.total = put.len => srvHas'[port] = put.len
        /\ put.total < put.len /\ put.last < PutMod => ServerAt(put.last, put.total, k)'
    <3>1. CASE m.p # port
      <4>1. srvHas'[port] = srvHas[port]
        BY <1>4, <2>0, <3>1
      <4>2. \A x \in toPut' : x.p = port => x \in toPut
        BY <1>2, <3>1
      <4> QED BY <1>0, <2>0, <4>1, <4>2 DEF ServerAt
    <3>2. CASE m.p = port /\ m.k = "WRQ"
      <4>1. /\ srvHas'[port] = now /\ had = srvHas[port]
            /\ now = IF had < 0 THEN 0 ELSE had
        BY <1>1, <1>2, <1>4, <2>0, <3>2
      <4>2. ASSUME put.total < put.len, put.last < PutMod PROVE ServerAt(put.last, put.total, k)'
        <5>1. ServerAt(put.last, put.total, k)
          BY <2>0, <4>2
        <5>2. srvHas'[port] = srvHas[port]
          BY <1>0, <2>1, <4>1, <5>1 DEF ServerAt
        <5>3. a.k = "ACK" => a.n = 0
          BY <1>1, <1>2, <3>2
        <5>4. put.last > 0
          BY <2>0
        <5> QED BY <1>0, <1>2, <2>1, <5>1, <5>2, <5>3, <5>4 DEF ServerAt
      <4> QED BY <1>0, <2>0, <4>1, <4>2
    <3>3. CASE m.p = port /\ m.k = "DATA" /\ (put.total = put.len \/ put.last < PutMod)
      <4> DEFINE good == m.n = (had \div PutBlock + 1) % PutMod /\ had % PutBlock = 0
      <4>1. /\ srvHas'[port] = now /\ had = srvHas[port] /\ had >= 0
            /\ now = IF good THEN had + m.len ELSE had
        BY <1>1, <1>2, <1>4, <2>0, <3>3
      <4>2. /\ put.total = put.len /\ good => m.len = 0
            /\ put.total < put.len => m.n \in 1 .. put.last
            /\ put.total < put.len /\ good => had = put.total /\ m.len = k
            /\ put.total < put.len /\ m.n = put.last /\ had = put.total => good
        BY <1>0, <1>1, <1>8, <2>k, <3>3, <4>1, ServerTakesNext
      <4> HIDE DEF good
      <4>3. put.total = put.len => srvHas'[port] = put.len
        BY <1>0, <2>0, <4>1, <4>2
      <4>4. ASSUME put.total < put.len, put.last < PutMod PROVE ServerAt(put.last, put.total, k)'
        <5>1. /\ had = put.total \/ had = put.total + k
              /\ \A x \in toPut : x.p = port /\ x.k = "ACK" =>
                   x.n <= put.last /\ (x.n = put.last => had = put.total + k)
          BY <2>0, <4>1, <4>4 DEF ServerAt
        <5>2. /\ now = put.total \/ now = put.total + k
              /\ had = put.total + k => now = had
          BY <1>0, <2>1, <4>1, <4>2, <4>4, <5>1
        <5>3. a.k = "ACK" => a.n <= put.last /\ (a.n = put.last => now = put.total + k)
          <6>1. m.n <= put.last
            BY <4>2, <4>4
          <6>2. m.n = put.last => now = put.total + k
            BY <1>0, <2>1, <4>1, <4>2, <4>4, <5>1
          <6> QED BY <1>2, <6>1, <6>2
        <5> QED BY <1>0, <1>2, <4>1, <5>1, <5>2, <5>3 DEF ServerAt
      <4> QED BY <4>3, <4>4
    <3> QED BY <1>0, <1>3, <2>0, <2>1, <3>1, <3>2, <3>3
  <2>4. SentTo(put.last, Size(put.total, put.len))'
    BY <1>0, <2>k, <2>2
  <2>5. put.total < put.len /\ put.last < PutMod =>
          ServerAt(put.last, put.total, Size(put.total, put.len))'
    BY <1>0, <2>k, <2>3
  <2> QED BY <1>0, <2>0, <2>3, <2>4, <2>5 DEF Progress
<1>9. Sending'
  BY <1>0, <1>8 DEF PutInv, Sending
<1>10. Over'
  BY <1>0, <1>8 DEF PutInv, Over
<1> QED BY <1>5, <1>6, <1>7, <1>9, <1>10 DEF PutInv

\* Time-outs are counted, or the count starts again.
LEMMA ToutsUpdate ==
  ASSUME NEW p \in Putting, NEW t \in Nat
  PROVE  LET q == [p EXCEPT !.touts = t]
         IN  /\ q \in Putting /\ q.pc = p.pc /\ q.rc = p.rc /\ q.len = p.len
             /\ q.total = p.total /\ q.last = p.last
  BY DEF Putting

\* The first block is due.
LEMMA LastUpdate ==
  ASSUME NEW p \in Putting, NEW l \in Nat
  PROVE  LET q == [p EXCEPT !.last = l]
         IN  /\ q \in Putting /\ q.pc = p.pc /\ q.rc = p.rc /\ q.len = p.len
             /\ q.total = p.total /\ q.last = l
  BY DEF Putting

\* Progress looks at three of the locals.
LEMMA SameProgress ==
  ASSUME NEW p, NEW q, q.len = p.len, q.total = p.total, q.last = p.last, Progress(p)
  PROVE  Progress(q)
  BY DEF Progress

\* The ACK of the request: the first block is due.
LEMMA FirstBlock ==
  ASSUME PutInv, put.pc = "wrq", NEW m \in toPut, m.p = port, m.k = "ACK",
         NEW p \in Putting, p.total = 0, p.len = put.len, p.last = 1
  PROVE  Progress(p)
<1>1. /\ put.len >= 1 /\ port >= 1 /\ srvHas[port] = 0
      /\ \A x \in toSrv : x.p = port => x.k # "DATA"
      /\ \A x \in toPut : x.p = port /\ x.k = "ACK" => x.n = 0 /\ srvHas[port] = 0
  BY DEF PutInv, Asking
<1>2. PutMod \in Nat \ {0, 1} /\ PutBlock \in Nat \ {0} /\ p.len \in Nat
  BY PutAssumption DEF Putting
<1>3. SentTo(p.last, Size(p.total, p.len))
  BY <1>1 DEF SentTo
<1>4. ServerAt(p.last, p.total, Size(p.total, p.len))
  BY <1>1, <1>2 DEF ServerAt
<1>5. p.total = PutBlock * (p.last - 1)
  BY <1>2
<1> QED BY <1>1, <1>2, <1>3, <1>4, <1>5 DEF Progress

\* The ACK of the block that was sent: the server has it, and the next one is
\* due.
LEMMA NextBlock ==
  ASSUME PutInv, put.pc = "data", NEW m \in toPut, m.p = port, m.k = "ACK", m.n = put.last,
         NEW p \in Putting, p.len = put.len, p.last = put.last + 1,
         p.total = put.total + Size(put.total, put.len)
  PROVE  Progress(p)
<1>0. /\ put.total \in Nat /\ put.len \in Nat /\ PutMod \in Nat \ {0, 1}
      /\ PutBlock \in Nat \ {0} /\ put \in Putting
  BY PutAssumption DEF PutInv, PutTypeOK, Putting
<1>1. Progress(put) /\ put.total < put.len /\ port >= 1 /\ put.last \in 1 .. PutMod
  BY DEF PutInv, Sending, Progress
<1>1a. put.total <= put.len
  BY <1>1 DEF Progress
<1>2. m.n \in 0 .. PutMod - 1
  BY DEF PutInv, PutTypeOK, Reply
<1>3. put.last < PutMod
  BY <1>0, <1>1, <1>2
<1>4. PICK k \in Nat : k = Size(put.total, put.len)
  <2>1. Size(put.total, put.len) \in 0 .. PutBlock
    BY <1>0, <1>1a, SizeIs
  <2>2. Size(put.total, put.len) \in Nat
    BY <1>0, <2>1
  <2> QED BY <2>2
<1>5. /\ k \in 0 .. PutBlock /\ put.total + k <= put.len /\ k # 0
      /\ put.total + k < put.len => k = PutBlock
  <2>1. /\ Size(put.total, put.len) \in 0 .. PutBlock
        /\ put.total + Size(put.total, put.len) <= put.len
        /\ Size(put.total, put.len) = 0 <=> put.total = put.len
        /\ put.total + Size(put.total, put.len) < put.len => Size(put.total, put.len) = PutBlock
    BY <1>0, <1>1a, SizeIs
  <2> QED BY <1>0, <1>1, <1>4, <2>1
<1>6. ServerAt(put.last, put.total, k) /\ SentTo(put.last, k)
  BY <1>1, <1>3, <1>4 DEF Progress
<1>7. srvHas[port] = p.total /\ p.total = put.total + k
  BY <1>4, <1>6 DEF ServerAt
<1>8. put.total = PutBlock * (put.last - 1)
  BY <1>0, <1>1 DEF Progress
<1>9. p.total = PutBlock * (p.last - 1) \/ (p.total = p.len /\ p.len % PutBlock # 0)
  <2>1. CASE k = PutBlock
    <3>1. p.total = PutBlock * put.last
      BY <1>0, <1>1, <1>7, <1>8, <2>1
    <3>2. p.last - 1 = put.last
      BY <1>1
    <3> QED BY <3>1, <3>2
  <2>2. CASE k # PutBlock
    <3>1. p.total = p.len /\ k \in 0 .. PutBlock - 1
      BY <1>0, <1>5, <1>7, <2>2
    <3>2. p.len = PutBlock * (put.last - 1) + k /\ put.last - 1 \in Nat /\ p.len \in Int
      BY <1>0, <1>1, <1>7, <1>8, <3>1
    <3>3. p.len % PutBlock = k
      BY <1>0, <3>1, <3>2, DivMod
    <3> QED BY <1>5, <3>1, <3>3
  <2> QED BY <2>1, <2>2
<1>10. SentTo(p.last, Size(p.total, p.len))
  <2> SUFFICES ASSUME NEW x \in toSrv, x.p = port, x.k = "DATA"
               PROVE  \E j \in 1 .. p.last :
                        x.n = j % PutMod /\ (j = p.last => x.len = Size(p.total, p.len))
    BY DEF SentTo
  <2>1. PICK j \in 1 .. put.last : x.n = j % PutMod
    BY <1>6 DEF SentTo
  <2>2. j \in 1 .. p.last /\ j # p.last
    BY <1>1, <2>1
  <2> QED BY <2>1, <2>2
<1>11. ServerAt(p.last, p.total, Size(p.total, p.len))
  <2>1. \A x \in toPut : x.p = port /\ x.k = "ACK" => x.n <= put.last /\ x.n \in Nat
    BY <1>0, <1>6 DEF ServerAt, PutInv, PutTypeOK, Reply
  <2>2. \A x \in toPut : x.p = port /\ x.k = "ACK" => x.n <= p.last /\ x.n # p.last
    BY <1>1, <2>1
  <2> QED BY <1>7, <2>2 DEF ServerAt
<1>12. p.last \in 1 .. PutMod /\ p.total <= p.len
  BY <1>0, <1>1, <1>3, <1>5, <1>7
<1> QED BY <1>1, <1>7, <1>9, <1>10, <1>11, <1>12 DEF Progress

\* Every step of tftpc_put, of its command and of the server keeps the
\* invariant.
LEMMA PutStep ==
  ASSUME PutInv, PutNext
  PROVE  PutInv'
<1>0. put \in Putting /\ put.touts \in Nat /\ put.last \in Nat /\ put.total \in Nat
      /\ put.len \in Nat
  BY DEF PutInv, PutTypeOK, Putting
<1>1. ASSUME NEW r \in Code, r # "ok", PutReturn(r), UNCHANGED <<port, toSrv, toPut, srvHas>>
      PROVE  PutInv'
  <2>1. put' = [put EXCEPT !.pc = "idle", !.rc = r]
    BY <1>1 DEF PutReturn
  <2>2. put' \in Putting /\ put'.pc = "idle" /\ put'.rc = r
    BY <1>0, <2>1, EndUpdate
  <2> QED BY <1>1, <2>2, EndsOK
<1>2. CASE PutStart
  <2>1. PICK l \in PutLens :
          LET p == [PutIdle EXCEPT !.len = l]
          IN  \/ put' = [p EXCEPT !.rc = "no memory"] /\ UNCHANGED <<port, toSrv>>
              \/ SendWrq(p)
    BY <1>2 DEF PutStart
  <2>2. UNCHANGED <<toPut, srvHas>>
    BY <1>2 DEF PutStart
  <2> DEFINE p == [PutIdle EXCEPT !.len = l]
  <2>3. l \in Nat /\ l >= 1
    BY PutAssumption
  <2>4. /\ p \in Putting /\ p.rc = "none" /\ p.total = 0 /\ p.len >= 1
        /\ [p EXCEPT !.rc = "no memory"] \in Putting
        /\ [p EXCEPT !.rc = "no memory"].pc = "idle"
        /\ [p EXCEPT !.rc = "no memory"].rc = "no memory"
    BY <2>3 DEF Putting, PutIdle, Code
  <2>5. CASE put' = [p EXCEPT !.rc = "no memory"] /\ UNCHANGED <<port, toSrv>>
    BY <2>2, <2>4, <2>5, EndsOK
  <2>6. CASE SendWrq(p)
    <3> HIDE DEF p
    <3> QED BY <2>2, <2>4, <2>6, SendWrqOK
  <2> QED BY <2>1, <2>5, <2>6
<1>3. CASE PutTimeout
  <2> DEFINE p == [put EXCEPT !.touts = @ + 1]
  <2>1. UNCHANGED <<toPut, srvHas>> /\ put.pc \in {"wrq", "data"}
    BY <1>3 DEF PutTimeout
  <2>2. /\ p \in Putting /\ p.pc = put.pc /\ p.rc = put.rc /\ p.len = put.len
        /\ p.total = put.total /\ p.last = put.last
    <3>1. put.touts + 1 \in Nat
      BY <1>0
    <3> QED BY <1>0, <3>1, ToutsUpdate
  <2>3. \/ PutReturn("timeout") /\ UNCHANGED <<port, toSrv>>
        \/ put.pc = "wrq" /\ SendWrq(p)
        \/ put.pc = "data" /\ SendData(p) /\ UNCHANGED port
    BY <1>3 DEF PutTimeout
  <2> HIDE DEF p
  <2>4. CASE PutReturn("timeout") /\ UNCHANGED <<port, toSrv>>
    BY <1>1, <2>1, <2>4 DEF Code
  <2>5. CASE put.pc = "wrq" /\ SendWrq(p)
    <3>1. put.rc = "none" /\ put.total = 0 /\ put.len >= 1
      BY <2>5 DEF PutInv, Asking
    <3> QED BY <2>1, <2>2, <2>5, <3>1, SendWrqOK
  <2>6. CASE put.pc = "data" /\ SendData(p) /\ UNCHANGED port
    <3>1. put.rc = "none" /\ Progress(put)
      BY <2>6 DEF PutInv, Sending
    <3>2. Progress(p)
      BY <2>2, <3>1, SameProgress
    <3> QED BY <2>1, <2>2, <2>6, <3>1, <3>2, SendDataOK
  <2> QED BY <2>3, <2>4, <2>5, <2>6
<1>4. CASE PutReceive
  <2> DEFINE p == [put EXCEPT !.touts = 0]
  <2>1. PICK m \in toPut :
          /\ m.p = port
          /\ \/ m.k = "ACK" /\ put.pc = "wrq" /\ SendData([p EXCEPT !.last = 1])
             \/ m.k = "ACK" /\ put.pc = "data" /\ SendData(AfterAck(p, m.n))
             \/ m.k = "ERROR" /\ PutReturn("error") /\ UNCHANGED toSrv
    BY <1>4 DEF PutReceive
  <2>2. UNCHANGED <<port, toPut, srvHas>>
    BY <1>4 DEF PutReceive
  <2>3. /\ p \in Putting /\ p.pc = put.pc /\ p.rc = put.rc /\ p.len = put.len
        /\ p.total = put.total /\ p.last = put.last
    BY <1>0, ToutsUpdate
  <2> HIDE DEF p
  <2>4. CASE m.k = "ACK" /\ put.pc = "wrq" /\ SendData([p EXCEPT !.last = 1])
    <3> DEFINE q == [p EXCEPT !.last = 1]
    <3>1. put.rc = "none" /\ put.total = 0
      BY <2>4 DEF PutInv, Asking
    <3>2. /\ q \in Putting /\ q.rc = "none" /\ q.len = put.len /\ q.total = 0 /\ q.last = 1
      <4>1. 1 \in Nat
        OBVIOUS
      <4> QED BY <2>3, <3>1, <4>1, LastUpdate
    <3> HIDE DEF q
    <3>3. Progress(q)
      BY <2>1, <2>4, <3>2, FirstBlock
    <3>4. SendData(q)
      BY <2>4 DEF q
    <3> QED BY <2>2, <3>2, <3>3, <3>4, SendDataOK
  <2>5. CASE m.k = "ACK" /\ put.pc = "data" /\ SendData(AfterAck(p, m.n))
    <3>1. put.rc = "none" /\ Progress(put) /\ put.total < put.len
      BY <2>5 DEF PutInv, Sending
    <3>2. CASE Acked(p, m.n)
      <4> DEFINE q == [p EXCEPT !.total = @ + Size(p.total, p.len), !.last = @ + 1]
      <4>1. put.total <= put.len /\ PutBlock \in Nat
        BY <3>1, PutAssumption DEF Progress
      <4>2. Size(put.total, put.len) \in 0 .. PutBlock
        BY <1>0, <4>1, SizeIs
      <4>3. put.total + Size(put.total, put.len) \in Nat /\ put.last + 1 \in Nat
        BY <1>0, <4>1, <4>2
      <4>4. /\ q \in Putting /\ q.rc = "none" /\ q.len = put.len /\ q.last = put.last + 1
            /\ q.total = put.total + Size(put.total, put.len)
        <5>1. q = [p EXCEPT !.total = put.total + Size(put.total, put.len), !.last = put.last + 1]
          BY <2>3
        <5> HIDE DEF q
        <5>2. PICK n, l : n = put.total + Size(put.total, put.len) /\ l = put.last + 1
          OBVIOUS
        <5>3. q = [p EXCEPT !.total = n, !.last = l]
          BY <5>1, <5>2
        <5>4. /\ q \in Putting /\ q.rc = p.rc /\ q.len = p.len
              /\ q.total = n /\ q.last = l
          BY <2>3, <4>3, <5>2, <5>3 DEF Putting
        <5> QED BY <2>3, <3>1, <5>2, <5>4
      <4>5. SendData(q)
        BY <2>5, <3>2 DEF AfterAck
      <4> HIDE DEF q
      <4>6. m.n = put.last
        BY <2>3, <3>2 DEF Acked
      <4>7. Progress(q)
        BY <2>1, <2>5, <4>4, <4>6, NextBlock
      <4> QED BY <2>2, <4>4, <4>5, <4>7, SendDataOK
    <3>3. CASE ~Acked(p, m.n)
      <4>1. SendData(p)
        BY <2>5, <3>3 DEF AfterAck
      <4>2. Progress(p)
        BY <2>3, <3>1, SameProgress
      <4> QED BY <2>2, <2>3, <3>1, <4>1, <4>2, SendDataOK
    <3> QED BY <3>2, <3>3
  <2>6. CASE PutReturn("error") /\ UNCHANGED toSrv
    BY <1>1, <2>2, <2>6 DEF Code
  <2> QED BY <2>1, <2>4, <2>5, <2>6
<1>5. CASE PutFails
  BY <1>1, <1>5 DEF PutFails, Code
<1>6. CASE ServerTakes
  BY <1>6, ServerOK
<1> QED BY <1>2, <1>3, <1>4, <1>5, <1>6 DEF PutNext

\* tftpc_put returns success only when the server holds the whole file, for
\* every length, block size and width of th_block, over a network that loses,
\* delays, repeats and reorders, and whatever earlier requests left on it.
THEOREM PutAlwaysWhole == PutSpec => []PutWhole
<1>1. PutInit => PutInv
  <2> SUFFICES ASSUME PutInit PROVE PutInv
    OBVIOUS
  <2>1. /\ put = PutIdle /\ port = 0 /\ toSrv = {} /\ toPut = {}
        /\ srvHas = [p \in 1 .. MaxPort |-> -1] /\ MaxPort \in Nat
    BY PutAssumption DEF PutInit
  <2>2. put \in Putting /\ put.pc = "idle" /\ put.rc = "none"
    BY <2>1 DEF PutIdle, Putting, Code
  <2>3. PutTypeOK
    BY <2>1, <2>2 DEF PutTypeOK
  <2>4. PortsToCome
    BY <2>1 DEF PortsToCome
  <2> QED BY <2>2, <2>3, <2>4 DEF PutInv, Asking, Sending, Over
<1>2. PutInv /\ [PutNext]_putVars => PutInv'
  <2> SUFFICES ASSUME PutInv, UNCHANGED putVars PROVE PutInv'
    BY PutStep
  <2>1. put' = put /\ port' = port /\ toSrv' = toSrv /\ toPut' = toPut /\ srvHas' = srvHas
    BY DEF putVars
  <2>2. PutTypeOK' /\ PortsToCome' /\ Asking'
    BY <2>1 DEF PutInv, PutTypeOK, PortsToCome, Asking
  <2>3. Progress(put) <=> Progress(put)'
    BY <2>1 DEF Progress, SentTo, ServerAt
  <2> QED BY <2>1, <2>2, <2>3 DEF PutInv, Sending, Over
<1>3. PutInv => PutWhole
  BY DEF PutInv, Over, Progress, PutWhole
<1> QED BY <1>1, <1>2, <1>3, PTL DEF PutSpec

-----------------------------------------------------------------------------
(* Web: the upload                                                          *)

\* At most one peer uploads.
OnePoster == \A p, q \in Poster : p = q

SockRec == [used : BOOLEAN, peer : Peer \cup {NoPeer}, st : {"none", "LISTEN",
            "SYN_RECVD", "ESTABLISHED", "LAST_ACK", "CLOSED"}, acked : BOOLEAN,
            post : BOOLEAN, old : Nat, bnd : {"no", "cur", "old"}]

Thens == {"return", "close", "synack", "refuse", "close if failed", "program",
          "program odd", "reboot"}

PendRec == [sock : Sock, peer : Peer \cup {NoPeer}, then : Thens, polls : BOOLEAN]

WebTypeOK ==
  /\ sock \in [Sock -> SockRec] /\ pend \in Seq(PendRec)
  /\ tol \in {0, TolLen} /\ again \in BOOLEAN

\* A peer has one socket.
OneSocket(s) ==
  \A i, j \in Sock : s[i].peer = s[j].peer /\ s[i].peer \in Peer => i = j

\* What the segments of an upload in progress have brought: a run of the
\* stream up to the next piece wanted.
Part(a, b) == SubSeq(Stream, a, b)

Run(q, n) == n \in 1 .. Len(Stream) + 1 /\ \E a \in 1 .. n : q = Part(a, n - 1)

Collected ==
  \A k \in Sock : sock[k].post =>
    sock[k].peer \in Poster /\ sock[k].st # "LISTEN" /\ Run(buf, sock[k].old)

\* The answers after which post_buf is programmed.
Programs(q) == {i \in DOMAIN q : q[i].then \in {"program", "program odd"}}

\* An upload waits to be programmed: no other is under way, unless again says so.
Quiet ==
  /\ again => Waiting(pend)
  /\ ~again =>
       /\ Waiting(pend) => \A k \in Sock : ~sock[k].post
       /\ \A i, j \in Programs(pend) : i = j
       /\ \A i \in DOMAIN pend : pend[i].then = "program" => buf = File

WebInv == WebTypeOK /\ OneSocket(sock) /\ Collected /\ Quiet

\* The sockets t differ from those there are by nothing an upload depends on.
Based(t) ==
  /\ t \in [Sock -> SockRec] /\ OneSocket(t)
  /\ \A k \in Sock : t[k].post =>
       /\ sock[k].post /\ t[k].peer = sock[k].peer /\ t[k].old = sock[k].old
       /\ t[k].st # "LISTEN"

\* r has the answers of q that end in programming, and no other.
SamePrograms(q, r) ==
  Programs(r) = Programs(q) /\ \A i \in Programs(q) : r[i].then = q[i].then

-----------------------------------------------------------------------------
(* Answers waiting                                                          *)

LEMMA WaitingIs ==
  ASSUME NEW q
  PROVE  Waiting(q) <=> Programs(q) # {}
BY DEF Waiting, Programs

Push(q, e) == Append(q, e)

LEMMA Pushed ==
  ASSUME NEW q \in Seq(PendRec), NEW e \in PendRec
  PROVE  /\ Push(q, e) \in Seq(PendRec)
         /\ DOMAIN Push(q, e) = DOMAIN q \cup {Len(q) + 1}
         /\ Push(q, e)[Len(q) + 1] = e
         /\ \A i \in DOMAIN q : Push(q, e)[i] = q[i]
         /\ e.then \notin {"program", "program odd"} => SamePrograms(q, Push(q, e))
         /\ e.then \in {"program", "program odd"} =>
              Programs(Push(q, e)) = Programs(q) \cup {Len(q) + 1}
<1>0. PICK r : r = Append(q, e)
  OBVIOUS
<1>7. r = Push(q, e)
  BY <1>0 DEF Push
<1>1. /\ r \in Seq(PendRec) /\ Len(r) = Len(q) + 1 /\ r[Len(q) + 1] = e
      /\ \A i \in 1 .. Len(q) : r[i] = q[i]
  BY <1>0
<1>2. Len(q) \in Nat /\ DOMAIN q = 1 .. Len(q) /\ DOMAIN r = 1 .. Len(r)
  BY <1>1
<1>3. PICK n \in Nat : n = Len(q)
  BY <1>2
<1>4. DOMAIN r = DOMAIN q \cup {n + 1} /\ \A i \in DOMAIN q : r[i] = q[i] /\ i # n + 1
  BY <1>1, <1>2, <1>3
<1>5. e.then \notin {"program", "program odd"} => SamePrograms(q, r)
  BY <1>1, <1>3, <1>4 DEF SamePrograms, Programs
<1>6. e.then \in {"program", "program odd"} => Programs(r) = Programs(q) \cup {n + 1}
  BY <1>1, <1>3, <1>4 DEF Programs
<1> QED BY <1>1, <1>3, <1>4, <1>5, <1>6, <1>7

Pop(q) == SubSeq(q, 1, Len(q) - 1)

LEMMA Popped ==
  ASSUME NEW q \in Seq(PendRec), q # <<>>
  PROVE  /\ Pop(q) \in Seq(PendRec) /\ Len(q) \in DOMAIN q /\ q[Len(q)] \in PendRec
         /\ DOMAIN Pop(q) = DOMAIN q \ {Len(q)}
         /\ \A i \in DOMAIN Pop(q) : Pop(q)[i] = q[i]
         /\ q[Len(q)].then \notin {"program", "program odd"} => SamePrograms(q, Pop(q))
         /\ Programs(Pop(q)) = Programs(q) \ {Len(q)}
<1>0. PICK r : r = SubSeq(q, 1, Len(q) - 1)
  OBVIOUS
<1>9. r = Pop(q)
  BY <1>0 DEF Pop
<1>1. PICK n \in Nat \ {0} : n = Len(q)
  OBVIOUS
<1>2. n \in DOMAIN q /\ q[n] \in PendRec /\ DOMAIN q = 1 .. n
  BY <1>1
<1>3. n - 1 \in Nat /\ n - 1 <= Len(q)
  BY <1>1
<1>4. r \in Seq(PendRec) /\ Len(r) = n - 1 /\ \A i \in 1 .. n - 1 : r[i] = q[i]
  BY <1>0, <1>1, <1>3
<1>5. DOMAIN r = 1 .. n - 1
  BY <1>4
<1>6. DOMAIN r = DOMAIN q \ {n} /\ \A i \in DOMAIN r : r[i] = q[i]
  BY <1>2, <1>4, <1>5
<1>7. q[n].then \notin {"program", "program odd"} => SamePrograms(q, r)
  BY <1>2, <1>6 DEF SamePrograms, Programs
<1>8. Programs(r) = Programs(q) \ {n}
  BY <1>6 DEF Programs
<1> QED BY <1>1, <1>2, <1>4, <1>6, <1>7, <1>8, <1>9

\* A step that changes nothing an upload depends on.
LEMMA Calm ==
  ASSUME WebInv, Based(sock'), pend' \in Seq(PendRec), SamePrograms(pend, pend'),
         UNCHANGED http
  PROVE  WebInv'
<1>1. tol' = tol /\ buf' = buf /\ again' = again
  BY DEF http
<1>2. WebTypeOK'
  BY <1>1 DEF WebInv, WebTypeOK, Based
<1>3. OneSocket(sock)'
  BY DEF Based, OneSocket
<1>4. Collected'
  BY <1>1 DEF WebInv, Collected, Based, Run
<1>5. Waiting(pend') <=> Waiting(pend)
  BY WaitingIs DEF SamePrograms
<1>6. \A i \in DOMAIN pend' : pend'[i].then = "program" =>
        i \in DOMAIN pend /\ pend[i].then = "program"
  BY DEF SamePrograms, Programs
<1>7. Programs(pend') = Programs(pend)
  BY DEF SamePrograms
<1>8. Quiet'
  <2>1. Waiting(pend)' <=> Waiting(pend')
    BY DEF Waiting
  <2>2. Programs(pend)' = Programs(pend')
    BY DEF Programs
  <2>3. \A k \in Sock : sock'[k].post => sock[k].post
    BY DEF Based
  <2> QED BY <1>1, <1>5, <1>6, <1>7, <2>1, <2>2, <2>3 DEF WebInv, Quiet, File
<1> QED BY <1>2, <1>3, <1>4, <1>8 DEF WebInv

LEMMA BasedSelf ==
  ASSUME WebInv
  PROVE  Based(sock) /\ SamePrograms(pend, pend) /\ pend \in Seq(PendRec)
BY DEF WebInv, WebTypeOK, Collected, Based, SamePrograms

\* One socket changes.
LEMMA SetOne ==
  ASSUME NEW s, Based(s), NEW k \in Sock, NEW t \in [Sock -> SockRec],
         \A j \in Sock \ {k} : t[j] = s[j],
         t[k].peer = s[k].peer \/ t[k].peer = NoPeer,
         t[k].post => /\ s[k].post /\ t[k].peer = s[k].peer /\ t[k].old = s[k].old
                      /\ t[k].st # "LISTEN"
  PROVE  Based(t)
<1>1. OneSocket(t)
  <2>1. \A j \in Sock : t[j].peer = s[j].peer \/ t[j].peer = NoPeer
    OBVIOUS
  <2>2. NoPeer \notin Peer
    BY WebAssumption
  <2> QED BY <2>1, <2>2 DEF Based, OneSocket
<1> QED BY <1>1 DEF Based

LEMMA LeastNat ==
  ASSUME NEW S \in SUBSET Nat, S # {}
  PROVE  \E n \in S : \A m \in S : n <= m
<1>1. PICK R : R = {ss \in Nat \X Nat : ss[1] < ss[2]}
  OBVIOUS
<1>2. IsWellFoundedOn(R, Nat)
  BY <1>1, NatLessThanWellFounded DEF OpToRel
<1>3. PICK n \in S : \A m \in S : ~(<<m, n>> \in R)
  BY <1>2, WFMin
<1>4. \A m \in S : ~(m < n)
  BY <1>1, <1>3
<1> QED BY <1>4

\* Sockets: those of a peer, and what tcp_close leaves.
LEMMA FreeSockType ==
  FreeSock \in SockRec /\ FreeSock.post = FALSE /\ FreeSock.peer = NoPeer
BY DEF FreeSock, SockRec

LEMMA FirstOf ==
  ASSUME NEW S \in SUBSET Sock, S # {}
  PROVE  First(S) \in S
<1>1. S \in SUBSET Nat
  BY DEF Sock
<1>2. PICK n \in S : \A m \in S : n <= m
  BY <1>1, LeastNat
<1> QED BY <1>2 DEF First

LEMMA OpenedBased ==
  ASSUME WebInv, NEW p \in Peer, LookUp(p) # {}, NEW k, k = First(LookUp(p)),
         NEW s, s = Opened(p, k)
  PROVE  /\ k \in Sock /\ Based(s) /\ s[k].peer = p
         /\ s = sock \/ s[k].st = "LISTEN"
<1>1. LookUp(p) \in SUBSET Sock
  BY DEF LookUp, Matching, Unused
<1>2. k \in LookUp(p) /\ k \in Sock
  BY <1>1, FirstOf
<1>3. sock \in [Sock -> SockRec] /\ OneSocket(sock)
  BY DEF WebInv, WebTypeOK
<1>4. CASE Matching(p) # {}
  <2>1. s = sock /\ s[k].peer = p
    BY <1>2, <1>4 DEF LookUp, Matching, Opened
  <2> QED BY <1>2, <2>1, BasedSelf
<1>5. CASE Matching(p) = {}
  <2>1. s = [sock EXCEPT ![k].used = TRUE, ![k].peer = p, ![k].post = FALSE,
                         ![k].st = "LISTEN"]
    BY <1>5 DEF Opened
  <2>2. s \in [Sock -> SockRec]
    <3>1. PICK c \in SockRec : c = sock[k]
      BY <1>2, <1>3
    <3>2. PICK r : r = [c EXCEPT !.used = TRUE, !.peer = p, !.post = FALSE, !.st = "LISTEN"]
      OBVIOUS
    <3>3. r \in SockRec
      BY <3>2 DEF SockRec
    <3>4. s = [sock EXCEPT ![k] = r]
      BY <1>2, <1>3, <2>1, <3>1, <3>2
    <3> QED BY <1>2, <1>3, <3>3, <3>4
  <2>3. /\ s[k].peer = p /\ s[k].post = FALSE /\ s[k].st = "LISTEN"
        /\ \A j \in Sock \ {k} : s[j] = sock[j]
    BY <1>2, <1>3, <2>1 DEF SockRec
  <2>4. \A j \in Sock : sock[j].peer # p
    BY <1>5 DEF Matching
  <2>5. OneSocket(s)
    BY <1>3, <2>3, <2>4 DEF OneSocket
  <2>6. Based(s)
    BY <2>2, <2>3, <2>5, BasedSelf DEF Based
  <2> QED BY <1>2, <2>3, <2>6
<1> QED BY <1>4, <1>5

LEMMA ClosedBased ==
  ASSUME NEW s, Based(s), NEW k \in Sock
  PROVE  Based(Closed(s, k))
<1>1. s \in [Sock -> SockRec] /\ OneSocket(s) /\ 0 \in Sock
  BY WebAssumption DEF Based, Sock
<1>2. PICK t : t = Closed(s, k)
  OBVIOUS
<1>3. t \in [Sock -> SockRec] /\ \A j \in Sock : t[j] = s[j] \/ t[j] = FreeSock
  <2>1. CASE k = 0
    <3>1. PICK r \in SockRec : r = IF s[0].used THEN FreeSock ELSE s[0]
      BY <1>1, FreeSockType
    <3>2. t = [s EXCEPT ![0] = r]
      BY <1>1, <1>2, <2>1, <3>1 DEF Closed
    <3> QED BY <1>1, <3>1, <3>2
  <2>2. CASE k # 0
    <3>1. t = [j \in Sock |-> IF j >= k /\ s[j].used /\ s[j].peer = s[0].peer
                              THEN FreeSock ELSE s[j]]
      BY <1>2, <2>2 DEF Closed
    <3> QED BY <1>1, <3>1, FreeSockType
  <2> QED BY <2>1, <2>2
<1>4. OneSocket(t)
  BY <1>1, <1>3, FreeSockType, WebAssumption DEF OneSocket
<1>5. \A j \in Sock : t[j].post => s[j].post /\ t[j] = s[j]
  BY <1>3, FreeSockType
<1> QED BY <1>2, <1>3, <1>4, <1>5 DEF Based

\* An answer that does not end in programming.
LEMMA SendBased ==
  ASSUME WebInv, NEW k \in Sock, NEW s, Based(s),
         NEW then \in Thens \ {"program", "program odd"}, SendThen(k, s, then),
         UNCHANGED http
  PROVE  WebInv'
<1>1. sock' = s /\ s \in [Sock -> SockRec] /\ pend \in Seq(PendRec)
  BY DEF SendThen, Based, WebInv, WebTypeOK
<1>2. PICK e : e = [sock |-> k, peer |-> s[k].peer, then |-> then,
                    polls |-> s[k].peer \notin arpKnown]
  OBVIOUS
<1>3. s[k].peer \in Peer \cup {NoPeer}
  BY <1>1 DEF SockRec
<1>4. e \in PendRec /\ e.then = then
  BY <1>2, <1>3 DEF PendRec
<1>5. pend' = Push(pend, e)
  BY <1>2 DEF SendThen, Push
<1>6. pend' \in Seq(PendRec) /\ SamePrograms(pend, pend')
  BY <1>1, <1>4, <1>5, Pushed
<1> QED BY <1>1, <1>6, Calm

LEMMA RefuseWeb ==
  ASSUME WebInv, NEW k \in Sock, NEW s, Based(s), Refuse(k, s), UNCHANGED http
  PROVE  WebInv'
<1>1. PICK t : t = [s EXCEPT ![k].st = "LISTEN", ![k].post = FALSE]
  OBVIOUS
<1>2. s \in [Sock -> SockRec]
  BY DEF Based
<1>3. t \in [Sock -> SockRec]
  <2>1. PICK c \in SockRec : c = s[k]
    BY <1>2
  <2>2. PICK r : r = [c EXCEPT !.st = "LISTEN", !.post = FALSE]
    OBVIOUS
  <2>3. r \in SockRec
    BY <2>2 DEF SockRec
  <2>4. t = [s EXCEPT ![k] = r]
    BY <1>2, <1>1, <2>1, <2>2
  <2> QED BY <1>2, <2>3, <2>4
<1>4. /\ t[k].peer = s[k].peer /\ t[k].post = FALSE
      /\ \A j \in Sock \ {k} : t[j] = s[j]
  BY <1>1, <1>2 DEF SockRec
<1>5. Based(t)
  BY <1>3, <1>4, SetOne
<1>6. SendThen(k, t, "close") /\ "close" \in Thens \ {"program", "program odd"}
  BY <1>1 DEF Refuse, Thens
<1> QED BY <1>5, <1>6, SendBased

LEMMA ListenWeb ==
  ASSUME WebInv, NEW k \in Sock, NEW s, Based(s), NEW f, InListen(k, s, f)
  PROVE  WebInv'
<1>1. s[k].st = "LISTEN" /\ UNCHANGED http
  BY DEF InListen
<1>2. CASE f # "SYN"
  BY <1>1, <1>2, RefuseWeb DEF InListen
<1>3. CASE f = "SYN"
  <2>1. PICK b : b = IF s[k].bnd = "cur" THEN "old" ELSE s[k].bnd
    OBVIOUS
  <2>2. s \in [Sock -> SockRec] /\ ~s[k].post
    BY <1>1 DEF Based
  <2>3. b \in {"no", "cur", "old"}
    BY <2>1, <2>2 DEF SockRec
  <2>4. PICK t : t = [s EXCEPT ![k].acked = FALSE, ![k].old = 0, ![k].bnd = b]
    OBVIOUS
  <2>5. SendThen(k, t, "synack")
    BY <1>3, <2>1, <2>2, <2>4 DEF InListen
  <2>6. t \in [Sock -> SockRec]
    <3>1. PICK c \in SockRec : c = s[k]
      BY <2>2
    <3>2. PICK r : r = [c EXCEPT !.acked = FALSE, !.old = 0, !.bnd = b]
      OBVIOUS
    <3>3. r \in SockRec
      BY <2>3, <3>2 DEF SockRec
    <3>4. t = [s EXCEPT ![k] = r]
      BY <2>2, <2>4, <3>1, <3>2
    <3> QED BY <2>2, <3>3, <3>4
  <2>7. /\ t[k].peer = s[k].peer /\ t[k].post = s[k].post
        /\ \A j \in Sock \ {k} : t[j] = s[j]
    BY <2>2, <2>4 DEF SockRec
  <2>8. Based(t)
    BY <2>2, <2>6, <2>7, SetOne
  <2>9. "synack" \in Thens \ {"program", "program odd"}
    BY DEF Thens
  <2> QED BY <1>1, <2>5, <2>8, <2>9, SendBased
<1> QED BY <1>2, <1>3

\* A change of state or flags of one socket.
LEMMA StateBased ==
  ASSUME NEW s, Based(s), NEW k \in Sock,
         NEW x \in {"none", "LISTEN", "SYN_RECVD", "ESTABLISHED", "LAST_ACK", "CLOSED"},
         x # "LISTEN"
  PROVE  Based([s EXCEPT ![k].st = x])
<1>1. s \in [Sock -> SockRec]
  BY DEF Based
<1>2. PICK t : t = [s EXCEPT ![k].st = x]
  OBVIOUS
<1>3. t \in [Sock -> SockRec]
  BY <1>1, <1>2 DEF SockRec
<1>4. /\ t[k].peer = s[k].peer /\ t[k].post = s[k].post /\ t[k].old = s[k].old
      /\ t[k].st = x /\ \A j \in Sock \ {k} : t[j] = s[j]
  BY <1>1, <1>2 DEF SockRec
<1>5. Based(t)
  BY <1>3, <1>4, SetOne
<1> QED BY <1>2, <1>5

LEMMA SynRecvdWeb ==
  ASSUME WebInv, NEW k \in Sock, NEW s, Based(s), NEW f, InSynRecvd(k, s, f)
  PROVE  WebInv'
<1>1. UNCHANGED http
  BY DEF InSynRecvd
<1>2. \/ sock' = Closed(s, k) /\ pend' = pend
      \/ SendThen(k, s, "close if failed")
      \/ sock' = [s EXCEPT ![k].st = "ESTABLISHED", ![k].acked = TRUE] /\ pend' = pend
      \/ sock' = sock /\ pend' = pend
  BY DEF InSynRecvd
<1>3. CASE sock' = Closed(s, k) /\ pend' = pend
  BY <1>1, <1>3, ClosedBased, BasedSelf, Calm
<1>4. CASE SendThen(k, s, "close if failed")
  <2>1. "close if failed" \in Thens \ {"program", "program odd"}
    BY DEF Thens
  <2> QED BY <1>1, <1>4, <2>1, SendBased
<1>5. CASE sock' = [s EXCEPT ![k].st = "ESTABLISHED", ![k].acked = TRUE] /\ pend' = pend
  <2>1. s \in [Sock -> SockRec]
    BY DEF Based
  <2>2. PICK t : t = [s EXCEPT ![k].st = "ESTABLISHED", ![k].acked = TRUE]
    OBVIOUS
  <2>3. t \in [Sock -> SockRec]
    <3>1. PICK c \in SockRec : c = s[k]
      BY <2>1
    <3>2. PICK r : r = [c EXCEPT !.st = "ESTABLISHED", !.acked = TRUE]
      OBVIOUS
    <3>3. r \in SockRec
      BY <3>2 DEF SockRec
    <3>4. t = [s EXCEPT ![k] = r]
      BY <2>1, <2>2, <3>1, <3>2
    <3> QED BY <2>1, <3>3, <3>4
  <2>4. /\ t[k].peer = s[k].peer /\ t[k].post = s[k].post /\ t[k].old = s[k].old
        /\ t[k].st = "ESTABLISHED" /\ \A j \in Sock \ {k} : t[j] = s[j]
    BY <2>1, <2>2 DEF SockRec
  <2>5. Based(t)
    BY <2>3, <2>4, SetOne
  <2> QED BY <1>1, <1>5, <2>2, <2>5, BasedSelf, Calm
<1>6. CASE sock' = sock /\ pend' = pend
  BY <1>1, <1>6, BasedSelf, Calm
<1> QED BY <1>2, <1>3, <1>4, <1>5, <1>6

LEMMA ClosingWeb ==
  ASSUME WebInv, NEW k \in Sock, NEW s, Based(s), NEW f, InClosing(k, s, f)
  PROVE  WebInv'
<1>1. UNCHANGED http /\ (SendThen(k, s, "refuse") \/ Refuse(k, s))
  BY DEF InClosing
<1>2. "refuse" \in Thens \ {"program", "program odd"}
  BY DEF Thens
<1> QED BY <1>1, <1>2, SendBased, RefuseWeb

LEMMA ResetWeb ==
  ASSUME WebInv, NEW k \in Sock, NEW s, Based(s), InReset(k, s)
  PROVE  WebInv'
<1>1. sock' = [s EXCEPT ![k].st = "CLOSED"] /\ pend' = pend /\ UNCHANGED http
  BY DEF InReset
<1>2. Based([s EXCEPT ![k].st = "CLOSED"])
  BY StateBased
<1> QED BY <1>1, <1>2, BasedSelf, Calm

-----------------------------------------------------------------------------
(* The stream of an upload                                                  *)

LEMMA Joined ==
  ASSUME NEW s \in Seq(Int), NEW t \in Seq(Int)
  PROVE  /\ s \o t \in Seq(Int) /\ Len(s \o t) = Len(s) + Len(t)
         /\ \A i \in 1 .. Len(s) : (s \o t)[i] = s[i]
         /\ \A i \in 1 .. Len(t) : (s \o t)[Len(s) + i] = t[i]
<1>0. PICK r : r = s \o t
  OBVIOUS
<1>1. PICK m \in Nat, n \in Nat : m = Len(s) /\ n = Len(t)
  OBVIOUS
<1>2. /\ r \in Seq(Int) /\ Len(r) = m + n
      /\ \A i \in 1 .. m + n : r[i] = IF i <= m THEN s[i] ELSE t[i - m]
  BY <1>0, <1>1, ConcatProperties
<1>3. ASSUME NEW i \in 1 .. m
      PROVE  r[i] = s[i]
  BY <1>2
<1>4. ASSUME NEW i \in 1 .. n
      PROVE  r[m + i] = t[i]
  <2>1. m + i \in 1 .. m + n /\ ~(m + i <= m) /\ (m + i) - m = i
    OBVIOUS
  <2> QED BY <1>2, <2>1
<1> QED BY <1>0, <1>1, <1>2, <1>3, <1>4

LEMMA StreamIs ==
  /\ FileLen \in Nat \ {0} /\ Stream \in Seq(Int) /\ Len(Stream) = FileLen + 5
  /\ Stream[4] = MARK /\ Stream[FileLen + 5] = END
  /\ \A i \in 1 .. FileLen : Stream[4 + i] = i
  /\ \A i \in 1 .. FileLen + 5 : Stream[i] = MARK => i = 4
  /\ \A i \in 1 .. FileLen + 5 : Stream[i] \in {MARK, END} => i = 4 \/ i = FileLen + 5
<1>1. PICK n \in Nat \ {0} : n = FileLen
  BY WebAssumption
<1>2. PICK h : h = <<REQ, DECL, LEN, MARK>>
  OBVIOUS
<1>3. /\ h \in Seq(Int) /\ Len(h) = 4 /\ h[1] = -1 /\ h[2] = -2 /\ h[3] = -3 /\ h[4] = -4
  BY <1>2 DEF REQ, DECL, LEN, MARK
<1>4. File \in Seq(Int) /\ Len(File) = n /\ \A i \in 1 .. n : File[i] = i
  BY <1>1 DEF File
<1>5. PICK g : g = h \o File
  OBVIOUS
<1>6. /\ g \in Seq(Int) /\ Len(g) = 4 + n
      /\ \A i \in 1 .. 4 : g[i] = h[i]
      /\ \A i \in 1 .. n : g[4 + i] = File[i]
  <2>1. h \in Seq(Int) /\ Len(h) = 4
    BY <1>3
  <2>2. File \in Seq(Int) /\ Len(File) = n
    BY <1>4
  <2>3. /\ g \in Seq(Int) /\ Len(g) = Len(h) + Len(File)
        /\ \A i \in 1 .. Len(h) : g[i] = h[i]
        /\ \A i \in 1 .. Len(File) : g[Len(h) + i] = File[i]
    BY <1>5, <2>1, <2>2, Joined
  <2> QED BY <2>1, <2>2, <2>3
<1>7. PICK e : e = <<END>> /\ e \in Seq(Int) /\ Len(e) = 1 /\ e[1] = -5
  <2>1. END \in Int /\ END = -5
    BY DEF END
  <2>2. <<END>> \in Seq(Int) /\ Len(<<END>>) = 1 /\ <<END>>[1] = END
    BY <2>1
  <2> QED BY <2>1, <2>2
<1>8. PICK m \in Nat : m = 4 + n
  OBVIOUS
<1>9. /\ Stream \in Seq(Int) /\ Len(Stream) = m + 1
      /\ \A i \in 1 .. m : Stream[i] = g[i]
      /\ \A i \in 1 .. 1 : Stream[m + i] = e[i]
  <2>1. Stream = g \o e
    BY <1>2, <1>5, <1>7 DEF Stream
  <2>2. Len(g) = m /\ g \in Seq(Int)
    BY <1>6, <1>8
  <2>3. /\ Stream \in Seq(Int) /\ Len(Stream) = Len(g) + Len(e)
        /\ \A i \in 1 .. Len(g) : Stream[i] = g[i]
        /\ \A i \in 1 .. Len(e) : Stream[Len(g) + i] = e[i]
    BY <1>7, <2>1, <2>2, Joined
  <2> QED BY <1>7, <2>2, <2>3
<1>10. /\ Stream[1] = -1 /\ Stream[2] = -2 /\ Stream[3] = -3 /\ Stream[4] = -4
       /\ Stream[n + 5] = -5 /\ Len(Stream) = n + 5
  <2>1. 1 \in 1 .. m /\ 2 \in 1 .. m /\ 3 \in 1 .. m /\ 4 \in 1 .. m
    BY <1>8
  <2>2. g[1] = h[1] /\ g[2] = h[2] /\ g[3] = h[3] /\ g[4] = h[4]
    BY <1>6
  <2>3. m + 1 = n + 5 /\ 1 \in 1 .. 1
    BY <1>8
  <2>4. Stream[m + 1] = -5
    BY <1>7, <1>9, <2>3
  <2> QED BY <1>3, <1>9, <2>1, <2>2, <2>3, <2>4
<1>11. \A i \in 1 .. n : Stream[4 + i] = i
  <2>1. ASSUME NEW i \in 1 .. n
        PROVE  Stream[4 + i] = i
    <3>1. 4 + i \in 1 .. m
      BY <1>8
    <3> QED BY <1>4, <1>6, <1>9, <3>1
  <2> QED BY <2>1
<1>12. ASSUME NEW i \in 1 .. n + 5, i \notin {4, n + 5}
       PROVE  Stream[i] \notin {-4, -5}
  <2>1. CASE i \in {1, 2, 3}
    BY <1>10, <2>1
  <2>2. CASE i \in 5 .. n + 4
    <3>1. PICK j \in 1 .. n : i = 4 + j
      <4>1. i - 4 \in 1 .. n /\ i = 4 + (i - 4)
        BY <2>2
      <4> QED BY <4>1
    <3>2. Stream[i] = j
      BY <1>11, <3>1
    <3> QED BY <3>2
  <2> QED BY <1>12, <2>1, <2>2
<1>13. MARK = -4 /\ END = -5
  BY DEF MARK, END
<1> HIDE DEF MARK, END
<1>14. \A i \in 1 .. n + 5 : Stream[i] \in {MARK, END} => i = 4 \/ i = n + 5
  BY <1>12, <1>13
<1>15. \A i \in 1 .. n + 5 : Stream[i] = MARK => i = 4
  <2>1. ASSUME NEW i \in 1 .. n + 5, Stream[i] = MARK
        PROVE  i = 4
    <3>1. i = 4 \/ i = n + 5
      BY <1>14, <2>1
    <3> QED BY <1>10, <1>13, <2>1, <3>1
  <2> QED BY <2>1
<1> QED BY <1>1, <1>9, <1>10, <1>11, <1>13, <1>14, <1>15

\* A run of the stream.
LEMMA Piece ==
  ASSUME NEW a \in Nat \ {0}, NEW b \in Nat, b <= Len(Stream), a <= b + 1
  PROVE  /\ Part(a, b) \in Seq(Int) /\ Len(Part(a, b)) = b + 1 - a
         /\ DOMAIN Part(a, b) = 1 .. b + 1 - a
         /\ \A i \in 1 .. b + 1 - a : Part(a, b)[i] = Stream[a + i - 1]
<1>1. Stream \in Seq(Int) /\ Len(Stream) \in Nat
  BY StreamIs
<1>2. PICK m \in Nat : m = b + 1 - a
  OBVIOUS
<1>3. Part(a, b) = [i \in 1 .. b - a + 1 |-> Stream[a + i - 1]]
  BY DEF Part
<1>4. \A i \in 1 .. m : Stream[a + i - 1] \in Int
  <2>1. ASSUME NEW i \in 1 .. m
        PROVE  Stream[a + i - 1] \in Int
    <3>1. a + i - 1 \in 1 .. Len(Stream)
      BY <1>1, <1>2
    <3> QED BY <1>1, <3>1
  <2> QED BY <2>1
<1>5. b - a + 1 = m
  BY <1>2
<1>6. PICK q : q = Part(a, b)
  OBVIOUS
<1>7. q = [i \in 1 .. m |-> Stream[a + i - 1]]
  BY <1>3, <1>5, <1>6
<1>8. q \in Seq(Int) /\ Len(q) = m /\ DOMAIN q = 1 .. m
  BY <1>4, <1>7
<1> QED BY <1>2, <1>6, <1>7, <1>8

\* What is cut before the boundary is a run of the stream, too.
LEMMA CutIs ==
  ASSUME NEW a \in Nat \ {0}, NEW b \in 1 .. Len(Stream), a <= b + 1,
         NEW q, q = Part(a, b), NEW known \in BOOLEAN
  PROVE  \E c \in 1 .. b + 1 : Cut(q, known) = Part(c, b)
<1>0. b \in Nat /\ b <= Len(Stream) /\ Len(Stream) = FileLen + 5 /\ FileLen \in Nat
  BY StreamIs
<1>1. PICK m \in Nat : /\ b + 1 = a + m /\ q \in Seq(Int) /\ DOMAIN q = 1 .. m /\ Len(q) = m
                       /\ \A i \in 1 .. m : q[i] = Stream[a + i - 1]
  <2>1. /\ q \in Seq(Int) /\ Len(q) = b + 1 - a /\ DOMAIN q = 1 .. b + 1 - a
        /\ \A i \in 1 .. b + 1 - a : q[i] = Stream[a + i - 1]
    BY <1>0, Piece
  <2>2. PICK m \in Nat : m = b + 1 - a /\ b + 1 = a + m
    BY <1>0
  <2> QED BY <2>1, <2>2
<1>2. CASE ~(known /\ Has(q, MARK))
  <2>1. Cut(q, known) = q
    BY <1>2 DEF Cut
  <2>2. a \in 1 .. b + 1
    OBVIOUS
  <2> QED BY <2>1, <2>2
<1>3. CASE known /\ Has(q, MARK)
  <2>1. PICK i \in DOMAIN q : q[i] = MARK /\ i = CHOOSE j \in DOMAIN q : q[j] = MARK
    BY <1>3 DEF Has
  <2>2. a + i - 1 = 4
    <3>1. Stream[a + i - 1] = MARK
      BY <1>1, <2>1
    <3>2. i \in 1 .. m /\ a + m = b + 1 /\ b <= FileLen + 5
      BY <1>0, <1>1, <2>1
    <3>3. a + i - 1 \in 1 .. FileLen + 5
      BY <1>0, <1>1, <3>2
    <3> QED BY <3>1, <3>3, StreamIs
  <2>3. Cut(q, known) = SubSeq(q, i, Len(q))
    BY <1>3, <2>1 DEF Cut, From
  <2>4. i \in 1 .. m
    BY <1>1
  <2>5. SubSeq(q, i, Len(q)) = [j \in 1 .. m - i + 1 |-> q[i + j - 1]]
    <3>1. PICK x \in Int, y \in Int : x = i /\ y = m
      BY <2>4
    <3>2. SubSeq(q, x, y) = [j \in 1 .. y - x + 1 |-> q[x + j - 1]]
      OBVIOUS
    <3> QED BY <1>1, <3>1, <3>2
  <2>6. m - i + 1 = b - 4 + 1 /\ 4 \in 1 .. b + 1
    BY <1>1, <2>2, <2>4
  <2>7. \A j \in 1 .. m - i + 1 : q[i + j - 1] = Stream[4 + j - 1]
    <3>1. ASSUME NEW j \in 1 .. m - i + 1
          PROVE  q[i + j - 1] = Stream[4 + j - 1]
      <4>1. i + j - 1 \in 1 .. m /\ a + (i + j - 1) - 1 = 4 + j - 1
        BY <2>2, <2>4
      <4> QED BY <1>1, <4>1
    <3> QED BY <3>1
  <2>8. Part(4, b) = [j \in 1 .. b - 4 + 1 |-> Stream[4 + j - 1]]
    BY DEF Part
  <2>9. SubSeq(q, i, Len(q)) = Part(4, b)
    BY <2>5, <2>6, <2>7, <2>8
  <2> QED BY <2>3, <2>6, <2>9
<1> QED BY <1>2, <1>3

\* The next segment continues the run.
LEMMA Continued ==
  ASSUME NEW a \in Nat \ {0}, NEW n \in 1 .. Len(Stream), a <= n, NEW b \in n .. Len(Stream),
         NEW q, q = Part(a, n - 1)
  PROVE  q \o Part(n, b) = Part(a, b)
<1>1. PICK v, w : v = Part(n, b) /\ w = Part(a, b)
  OBVIOUS
<1>2. PICK d \in Nat, e \in Nat, c \in Nat :
        n = a + d /\ b + 1 = n + e /\ c = n - 1 /\ b + 1 = a + (d + e)
  <2>1. /\ n - a \in Nat /\ n = a + (n - a) /\ b + 1 - n \in Nat /\ b + 1 = n + (b + 1 - n)
        /\ n - 1 \in Nat
    OBVIOUS
  <2>2. PICK d \in Nat, e \in Nat, c \in Nat : n = a + d /\ b + 1 = n + e /\ c = n - 1
    BY <2>1
  <2> QED BY <2>2
<1>3. Len(Stream) \in Nat /\ n \in Nat \ {0} /\ b \in Nat /\ b <= Len(Stream) /\ c <= Len(Stream)
  BY <1>2, StreamIs
<1>4. q \in Seq(Int) /\ Len(q) = d /\ \A i \in 1 .. d : q[i] = Stream[a + i - 1]
  <2>1. q = Part(a, c) /\ a <= c + 1 /\ c + 1 - a = d
    BY <1>2
  <2>2. /\ Part(a, c) \in Seq(Int) /\ Len(Part(a, c)) = c + 1 - a
        /\ \A i \in 1 .. c + 1 - a : Part(a, c)[i] = Stream[a + i - 1]
    <3>1. c <= Len(Stream) /\ a <= c + 1
      BY <1>3, <2>1
    <3> QED BY <3>1, Piece
  <2> QED BY <2>1, <2>2
<1>5. v \in Seq(Int) /\ Len(v) = e /\ \A i \in 1 .. e : v[i] = Stream[n + i - 1]
  <2>1. n <= b + 1 /\ b + 1 - n = e
    BY <1>2, <1>3
  <2>2. /\ v \in Seq(Int) /\ Len(v) = b + 1 - n
        /\ \A i \in 1 .. b + 1 - n : v[i] = Stream[n + i - 1]
    BY <1>1, <1>3, <2>1, Piece
  <2> QED BY <2>1, <2>2
<1>6. PICK f \in Nat : /\ f = d + e /\ w \in Seq(Int) /\ Len(w) = f
                       /\ \A i \in 1 .. f : w[i] = Stream[a + i - 1]
  <2>1. PICK f \in Nat : f = d + e
    OBVIOUS
  <2>2. a <= b + 1 /\ b + 1 - a = f
    BY <1>2, <1>3, <2>1
  <2>3. /\ w \in Seq(Int) /\ Len(w) = b + 1 - a
        /\ \A i \in 1 .. b + 1 - a : w[i] = Stream[a + i - 1]
    BY <1>1, <1>3, <2>2, Piece
  <2> QED BY <2>1, <2>2, <2>3
<1>7. PICK z : z = q \o v
  OBVIOUS
<1>8. /\ z \in Seq(Int) /\ Len(z) = d + e
      /\ \A i \in 1 .. d : z[i] = q[i]
      /\ \A i \in 1 .. e : z[d + i] = v[i]
  <2>1. q \in Seq(Int) /\ Len(q) = d
    BY <1>4
  <2>2. v \in Seq(Int) /\ Len(v) = e
    BY <1>5
  <2>3. /\ z \in Seq(Int) /\ Len(z) = Len(q) + Len(v)
        /\ \A i \in 1 .. Len(q) : z[i] = q[i]
        /\ \A i \in 1 .. Len(v) : z[Len(q) + i] = v[i]
    <3>1. PICK qq \in Seq(Int), vv \in Seq(Int) : qq = q /\ vv = v
      BY <2>1, <2>2
    <3>2. /\ qq \o vv \in Seq(Int) /\ Len(qq \o vv) = Len(qq) + Len(vv)
          /\ \A i \in 1 .. Len(qq) : (qq \o vv)[i] = qq[i]
          /\ \A i \in 1 .. Len(vv) : (qq \o vv)[Len(qq) + i] = vv[i]
      BY Joined
    <3> QED BY <1>7, <3>1, <3>2
  <2> QED BY <2>1, <2>2, <2>3
<1>9. ASSUME NEW i \in 1 .. f
      PROVE  z[i] = w[i]
  <2>1. CASE i <= d
    <3>1. i \in 1 .. d
      BY <2>1
    <3> QED BY <1>4, <1>6, <1>8, <3>1
  <2>2. CASE i > d
    <3>1. PICK j \in 1 .. e : i = d + j
      <4>1. i - d \in 1 .. e /\ i = d + (i - d)
        BY <1>6, <2>2
      <4> QED BY <4>1
    <3>2. n + j - 1 = a + i - 1
      BY <1>2, <3>1
    <3>3. z[i] = Stream[n + j - 1]
      BY <1>5, <1>8, <3>1
    <3> QED BY <1>6, <3>2, <3>3
  <2>3. i <= d \/ i > d
    OBVIOUS
  <2> QED BY <2>1, <2>2, <2>3
<1>10. z = w
  BY <1>6, <1>8, <1>9, SeqEqual
<1> QED BY <1>1, <1>7, <1>10

\* What image_upgrade programs when the end of the upload was seen.
LEMMA WholeIsFile ==
  ASSUME NEW a \in Nat \ {0}, NEW b \in 1 .. Len(Stream), a <= b + 1,
         NEW q, q = Part(a, b), NEW t \in {0, TolLen},
         q # <<>>, q[1] = MARK, Verdict(Stream[b], Len(q), t) = "whole"
  PROVE  SubSeq(q, 2, IF Len(q) < t THEN Len(q) ELSE t - 1) = File
<1>1. PICK n \in Nat \ {0} : n = FileLen
  BY StreamIs
<1>2. b \in Nat /\ b <= Len(Stream) /\ Len(Stream) = n + 5
  BY <1>1, StreamIs
<1>3. PICK m \in Nat : /\ b + 1 = a + m /\ q \in Seq(Int) /\ DOMAIN q = 1 .. m /\ Len(q) = m
                       /\ \A i \in 1 .. m : q[i] = Stream[a + i - 1]
  <2>1. /\ q \in Seq(Int) /\ Len(q) = b + 1 - a /\ DOMAIN q = 1 .. b + 1 - a
        /\ \A i \in 1 .. b + 1 - a : q[i] = Stream[a + i - 1]
    BY <1>2, Piece
  <2>2. PICK m \in Nat : m = b + 1 - a /\ b + 1 = a + m
    BY <1>2
  <2> QED BY <2>1, <2>2
<1>4. m = Len(q)
  BY <1>3
<1>5. m # 0
  <2>1. SUFFICES ASSUME m = 0 PROVE FALSE
    OBVIOUS
  <2>2. Len(q) = 0
    BY <1>4, <2>1
  <2> QED BY <1>3, <2>2, EmptySeq
<1>6. a = 4
  <2>1. 1 \in 1 .. m /\ a + 1 - 1 = a /\ a \in 1 .. n + 5
    BY <1>2, <1>3, <1>5
  <2>2. Stream[a] = MARK
    BY <1>3, <2>1
  <2> QED BY <1>1, <2>1, <2>2, StreamIs
<1>7. Stream[b] \in {MARK, END} /\ m = t
  <2>1. "more" # "whole" /\ "unknown" # "whole"
    OBVIOUS
  <2> QED BY <1>4, <2>1 DEF Verdict
<1>8. t = n + 2
  BY <1>1, <1>5, <1>7 DEF TolLen
<1>9. SubSeq(q, 2, IF Len(q) < t THEN Len(q) ELSE t - 1) = SubSeq(q, 2, n + 1)
  <2>1. ~(Len(q) < t) /\ t - 1 = n + 1
    BY <1>4, <1>7, <1>8
  <2> QED BY <2>1
<1>10. SubSeq(q, 2, n + 1) = [i \in 1 .. n |-> q[2 + i - 1]]
  <2>1. PICK x \in Int, c \in Int : x = 2 /\ c = n + 1 /\ c - x + 1 = n
    OBVIOUS
  <2>2. SubSeq(q, x, c) = [i \in 1 .. c - x + 1 |-> q[x + i - 1]]
    OBVIOUS
  <2> QED BY <2>1, <2>2
<1>11. \A i \in 1 .. n : q[2 + i - 1] = i
  <2>1. ASSUME NEW i \in 1 .. n
        PROVE  q[2 + i - 1] = i
    <3>1. PICK j \in 1 .. m : j = 2 + i - 1
      BY <1>7, <1>8
    <3>2. q[j] = Stream[a + j - 1] /\ a + j - 1 = 4 + i
      BY <1>3, <1>6, <3>1
    <3> QED BY <1>1, <3>1, <3>2, StreamIs
  <2> QED BY <2>1
<1>12. File = [i \in 1 .. n |-> i]
  BY <1>1 DEF File
<1> QED BY <1>9, <1>10, <1>11, <1>12

-----------------------------------------------------------------------------
(* Segments of an upload                                                    *)

\* An upload under way is the only one, and again says whether an earlier one
\* waits to be programmed.
LEMMA Alone ==
  ASSUME WebInv, OnePoster, NEW k \in Sock, sock[k].peer \in Poster
  PROVE  /\ \A j \in Sock \ {k} : ~sock[j].post
         /\ sock[k].post => (again <=> Waiting(pend))
<1>1. Poster \subseteq Peer
  BY WebAssumption
<1>2. \A j \in Sock \ {k} : ~sock[j].post
  BY <1>1 DEF WebInv, Collected, OnePoster, OneSocket
<1>3. sock[k].post => (again <=> Waiting(pend))
  BY DEF WebInv, WebTypeOK, Quiet
<1> QED BY <1>2, <1>3

LEMMA PushedProgram ==
  ASSUME NEW q \in Seq(PendRec), NEW e \in PendRec, ~Waiting(q)
  PROVE  /\ e.then \in {"program", "program odd"} =>
              /\ \A i, j \in Programs(Push(q, e)) : i = j
              /\ \A i \in DOMAIN Push(q, e) :
                   Push(q, e)[i].then = "program" => e.then = "program"
         /\ e.then \notin {"program", "program odd"} =>
              /\ ~Waiting(Push(q, e))
              /\ \A i \in DOMAIN Push(q, e) : Push(q, e)[i].then # "program"
<1>0. PICK r : r = Push(q, e)
  OBVIOUS
<1>1. /\ DOMAIN r = DOMAIN q \cup {Len(q) + 1} /\ r[Len(q) + 1] = e
      /\ \A i \in DOMAIN q : r[i] = q[i]
  <2>1. DOMAIN Push(q, e) = DOMAIN q \cup {Len(q) + 1}
    BY Pushed
  <2>2. Push(q, e)[Len(q) + 1] = e
    BY Pushed
  <2>3. \A i \in DOMAIN q : Push(q, e)[i] = q[i]
    BY Pushed
  <2> QED BY <1>0, <2>1, <2>2, <2>3
<1>2. \A i \in DOMAIN q : q[i].then \notin {"program", "program odd"}
  BY DEF Waiting
<1>3. \A i \in DOMAIN q : r[i].then \notin {"program", "program odd"}
  BY <1>1, <1>2
<1>4. CASE e.then \in {"program", "program odd"}
  <2>1. Programs(r) = {Len(q) + 1}
    BY <1>1, <1>3, <1>4 DEF Programs
  <2> QED BY <1>0, <1>1, <1>3, <1>4, <2>1
<1>5. CASE e.then \notin {"program", "program odd"}
  <2>1. Programs(r) = {}
    BY <1>1, <1>3, <1>5 DEF Programs
  <2>2. \A i \in DOMAIN r : r[i].then # "program"
    BY <1>1, <1>3, <1>5
  <2> QED BY <1>0, <1>5, <2>1, <2>2, WaitingIs
<1> QED BY <1>4, <1>5

\* What follows a segment of the upload on socket k, whose run is now q.
LEMMA JudgeWeb ==
  ASSUME WebInv, NEW k \in Sock,
         NEW s \in [Sock -> SockRec], OneSocket(s), s[k].post, s[k].peer \in Poster,
         s[k].st # "LISTEN", \A j \in Sock \ {k} : ~s[j].post,
         NEW a \in Nat \ {0}, NEW b \in 1 .. Len(Stream), a <= b + 1, s[k].old = b + 1,
         NEW q, q = Part(a, b), NEW t \in {0, TolLen},
         Judge(k, s, t, q, Stream[b]), again' \in BOOLEAN, again' <=> Waiting(pend)
  PROVE  WebInv'
<1>1. pend \in Seq(PendRec) /\ s[k] \in SockRec /\ s[k].peer \in Peer \cup {NoPeer}
  BY DEF WebInv, WebTypeOK, SockRec
<1>2. ASSUME NEW u \in [Sock -> SockRec], NEW then \in Thens, u[k].peer = s[k].peer,
             SendThen(k, u, then)
      PROVE  \E e \in PendRec : e.then = then /\ pend' = Push(pend, e)
  <2>1. PICK e : e = [sock |-> k, peer |-> u[k].peer, then |-> then,
                      polls |-> u[k].peer \notin arpKnown]
    OBVIOUS
  <2>2. e \in PendRec /\ e.then = then
    BY <1>1, <1>2, <2>1 DEF PendRec
  <2>3. pend' = Push(pend, e)
    BY <1>2, <2>1 DEF SendThen, Push
  <2> QED BY <2>2, <2>3
<1>3. Waiting(pend)' <=> Waiting(pend')
  BY DEF Waiting
<1>4. Programs(pend)' = Programs(pend')
  BY DEF Programs
<1>5. CASE TakeMore(k, s, t, q)
  <2>1. tol' = t /\ buf' = q /\ sock' = s /\ SendThen(k, s, "return") /\ "return" \in Thens
    BY <1>5 DEF TakeMore, SendThen, Thens
  <2>2. PICK e \in PendRec : e.then = "return" /\ pend' = Push(pend, e)
    BY <1>2, <2>1
  <2>3. pend' \in Seq(PendRec) /\ SamePrograms(pend, pend')
    BY <1>1, <2>2, Pushed
  <2>4. WebTypeOK' /\ OneSocket(sock)'
    BY <2>1, <2>3 DEF WebTypeOK, OneSocket
  <2>5. Run(q, b + 1)
    <3>1. b + 1 \in 1 .. Len(Stream) + 1 /\ (b + 1) - 1 = b /\ a \in 1 .. b + 1
      BY StreamIs
    <3> QED BY <3>1 DEF Run
  <2>6. Collected'
    <3>1. \A j \in Sock : sock'[j].post =>
            sock'[j].peer \in Poster /\ sock'[j].st # "LISTEN" /\ Run(buf', sock'[j].old)
      BY <2>1, <2>5
    <3>2. \A j \in Sock : Run(buf, sock[j].old)' <=> Run(buf', sock'[j].old)
      BY DEF Run, Part, Stream, File
    <3> QED BY <3>1, <3>2 DEF Collected
  <2>7. Quiet'
    <3>1. CASE again'
      <4>1. Programs(pend') # {}
        BY <2>3, <3>1, WaitingIs DEF SamePrograms
      <4> QED BY <1>3, <3>1, <4>1, WaitingIs DEF Quiet
    <3>2. CASE ~again'
      <4>1. ~Waiting(pend) /\ e.then \notin {"program", "program odd"}
        BY <2>2, <3>2
      <4>2. ~Waiting(pend') /\ \A i \in DOMAIN pend' : pend'[i].then # "program"
        <5>1. /\ ~Waiting(Push(pend, e))
              /\ \A i \in DOMAIN Push(pend, e) : Push(pend, e)[i].then # "program"
          BY <1>1, <4>1, PushedProgram
        <5> QED BY <2>2, <5>1
      <4>3. Programs(pend') = {}
        BY <4>2, WaitingIs
      <4> QED BY <1>3, <1>4, <3>2, <4>2, <4>3 DEF Quiet
    <3> QED BY <3>1, <3>2
  <2> QED BY <2>4, <2>6, <2>7 DEF WebInv
<1>6. CASE Unsupported(k, s)
  <2>1. PICK u : u = [s EXCEPT ![k].post = FALSE, ![k].bnd = "no"]
    OBVIOUS
  <2>2. u \in [Sock -> SockRec]
    <3>1. PICK c \in SockRec : c = s[k]
      BY <1>1
    <3>2. PICK r : r = [c EXCEPT !.post = FALSE, !.bnd = "no"]
      OBVIOUS
    <3>3. r \in SockRec
      BY <3>2 DEF SockRec
    <3>4. u = [s EXCEPT ![k] = r]
      BY <2>1, <3>1, <3>2
    <3> QED BY <3>3, <3>4
  <2>3. u[k].peer = s[k].peer /\ ~u[k].post /\ \A j \in Sock \ {k} : u[j] = s[j]
    BY <1>1, <2>1 DEF SockRec
  <2>4. tol' = 0 /\ SendThen(k, u, "return") /\ sock' = u /\ "return" \in Thens
    BY <1>6, <2>1 DEF Unsupported, SendThen, Thens
  <2>5. PICK e \in PendRec : e.then = "return" /\ pend' = Push(pend, e)
    BY <1>2, <2>2, <2>3, <2>4
  <2>6. pend' \in Seq(PendRec) /\ SamePrograms(pend, pend')
    BY <1>1, <2>5, Pushed
  <2>7. WebTypeOK' /\ OneSocket(sock)'
    <3>1. OneSocket(u)
      BY <2>3 DEF OneSocket
    <3> QED BY <2>2, <2>4, <2>6, <3>1 DEF WebTypeOK, OneSocket
  <2>8. \A j \in Sock : ~sock'[j].post
    BY <2>3, <2>4
  <2>9. Quiet'
    <3>1. CASE again'
      <4>1. Programs(pend') # {}
        BY <2>6, <3>1, WaitingIs DEF SamePrograms
      <4> QED BY <1>3, <3>1, <4>1, WaitingIs DEF Quiet
    <3>2. CASE ~again'
      <4>1. ~Waiting(pend) /\ e.then \notin {"program", "program odd"}
        BY <2>5, <3>2
      <4>2. ~Waiting(pend') /\ \A i \in DOMAIN pend' : pend'[i].then # "program"
        <5>1. /\ ~Waiting(Push(pend, e))
              /\ \A i \in DOMAIN Push(pend, e) : Push(pend, e)[i].then # "program"
          BY <1>1, <4>1, PushedProgram
        <5> QED BY <2>5, <5>1
      <4>3. Programs(pend') = {}
        BY <4>2, WaitingIs
      <4> QED BY <1>3, <1>4, <3>2, <4>2, <4>3 DEF Quiet
    <3> QED BY <3>1, <3>2
  <2> QED BY <2>7, <2>8, <2>9 DEF WebInv, Collected
<1>7. ASSUME NEW odd \in BOOLEAN, Upgrade(k, s, t, q, odd), q # <<>>, q[1] = MARK,
             ~odd => Verdict(Stream[b], Len(q), t) = "whole"
      PROVE  WebInv'
  <2>1. PICK u : u = [s EXCEPT ![k].post = FALSE]
    OBVIOUS
  <2>2. u \in [Sock -> SockRec]
    <3>1. PICK c \in SockRec : c = s[k]
      BY <1>1
    <3>2. PICK r : r = [c EXCEPT !.post = FALSE]
      OBVIOUS
    <3>3. r \in SockRec
      BY <3>2 DEF SockRec
    <3>4. u = [s EXCEPT ![k] = r]
      BY <2>1, <3>1, <3>2
    <3> QED BY <3>3, <3>4
  <2>3. u[k].peer = s[k].peer /\ ~u[k].post /\ \A j \in Sock \ {k} : u[j] = s[j]
    BY <1>1, <2>1 DEF SockRec
  <2>4. PICK then \in Thens : /\ then = IF odd THEN "program odd" ELSE "program"
                              /\ SendThen(k, u, then)
    BY <1>7, <2>1 DEF Upgrade, Thens
  <2>5. tol' = t /\ sock' = u
    BY <1>7, <2>1 DEF Upgrade, SendThen
  <2>6. PICK e \in PendRec : e.then = then /\ pend' = Push(pend, e)
    BY <1>2, <2>2, <2>3, <2>4
  <2>7. pend' \in Seq(PendRec) /\ Programs(pend') = Programs(pend) \cup {Len(pend) + 1}
    <3>1. e.then \in {"program", "program odd"}
      BY <2>4, <2>6
    <3>2. /\ Push(pend, e) \in Seq(PendRec)
          /\ Programs(Push(pend, e)) = Programs(pend) \cup {Len(pend) + 1}
      BY <1>1, <3>1, Pushed
    <3> QED BY <2>6, <3>2
  <2>8. WebTypeOK' /\ OneSocket(sock)'
    <3>1. OneSocket(u)
      BY <2>3 DEF OneSocket
    <3> QED BY <2>2, <2>5, <2>7, <3>1 DEF WebTypeOK, OneSocket
  <2>9. \A j \in Sock : ~sock'[j].post
    BY <2>3, <2>5
  <2>10. ~odd => buf' = File
    <3>1. SUFFICES ASSUME ~odd PROVE buf' = File
      OBVIOUS
    <3>2. buf' = SubSeq(q, 2, IF Len(q) < t THEN Len(q) ELSE t - 1)
      BY <1>7 DEF Upgrade
    <3> QED BY <1>7, <3>1, <3>2, WholeIsFile
  <2>11. Quiet'
    <3>1. Waiting(pend')
      BY <2>7, WaitingIs
    <3>2. CASE again'
      BY <1>3, <3>1, <3>2 DEF Quiet
    <3>3. CASE ~again'
      <4>1. ~Waiting(pend) /\ e.then \in {"program", "program odd"}
        BY <2>4, <2>6, <3>3
      <4>2. /\ \A i, j \in Programs(pend') : i = j
            /\ \A i \in DOMAIN pend' : pend'[i].then = "program" => e.then = "program"
        <5>1. /\ \A i, j \in Programs(Push(pend, e)) : i = j
              /\ \A i \in DOMAIN Push(pend, e) :
                   Push(pend, e)[i].then = "program" => e.then = "program"
          BY <1>1, <4>1, PushedProgram
        <5> QED BY <2>6, <5>1
      <4>3. e.then = "program" => buf' = File
        BY <2>4, <2>6, <2>10
      <4>4. File' = File
        BY DEF File
      <4> QED BY <1>3, <1>4, <2>9, <3>3, <4>2, <4>3, <4>4 DEF Quiet
    <3> QED BY <3>2, <3>3
  <2> QED BY <2>8, <2>9, <2>11 DEF WebInv, Collected
<1>8. CASE q = <<>> \/ q[1] # MARK
  BY <1>5, <1>8 DEF Judge
<1>9. CASE q # <<>> /\ q[1] = MARK
  <2>1. PICK v : v = Verdict(Stream[b], Len(q), t)
    OBVIOUS
  <2>2. v \in {"more", "whole", "unknown"}
    BY <2>1 DEF Verdict
  <2>3. CASE v = "more"
    BY <1>5, <1>9, <2>1, <2>3 DEF Judge
  <2>4. CASE v # "more"
    <3>1. Upgrade(k, s, t, q, v = "unknown") \/ Unsupported(k, s)
      BY <1>9, <2>1, <2>4 DEF Judge
    <3>2. CASE Unsupported(k, s)
      BY <1>6, <3>2
    <3>3. CASE Upgrade(k, s, t, q, v = "unknown")
      <4>1. PICK odd \in BOOLEAN : odd = (v = "unknown")
        OBVIOUS
      <4>2. Upgrade(k, s, t, q, odd)
        BY <3>3, <4>1
      <4>3. ~odd => Verdict(Stream[b], Len(q), t) = "whole"
        BY <2>1, <2>2, <2>4, <4>1
      <4> QED BY <1>7, <1>9, <4>2, <4>3
    <3> QED BY <3>1, <3>2, <3>3
  <2> QED BY <2>3, <2>4
<1> QED BY <1>8, <1>9

\* The socket of the upload after a segment that ends before piece n.
SockWith(k, r) == [sock EXCEPT ![k] = r]

LEMMA Marked ==
  ASSUME WebInv, OnePoster, NEW k \in Sock, sock[k].peer \in Poster,
         NEW r \in SockRec, r.peer = sock[k].peer
  PROVE  /\ SockWith(k, r) \in [Sock -> SockRec] /\ OneSocket(SockWith(k, r))
         /\ SockWith(k, r)[k] = r /\ \A j \in Sock \ {k} : ~SockWith(k, r)[j].post
<1>0. PICK s : s = [sock EXCEPT ![k] = r]
  OBVIOUS
<1>5. s = SockWith(k, r)
  BY <1>0 DEF SockWith
<1>1. sock \in [Sock -> SockRec] /\ OneSocket(sock)
  BY DEF WebInv, WebTypeOK
<1>2. s \in [Sock -> SockRec] /\ s[k] = r /\ \A j \in Sock \ {k} : s[j] = sock[j]
  BY <1>0, <1>1
<1>3. OneSocket(s)
  BY <1>1, <1>2 DEF OneSocket
<1>4. \A j \in Sock \ {k} : ~s[j].post
  BY <1>2, Alone
<1> QED BY <1>2, <1>3, <1>4, <1>5

LEMMA PostFirstWeb ==
  ASSUME WebInv, OnePoster, NEW k \in Sock, sock[k].peer \in Poster,
         sock[k].st = "ESTABLISHED", NEW a \in 1 .. Len(Stream), NEW b \in a .. Len(Stream),
         PostFirst(k, a, b)
  PROVE  WebInv'
<1>1. Len(Stream) \in Nat /\ b \in 1 .. Len(Stream) /\ a <= b + 1 /\ b + 1 \in Nat
  BY StreamIs
<1>2. PICK known \in BOOLEAN : known = (Has(Part(a, b), DECL) /\ Has(Part(a, b), LEN))
  OBVIOUS
<1>3. PICK c \in SockRec : c = sock[k]
  BY DEF WebInv, WebTypeOK
<1>4. PICK x : x = IF known THEN "cur" ELSE c.bnd
  OBVIOUS
<1>5. PICK r : r = [c EXCEPT !.post = TRUE, !.old = b + 1, !.bnd = x]
  OBVIOUS
<1>6. x \in {"no", "cur", "old"}
  BY <1>3, <1>4 DEF SockRec
<1>7. r \in SockRec
  BY <1>1, <1>5, <1>6 DEF SockRec
<1>8. r.peer = c.peer /\ r.st = c.st /\ r.post = TRUE /\ r.old = b + 1
  BY <1>5 DEF SockRec
<1>9. PICK s : s = [sock EXCEPT ![k] = r]
  OBVIOUS
<1>10. PICK t, q : t = (IF known THEN TolLen ELSE 0) /\ q = Cut(Part(a, b), known)
  OBVIOUS
<1>11. Judge(k, s, t, q, Stream[b]) /\ again' = (again \/ Waiting(pend))
  <2>1. s = [sock EXCEPT ![k].post = TRUE, ![k].old = b + 1,
                         ![k].bnd = IF known THEN "cur" ELSE @]
    <3>1. sock \in [Sock -> SockRec]
      BY DEF WebInv, WebTypeOK
    <3> QED BY <1>3, <1>4, <1>5, <1>9, <3>1 DEF SockRec
  <2> QED BY <1>2, <1>10, <2>1 DEF PostFirst, Part
<1>12. /\ s \in [Sock -> SockRec] /\ OneSocket(s) /\ s[k] = r
       /\ \A j \in Sock \ {k} : ~s[j].post
  <2>1. sock[k].peer \in Poster /\ r \in SockRec /\ r.peer = sock[k].peer
    BY <1>3, <1>7, <1>8
  <2>2. s = SockWith(k, r)
    BY <1>9 DEF SockWith
  <2> QED BY <2>1, <2>2, Marked
<1>13. PICK d \in 1 .. b + 1 : q = Part(d, b)
  <2>1. a \in Nat \ {0}
    OBVIOUS
  <2>2. PICK v : v = Part(a, b)
    OBVIOUS
  <2>3. \E d \in 1 .. b + 1 : Cut(v, known) = Part(d, b)
    BY <1>1, <2>1, <2>2, CutIs
  <2> QED BY <1>10, <2>2, <2>3
<1>14. d \in Nat \ {0} /\ d <= b + 1 /\ t \in {0, TolLen}
  BY <1>1, <1>10, <1>13
<1>15. again' \in BOOLEAN /\ (again' <=> Waiting(pend))
  BY <1>11 DEF WebInv, Quiet
<1>16. s[k].post /\ s[k].peer \in Poster /\ s[k].st # "LISTEN" /\ s[k].old = b + 1
  BY <1>3, <1>8, <1>12
<1> QED BY <1>1, <1>11, <1>12, <1>13, <1>14, <1>15, <1>16, JudgeWeb

LEMMA PostNextWeb ==
  ASSUME WebInv, OnePoster, NEW k \in Sock, sock[k].peer \in Poster,
         sock[k].st = "ESTABLISHED", NEW a \in 1 .. Len(Stream), NEW b \in a .. Len(Stream),
         PostNext(k, a, b)
  PROVE  WebInv'
<1>1. Len(Stream) \in Nat /\ b \in 1 .. Len(Stream) /\ a <= b + 1 /\ b + 1 \in Nat
  BY StreamIs
<1>2. PICK c \in SockRec : c = sock[k]
  BY DEF WebInv, WebTypeOK
<1>3. sock[k].post /\ a = sock[k].old /\ again' = again
  BY DEF PostNext
<1>4. PICK e \in 1 .. a : buf = Part(e, a - 1)
  BY <1>3 DEF WebInv, Collected, Run
<1>5. PICK p : p = buf \o Part(a, b)
  OBVIOUS
<1>6. e \in Nat \ {0} /\ e <= a /\ e <= b + 1 /\ p = Part(e, b)
  <2>1. e \in Nat \ {0} /\ e <= a /\ e <= b + 1
    BY <1>1, <1>4
  <2> QED BY <1>4, <1>5, <2>1, Continued
<1>7. PICK begun \in BOOLEAN :
        begun = (tol # 0 /\ sock[k].bnd = "cur" /\ buf # <<>> /\ buf[1] = MARK)
  OBVIOUS
<1>8. PICK t : t = IF tol = 0 /\ Has(p, LEN) THEN TolLen ELSE tol
  OBVIOUS
<1>9. PICK x : x = IF begun \/ t = 0 \/ c.bnd # "no" \/ ~Has(p, DECL) THEN c.bnd ELSE "cur"
  OBVIOUS
<1>10. PICK known \in BOOLEAN : known = (t # 0 /\ x = "cur")
  OBVIOUS
<1>11. PICK r : r = [c EXCEPT !.old = b + 1, !.bnd = x]
  OBVIOUS
<1>12. x \in {"no", "cur", "old"}
  BY <1>2, <1>9 DEF SockRec
<1>13. r \in SockRec
  BY <1>1, <1>11, <1>12 DEF SockRec
<1>14. r.peer = c.peer /\ r.st = c.st /\ r.post = c.post /\ r.old = b + 1
  BY <1>11 DEF SockRec
<1>15. PICK s : s = [sock EXCEPT ![k] = r]
  OBVIOUS
<1>16. PICK q : q = IF begun THEN p ELSE Cut(p, known)
  OBVIOUS
<1>17. Judge(k, s, t, q, Stream[b])
  <2>1. s = [sock EXCEPT ![k].old = b + 1, ![k].bnd = x]
    <3>1. sock \in [Sock -> SockRec]
      BY DEF WebInv, WebTypeOK
    <3> QED BY <1>2, <1>11, <1>15, <3>1 DEF SockRec
  <2> QED BY <1>2, <1>5, <1>7, <1>8, <1>9, <1>10, <1>16, <2>1 DEF PostNext, Part
<1>18. /\ s \in [Sock -> SockRec] /\ OneSocket(s) /\ s[k] = r
       /\ \A j \in Sock \ {k} : ~s[j].post
  <2>1. sock[k].peer \in Poster /\ r \in SockRec /\ r.peer = sock[k].peer
    BY <1>2, <1>13, <1>14
  <2>2. s = SockWith(k, r)
    BY <1>15 DEF SockWith
  <2> QED BY <2>1, <2>2, Marked
<1>19. PICK d \in 1 .. b + 1 : q = Part(d, b)
  <2>1. CASE begun
    <3>1. e \in 1 .. b + 1
      BY <1>1, <1>6
    <3> QED BY <1>6, <1>16, <2>1, <3>1
  <2>2. CASE ~begun
    <3>1. \E d \in 1 .. b + 1 : Cut(p, known) = Part(d, b)
      BY <1>1, <1>6, CutIs
    <3> QED BY <1>16, <2>2, <3>1
  <2> QED BY <2>1, <2>2
<1>20. d \in Nat \ {0} /\ d <= b + 1 /\ t \in {0, TolLen}
  BY <1>1, <1>8, <1>19 DEF WebInv, WebTypeOK
<1>21. again' \in BOOLEAN /\ (again' <=> Waiting(pend))
  BY <1>3, Alone DEF WebInv, WebTypeOK
<1>22. s[k].post /\ s[k].peer \in Poster /\ s[k].st # "LISTEN" /\ s[k].old = b + 1
  BY <1>2, <1>3, <1>14, <1>18
<1> QED BY <1>1, <1>17, <1>18, <1>19, <1>20, <1>21, <1>22, JudgeWeb

LEMMA EstablishedWeb ==
  ASSUME WebInv, OnePoster, NEW k \in Sock, NEW s, Based(s),
         s = sock \/ s[k].st = "LISTEN", NEW f, InEstablished(k, s, f)
  PROVE  WebInv'
<1>1. s[k].st = "ESTABLISHED" /\ s = sock
  BY DEF InEstablished
<1>2. CASE f = "FIN"
  <2>1. PICK u : u = [s EXCEPT ![k].st = "LAST_ACK"]
    OBVIOUS
  <2>2. Based(u)
    BY <2>1, StateBased
  <2>3. SendThen(k, u, "close if failed") /\ UNCHANGED http
    BY <1>2, <2>1 DEF InEstablished
  <2>4. "close if failed" \in Thens \ {"program", "program odd"}
    BY DEF Thens
  <2> QED BY <2>2, <2>3, <2>4, SendBased
<1>3. CASE f = "ACK"
  <2>1. PICK a \in DOMAIN Stream : \E b \in a .. Len(Stream) : Http(k, a, b)
    BY <1>3 DEF InEstablished
  <2>2. PICK b \in a .. Len(Stream) : Http(k, a, b)
    BY <2>1
  <2>3. a \in 1 .. Len(Stream)
    BY StreamIs
  <2>4. CASE sock[k].peer \in Poster
    <3>1. CASE PostFirst(k, a, b)
      BY <1>1, <2>3, <2>4, <3>1, PostFirstWeb
    <3>2. CASE PostNext(k, a, b)
      BY <1>1, <2>3, <2>4, <3>2, PostNextWeb
    <3>3. CASE PostStale(k, a, b) \/ PostNoMemory(k, a, b)
      <4>1. sock' = sock /\ pend' = pend /\ UNCHANGED http
        BY <3>3 DEF PostStale, PostNoMemory
      <4> QED BY <4>1, BasedSelf, Calm
    <3>4. CASE PostBad(k, a, b)
      <4>1. SendThen(k, sock, "return") /\ UNCHANGED http
        BY <3>4 DEF PostBad
      <4>2. "return" \in Thens \ {"program", "program odd"}
        BY DEF Thens
      <4> QED BY <4>1, <4>2, BasedSelf, SendBased
    <3> QED BY <2>2, <2>4, <3>1, <3>2, <3>3, <3>4 DEF Http
  <2>5. CASE sock[k].peer \notin Poster
    <3>1. GetPage(k)
      BY <2>2, <2>5 DEF Http
    <3>2. UNCHANGED http /\ (SendThen(k, sock, "return") \/ SendThen(k, sock, "reboot"))
      BY <3>1 DEF GetPage
    <3>3. {"return", "reboot"} \subseteq Thens \ {"program", "program odd"}
      BY DEF Thens
    <3> QED BY <3>2, <3>3, BasedSelf, SendBased
  <2> QED BY <2>4, <2>5
<1>4. CASE f \in {"SYN", "bare"} /\ UNCHANGED <<sock, pend, http>>
  <2>1. sock' = sock /\ pend' = pend /\ UNCHANGED http
    BY <1>4
  <2> QED BY <2>1, BasedSelf, Calm
<1> QED BY <1>2, <1>3, <1>4 DEF InEstablished

LEMMA TcpInputWeb ==
  ASSUME WebInv, OnePoster, TcpInput
  PROVE  WebInv'
<1>1. PICK p \in Peer, f \in {"SYN", "ACK", "FIN", "RST", "bare"} :
        /\ LookUp(p) # {}
        /\ LET k == First(LookUp(p))
               s == Opened(p, k)
           IN  IF f = "RST" /\ s[k].st # "SYN_RECVD" THEN InReset(k, s)
               ELSE \/ InListen(k, s, f)
                    \/ InSynRecvd(k, s, f)
                    \/ InEstablished(k, s, f)
                    \/ InClosing(k, s, f)
  BY DEF TcpInput
<1>2. PICK k : k = First(LookUp(p))
  OBVIOUS
<1>3. PICK s : s = Opened(p, k)
  OBVIOUS
<1>4. \/ InReset(k, s) \/ InListen(k, s, f) \/ InSynRecvd(k, s, f)
      \/ InEstablished(k, s, f) \/ InClosing(k, s, f)
  BY <1>1, <1>2, <1>3
<1>5. k \in Sock /\ Based(s) /\ (s = sock \/ s[k].st = "LISTEN")
  BY <1>1, <1>2, <1>3, OpenedBased
<1> QED BY <1>4, <1>5, ResetWeb, ListenWeb, SynRecvdWeb, EstablishedWeb, ClosingWeb

-----------------------------------------------------------------------------
(* What follows an answer                                                   *)

LEMMA EmptyRun ==
  ASSUME NEW q, NEW n \in Nat, Run(q, n)
  PROVE  Run(<<>>, n)
<1>1. PICK z \in Nat : z = Len(Stream) /\ n \in 1 .. z + 1
  BY StreamIs DEF Run
<1>2. PICK m \in Nat : m = n - 1 /\ m <= z /\ n <= m + 1 /\ m + 1 - n = 0
  BY <1>1
<1>3. n \in Nat \ {0} /\ n \in 1 .. n
  BY <1>1
<1>4. Part(n, m) \in Seq(Int) /\ Len(Part(n, m)) = 0
  BY <1>1, <1>2, <1>3, Piece
<1>5. Part(n, m) = <<>>
  BY <1>4, EmptySeq
<1> QED BY <1>1, <1>2, <1>3, <1>5 DEF Run

\* The innermost answer ends in programming: it was the only one, or again.
LEMMA ProgramWeb ==
  ASSUME WebInv, pend # <<>>, NEW k \in Sock, NEW rest, rest = SubSeq(pend, 1, Len(pend) - 1),
         pend[Len(pend)].then \in {"program", "program odd"}, pend' = rest,
         again' = (again /\ Waiting(rest)), tol' = 0, buf' = <<>>,
         sock' = [sock EXCEPT ![k].bnd = "no"]
  PROVE  WebInv'
<1>1. /\ sock \in [Sock -> SockRec] /\ OneSocket(sock) /\ pend \in Seq(PendRec)
      /\ again \in BOOLEAN
  BY DEF WebInv, WebTypeOK
<1>2. /\ rest \in Seq(PendRec) /\ DOMAIN rest = DOMAIN pend \ {Len(pend)}
      /\ \A i \in DOMAIN rest : rest[i] = pend[i]
      /\ Programs(rest) = Programs(pend) \ {Len(pend)} /\ Len(pend) \in DOMAIN pend
  <2>1. rest = Pop(pend)
    BY DEF Pop
  <2> QED BY <1>1, <2>1, Popped
<1>3. Len(pend) \in Programs(pend) /\ Waiting(pend)
  BY <1>2, WaitingIs DEF Programs
<1>4. PICK t : t = [sock EXCEPT ![k].bnd = "no"]
  OBVIOUS
<1>5. t \in [Sock -> SockRec]
  <2>1. PICK c \in SockRec : c = sock[k]
    BY <1>1
  <2>2. PICK r : r = [c EXCEPT !.bnd = "no"]
    OBVIOUS
  <2>3. r \in SockRec
    BY <2>2 DEF SockRec
  <2>4. t = [sock EXCEPT ![k] = r]
    BY <1>1, <1>4, <2>1, <2>2
  <2> QED BY <1>1, <2>3, <2>4
<1>6. \A j \in Sock : t[j].peer = sock[j].peer /\ t[j].post = sock[j].post
                      /\ t[j].old = sock[j].old /\ t[j].st = sock[j].st
  BY <1>1, <1>4 DEF SockRec
<1>7. WebTypeOK' /\ OneSocket(sock)'
  <2>1. OneSocket(t)
    <3>1. \A j \in Sock : t[j].peer = sock[j].peer
      BY <1>6
    <3> QED BY <1>1, <3>1 DEF OneSocket
  <2> QED BY <1>1, <1>2, <1>4, <1>5, <2>1 DEF WebTypeOK, OneSocket
<1>8. \A n \in Nat : Run(buf, n) => Run(<<>>, n)
  BY EmptyRun
<1>9. Collected'
  <2>1. \A j \in Sock : sock'[j].post =>
          sock'[j].peer \in Poster /\ sock'[j].st # "LISTEN" /\ Run(buf', sock'[j].old)
    <3>1. \A j \in Sock : sock[j].old \in Nat
      BY <1>1 DEF SockRec
    <3>2. \A j \in Sock : t[j].post =>
            t[j].peer \in Poster /\ t[j].st # "LISTEN" /\ Run(buf, t[j].old)
      BY <1>6 DEF WebInv, Collected
    <3>3. \A j \in Sock : t[j].post => Run(<<>>, t[j].old)
      BY <1>6, <1>8, <3>1, <3>2
    <3> QED BY <1>4, <3>2, <3>3
  <2>2. \A j \in Sock : Run(buf, sock[j].old)' <=> Run(buf', sock'[j].old)
    BY DEF Run, Part, Stream, File
  <2> QED BY <2>1, <2>2 DEF Collected
<1>10. Waiting(pend)' <=> Waiting(rest)
  BY DEF Waiting
<1>11. Programs(pend)' = Programs(rest)
  BY DEF Programs
<1>12. Quiet'
  <2>1. CASE again'
    BY <1>10, <2>1 DEF Quiet
  <2>2. CASE ~again'
    <3>1. Programs(rest) = {}
      <4>1. CASE again
        BY <2>2, <4>1, WaitingIs
      <4>2. CASE ~again
        BY <1>2, <1>3, <4>2 DEF WebInv, Quiet
      <4> QED BY <4>1, <4>2
    <3>2. ~Waiting(rest)
      BY <3>1, WaitingIs
    <3>3. \A i \in DOMAIN rest : rest[i].then # "program"
      BY <3>1 DEF Programs
    <3> QED BY <1>10, <1>11, <2>2, <3>1, <3>2, <3>3 DEF Quiet
  <2> QED BY <2>1, <2>2
<1> QED BY <1>7, <1>9, <1>12 DEF WebInv

\* A board that has just started.
LEMMA StartWeb ==
  ASSUME NEW s, s = [k \in Sock |-> FreeSock]
  PROVE  s \in [Sock -> SockRec] /\ OneSocket(s) /\ \A k \in Sock : ~s[k].post
BY FreeSockType, WebAssumption DEF OneSocket

LEMMA RebootWeb ==
  ASSUME WebInit'
  PROVE  WebInv'
<1>1. PICK s : s = [k \in Sock |-> FreeSock]
  OBVIOUS
<1>2. s \in [Sock -> SockRec] /\ OneSocket(s) /\ \A k \in Sock : ~s[k].post
  BY <1>1, StartWeb
<1>3. sock' = s /\ pend' = <<>> /\ tol' = 0 /\ again' = FALSE
  BY <1>1 DEF WebInit, FreeSock, Sock
<1>4. WebTypeOK' /\ OneSocket(sock)'
  <2>1. pend' \in Seq(PendRec)
    BY <1>3
  <2>2. OneSocket(sock)'
    BY <1>2, <1>3 DEF OneSocket
  <2> QED BY <1>2, <1>3, <2>1, <2>2 DEF WebTypeOK
<1>5. Collected'
  BY <1>2, <1>3 DEF Collected
<1>6. Quiet'
  BY <1>3 DEF Quiet, Waiting, Programs
<1> QED BY <1>4, <1>5, <1>6 DEF WebInv

LEMMA InitWeb ==
  ASSUME WebInit
  PROVE  WebInv
<1>1. sock \in [Sock -> SockRec] /\ OneSocket(sock) /\ \A k \in Sock : ~sock[k].post
  BY StartWeb DEF WebInit
<1>2. pend = <<>> /\ tol = 0 /\ again = FALSE
  BY DEF WebInit
<1>3. pend \in Seq(PendRec)
  BY <1>2
<1>4. Quiet
  BY <1>2 DEF Quiet, Waiting, Programs
<1> QED BY <1>1, <1>2, <1>3, <1>4 DEF WebInv, WebTypeOK, Collected

\* What follows the answer top on socket k, whether sent or not.
Branch(top, k, rest, sent) ==
  \/ /\ top.then = "return" /\ pend' = rest
     /\ UNCHANGED <<sock, arpKnown, http>>
  \/ /\ \/ top.then = "close"
        \/ ~sent /\ top.then \in {"synack", "refuse", "close if failed"}
     /\ sock' = Closed(sock, k) /\ pend' = rest
     /\ UNCHANGED <<arpKnown, http>>
  \/ /\ top.then = "close if failed" /\ sent /\ pend' = rest
     /\ UNCHANGED <<sock, arpKnown, http>>
  \/ /\ top.then = "synack" /\ sent /\ pend' = rest
     /\ sock' = [sock EXCEPT ![k].st = "SYN_RECVD"]
     /\ UNCHANGED <<arpKnown, http>>
  \/ /\ top.then = "refuse" /\ sent
     /\ sock' = [sock EXCEPT ![k].st = "LISTEN", ![k].post = FALSE]
     /\ pend' = Append(rest, [top EXCEPT !.then = "close", !.polls = FALSE])
     /\ UNCHANGED <<arpKnown, http>>
  \/ /\ top.then \in {"program", "program odd"} /\ pend' = rest
     /\ again' = (again /\ Waiting(rest))
     /\ tol' = 0 /\ buf' = <<>>
     /\ sock' = [sock EXCEPT ![k].bnd = "no"]
     /\ UNCHANGED arpKnown
  \/ /\ top.then = "reboot"
     /\ sock' = [j \in Sock |-> FreeSock] /\ arpKnown' = {}
     /\ pend' = <<>> /\ tol' = 0 /\ buf' = <<>> /\ again' = FALSE

LEMMA SendDoneIs ==
  ASSUME SendDone
  PROVE  \E sent \in BOOLEAN :
           Branch(pend[Len(pend)], pend[Len(pend)].sock, SubSeq(pend, 1, Len(pend) - 1), sent)
BY Zenon DEF SendDone, Branch

LEMMA SendDoneWeb ==
  ASSUME WebInv, SendDone
  PROVE  WebInv'
<1>1. PICK top, rest : top = pend[Len(pend)] /\ rest = SubSeq(pend, 1, Len(pend) - 1)
  OBVIOUS
<1>2. pend # <<>> /\ pend \in Seq(PendRec) /\ sock \in [Sock -> SockRec]
  BY DEF SendDone, WebInv, WebTypeOK
<1>3. /\ rest \in Seq(PendRec) /\ top \in PendRec
      /\ top.then \notin {"program", "program odd"} => SamePrograms(pend, rest)
  <2>1. rest = Pop(pend)
    BY <1>1 DEF Pop
  <2> QED BY <1>1, <1>2, <2>1, Popped
<1>4. PICK k \in Sock : k = top.sock
  BY <1>3 DEF PendRec
<1>5. \/ top.then \in {"return", "close if failed"} /\ pend' = rest /\ UNCHANGED <<sock, http>>
      \/ /\ top.then \in {"close", "synack", "refuse", "close if failed"}
         /\ sock' = Closed(sock, k) /\ pend' = rest /\ UNCHANGED http
      \/ /\ top.then = "synack" /\ pend' = rest
         /\ sock' = [sock EXCEPT ![k].st = "SYN_RECVD"] /\ UNCHANGED http
      \/ /\ top.then = "refuse"
         /\ sock' = [sock EXCEPT ![k].st = "LISTEN", ![k].post = FALSE]
         /\ pend' = Append(rest, [top EXCEPT !.then = "close", !.polls = FALSE])
         /\ UNCHANGED http
      \/ /\ top.then \in {"program", "program odd"} /\ pend' = rest
         /\ again' = (again /\ Waiting(rest)) /\ tol' = 0 /\ buf' = <<>>
         /\ sock' = [sock EXCEPT ![k].bnd = "no"]
      \/ WebInit'
  <2>1. PICK sent \in BOOLEAN : Branch(top, k, rest, sent)
    BY <1>1, <1>4, SendDoneIs
  <2>2. CASE sock' = [j \in Sock |-> FreeSock] /\ arpKnown' = {} /\ pend' = <<>>
             /\ tol' = 0 /\ buf' = <<>> /\ again' = FALSE
    BY <2>2 DEF WebInit, FreeSock, Sock
  <2> HIDE DEF WebInit
  <2> QED BY <2>1, <2>2 DEF Branch
<1>6. CASE top.then \in {"return", "close if failed"} /\ pend' = rest /\ UNCHANGED <<sock, http>>
  <2>1. sock' = sock /\ UNCHANGED http /\ SamePrograms(pend, rest)
    BY <1>3, <1>6
  <2> QED BY <1>3, <1>6, <2>1, BasedSelf, Calm
<1>7. CASE /\ top.then \in {"close", "synack", "refuse", "close if failed"}
           /\ sock' = Closed(sock, k) /\ pend' = rest /\ UNCHANGED http
  <2>1. Based(Closed(sock, k)) /\ SamePrograms(pend, rest)
    BY <1>3, <1>7, BasedSelf, ClosedBased
  <2> QED BY <1>3, <1>7, <2>1, Calm
<1>8. CASE /\ top.then = "synack" /\ pend' = rest
           /\ sock' = [sock EXCEPT ![k].st = "SYN_RECVD"] /\ UNCHANGED http
  <2>1. Based([sock EXCEPT ![k].st = "SYN_RECVD"]) /\ SamePrograms(pend, rest)
    BY <1>3, <1>8, BasedSelf, StateBased
  <2> QED BY <1>3, <1>8, <2>1, Calm
<1>9. CASE /\ top.then = "refuse"
           /\ sock' = [sock EXCEPT ![k].st = "LISTEN", ![k].post = FALSE]
           /\ pend' = Append(rest, [top EXCEPT !.then = "close", !.polls = FALSE])
           /\ UNCHANGED http
  <2>1. PICK t : t = [sock EXCEPT ![k].st = "LISTEN", ![k].post = FALSE]
    OBVIOUS
  <2>2. t \in [Sock -> SockRec]
    <3>1. PICK c \in SockRec : c = sock[k]
      BY <1>2
    <3>2. PICK r : r = [c EXCEPT !.st = "LISTEN", !.post = FALSE]
      OBVIOUS
    <3>3. r \in SockRec
      BY <3>2 DEF SockRec
    <3>4. t = [sock EXCEPT ![k] = r]
      BY <1>2, <2>1, <3>1, <3>2
    <3> QED BY <1>2, <3>3, <3>4
  <2>3. /\ t[k].peer = sock[k].peer /\ t[k].post = FALSE
        /\ \A j \in Sock \ {k} : t[j] = sock[j]
    BY <1>2, <2>1 DEF SockRec
  <2>4. Based(t)
    BY <2>2, <2>3, BasedSelf, SetOne
  <2>5. PICK e : e = [top EXCEPT !.then = "close", !.polls = FALSE]
    OBVIOUS
  <2>6. e \in PendRec /\ e.then = "close"
    BY <1>3, <2>5 DEF PendRec, Thens
  <2>7. pend' = Push(rest, e)
    BY <1>9, <2>5 DEF Push
  <2>8. pend' \in Seq(PendRec) /\ SamePrograms(rest, pend')
    BY <1>3, <2>6, <2>7, Pushed
  <2>9. SamePrograms(pend, pend')
    BY <1>3, <1>9, <2>8 DEF SamePrograms
  <2> QED BY <1>9, <2>1, <2>4, <2>8, <2>9, Calm
<1>10. CASE /\ top.then \in {"program", "program odd"} /\ pend' = rest
            /\ again' = (again /\ Waiting(rest)) /\ tol' = 0 /\ buf' = <<>>
            /\ sock' = [sock EXCEPT ![k].bnd = "no"]
  BY <1>1, <1>2, <1>10, ProgramWeb
<1>11. CASE WebInit'
  BY <1>11, RebootWeb
<1> QED BY <1>5, <1>6, <1>7, <1>8, <1>9, <1>10, <1>11

LEMMA NextWeb ==
  ASSUME WebInv, OnePoster, [WebNext]_webVars
  PROVE  WebInv'
<1>1. CASE TcpInput
  BY <1>1, TcpInputWeb
<1>2. CASE SendDone
  BY <1>2, SendDoneWeb
<1>3. CASE ArpAnswer \/ ArpFlush \/ UNCHANGED webVars
  <2>1. sock' = sock /\ pend' = pend /\ UNCHANGED http
    BY <1>3 DEF ArpAnswer, ArpFlush, webVars
  <2> QED BY <2>1, BasedSelf, Calm
<1> QED BY <1>1, <1>2, <1>3 DEF WebNext

\* What web_upgrade programs when the end of the upload was seen is the file
\* the browser sent: for any number of sockets, peers and pieces and any
\* nesting of answers that wait for ARP, as long as one peer uploads.
THEOREM UploadAlwaysFile ==
  ASSUME OnePoster
  PROVE  WebSpec => []UploadIsFile
<1>1. WebInit => WebInv
  BY InitWeb
<1>2. WebInv /\ [WebNext]_webVars => WebInv'
  BY NextWeb
<1>3. WebInv => UploadIsFile
  <2>1. SUFFICES ASSUME WebInv, pend # <<>>, pend[Len(pend)].then = "program", ~again
                 PROVE  buf = File
    BY DEF UploadIsFile
  <2>2. pend \in Seq(PendRec)
    BY <2>1 DEF WebInv, WebTypeOK
  <2>3. Len(pend) \in DOMAIN pend
    BY <2>1, <2>2, Popped
  <2> QED BY <2>1, <2>3 DEF WebInv, Quiet
<1> QED BY <1>1, <1>2, <1>3, PTL DEF WebSpec

-----------------------------------------------------------------------------
(* The registers of the PHYs                                                *)

Bits == {0, 1}
Clock == {0, 1, Z}

MiiCallRec == [op : {"none", "read", "write"}, phyad : Phy, regad : Word(AddrBits),
               data : Word(DataBits)]

MiiTypeOK ==
  /\ phyDrv \in {"lepus", "gmac", "emac"}
  /\ gpins \in Bus /\ (phyDrv = "emac" => gpins = "H")
  /\ miiCall \in MiiCallRec /\ bus \in Bus
  /\ todo \in Seq(Clock) /\ value \in Seq(Bits)
  /\ isOut \in [Bus -> BOOLEAN] /\ mdio \in [Bus -> Bits]
  /\ ones \in [Bus -> 0 .. PreLen] /\ heard \in [Bus -> Seq(Bits)]
  /\ reg \in [Phy -> [RegAd -> Word(DataBits)]]
  /\ asked \in [Phy -> [RegAd -> Word(DataBits)]]

\* The clocks of call c, one by one.
Spells(F, c) ==
  /\ F \in Seq(Clock)
  /\ \A i \in 1 .. PreLen : F[i] = 1
  /\ F[PreLen + 1] = 0 /\ F[PreLen + 2] = 1
  /\ F[PreLen + 3] = IF c.op = "read" THEN 1 ELSE 0
  /\ F[PreLen + 4] = IF c.op = "read" THEN 0 ELSE 1
  /\ \A i \in 1 .. AddrBits : F[PreLen + 4 + i] = c.phyad[i]
  /\ \A i \in 1 .. AddrBits : F[PreLen + 4 + AddrBits + i] = c.regad[i]
  /\ c.op = "read" =>
       /\ Len(F) = PreLen + FrameLen + 1
       /\ \A i \in 1 .. 1 + DataBits : F[PreLen + HeadLen + i] = Z
       /\ F[PreLen + FrameLen] = 0
  /\ c.op = "write" =>
       /\ Len(F) = PreLen + FrameLen + 2
       /\ F[PreLen + HeadLen + 1] = 1 /\ F[PreLen + HeadLen + 2] = 0
       /\ \A i \in 1 .. DataBits : F[PreLen + HeadLen + 2 + i] = c.data[i]
       /\ F[PreLen + FrameLen + 1] = 0
  /\ F[Len(F)] = 0

\* What is still to be clocked is F without its first n bits.
Rest(F, n) ==
  /\ n \in 0 .. Len(F) /\ Len(todo) = Len(F) - n
  /\ \A i \in 1 .. Len(todo) : todo[i] = F[n + i]

\* What the PHYs of the bus have made of the first n bits.
HeardOK(F, n, h, o) ==
  /\ n <= PreLen => h = <<>> /\ o = n
  /\ n > PreLen => o = 0
  /\ n > PreLen /\ n < PreLen + FrameLen =>
       /\ Len(h) = n - PreLen
       /\ \A i \in 1 .. n - PreLen : F[PreLen + i] # Z => h[i] = F[PreLen + i]
  /\ n >= PreLen + FrameLen => h = <<>>

\* What mii_read has sampled after n bits: V, when the registers are R.
HasRead(n, V, R, c) ==
  /\ n <= PreLen + HeadLen => Len(V) = 0
  /\ n > PreLen + HeadLen /\ n <= PreLen + HeadLen + 1 + DataBits
       => Len(V) = n - (PreLen + HeadLen)
  /\ n > PreLen + HeadLen + 1 + DataBits => Len(V) = 1 + DataBits
  /\ \A i \in 1 .. Len(V) - 1 : V[1 + i] = R[c.phyad][c.regad][i]

ReadOK(n) == miiCall.op = "read" /\ phyDrv # "emac" => HasRead(n, value, reg, miiCall)

Written(n) ==
  reg = IF miiCall.op = "write" /\ n >= PreLen + FrameLen
        THEN [asked EXCEPT ![miiCall.phyad][miiCall.regad] = miiCall.data] ELSE asked

Silent(b) == heard[b] = <<>> /\ ones[b] = 0

Clocking(F, n) ==
  /\ Spells(F, miiCall) /\ Rest(F, n)
  /\ HeardOK(F, n, heard[bus], ones[bus])
  /\ \A b \in Bus : b # bus => Silent(b)
  /\ bus = WiredTo(miiCall.phyad) /\ miiCall.regad \in RegAd
  /\ ReadOK(n) /\ Written(n)

MiiInv ==
  /\ MiiTypeOK
  /\ miiCall.op = "none" => reg = asked /\ todo = <<>> /\ \A b \in Bus : Silent(b)
  /\ miiCall.op # "none" => \E F, n : Clocking(F, n)

LEMMA MiiConst ==
  /\ PreLen \in Nat \ {0} /\ AddrBits \in Nat \ {0} /\ DataBits \in Nat \ {0}
  /\ Phy \subseteq Word(AddrBits) /\ RegAd \subseteq Word(AddrBits) /\ GPhy \in Phy
  /\ HeadLen = 4 + AddrBits + AddrBits /\ FrameLen = HeadLen + 2 + DataBits
  /\ HeadLen \in Nat /\ FrameLen \in Nat
  BY MiiAssumption DEF HeadLen, FrameLen

LEMMA WordSeq ==
  ASSUME NEW n \in Nat, NEW w \in Word(n)
  PROVE  w \in Seq(Clock) /\ w \in Seq(Bits) /\ Len(w) = n /\ \A i \in 1 .. n : w[i] \in Bits
  BY DEF Word, Bits, Clock

Cat(s, t) == s \o t

Joins(u, s, t, m, n) ==
  /\ u \in Seq(Clock) /\ Len(u) = m + n
  /\ \A i \in 1 .. m : u[i] = s[i]
  /\ \A i \in 1 .. n : u[m + i] = t[i]

Long(s, m) == s \in Seq(Clock) /\ m \in Nat /\ Len(s) = m

LEMMA JoinIs ==
  ASSUME NEW s, NEW t, NEW m, NEW n, Long(s, m), Long(t, n), NEW u, u = Cat(s, t)
  PROVE  Joins(u, s, t, m, n)
<1>0. /\ s \in Seq(Clock) /\ t \in Seq(Clock) /\ m \in Nat /\ n \in Nat
      /\ Len(s) = m /\ Len(t) = n
  BY DEF Long
<1>1. /\ u \in Seq(Clock) /\ Len(u) = m + n
      /\ \A i \in 1 .. m + n : u[i] = IF i <= m THEN s[i] ELSE t[i - m]
  <2>1. /\ s \o t \in Seq(Clock) /\ Len(s \o t) = Len(s) + Len(t)
        /\ \A i \in 1 .. Len(s) + Len(t) :
             (s \o t)[i] = IF i <= Len(s) THEN s[i] ELSE t[i - Len(s)]
    BY <1>0, ConcatProperties
  <2> QED BY <1>0, <2>1 DEF Cat
<1>2. \A i \in 1 .. m : u[i] = s[i]
  BY <1>0, <1>1
<1>3. ASSUME NEW i \in 1 .. n PROVE u[m + i] = t[i]
  <2>1. PICK k : k = m + i
    OBVIOUS
  <2>2. k \in 1 .. m + n /\ ~(k <= m) /\ k - m = i
    BY <1>0, <2>1
  <2>3. u[k] = t[k - m]
    BY <1>1, <2>2
  <2> QED BY <2>1, <2>2, <2>3
<1> QED BY <1>1, <1>2, <1>3 DEF Joins

LEMMA PairSeq ==
  ASSUME NEW a \in Clock, NEW b \in Clock
  PROVE  /\ <<a, b>> \in Seq(Clock) /\ Len(<<a, b>>) = 2
         /\ <<a, b>>[1] = a /\ <<a, b>>[2] = b
  BY DEF Clock, Z

\* Preamble, start, operation and addresses.
HeadSpelt(F, c, x, y) ==
  /\ F \in Seq(Clock) /\ Len(F) = PreLen + HeadLen
  /\ \A i \in 1 .. PreLen : F[i] = 1
  /\ F[PreLen + 1] = 0 /\ F[PreLen + 2] = 1 /\ F[PreLen + 3] = x /\ F[PreLen + 4] = y
  /\ \A i \in 1 .. AddrBits : F[PreLen + 4 + i] = c.phyad[i]
  /\ \A i \in 1 .. AddrBits : F[PreLen + 4 + AddrBits + i] = c.regad[i]

LEMMA HeadOfFrame ==
  ASSUME NEW c \in MiiCallRec, NEW x \in Bits, NEW y \in Bits
  PROVE  HeadSpelt(PreSt \o <<x, y>> \o c.phyad \o c.regad, c, x, y)
<1>0. /\ PreLen \in Nat /\ AddrBits \in Nat /\ HeadLen = 4 + AddrBits + AddrBits
      /\ c.phyad \in Word(AddrBits) /\ c.regad \in Word(AddrBits)
  BY MiiConst DEF MiiCallRec
<1>1. PICK p, r : p = c.phyad /\ r = c.regad
  OBVIOUS
<1>2. /\ p \in Seq(Clock) /\ Len(p) = AddrBits
      /\ r \in Seq(Clock) /\ Len(r) = AddrBits
  BY <1>0, <1>1, WordSeq
<1>3. PICK a, b, d : a = [i \in 1 .. PreLen |-> 1] /\ b = <<0, 1>> /\ d = <<x, y>>
  OBVIOUS
<1>0a. 0 \in Clock /\ 1 \in Clock /\ x \in Clock /\ y \in Clock /\ Z \in Clock
  BY DEF Clock, Bits
<1>4. /\ a \in Seq(Clock) /\ Len(a) = PreLen /\ \A i \in 1 .. PreLen : a[i] = 1
      /\ b \in Seq(Clock) /\ Len(b) = 2 /\ b[1] = 0 /\ b[2] = 1
      /\ d \in Seq(Clock) /\ Len(d) = 2 /\ d[1] = x /\ d[2] = y
  BY <1>0, <1>0a, <1>3, PairSeq
<1>5. PICK s1 : s1 = Cat(a, b)
  OBVIOUS
<1>6. /\ s1 \in Seq(Clock) /\ Len(s1) = PreLen + 2
      /\ \A i \in 1 .. PreLen : s1[i] = a[i]
      /\ \A i \in 1 .. 2 : s1[PreLen + i] = b[i]
  <2>1. Long(a, PreLen) /\ Long(b, 2)
    BY <1>0, <1>4 DEF Long
  <2>2. Joins(s1, a, b, PreLen, 2)
    BY <1>5, <2>1, JoinIs
  <2> QED BY <2>2 DEF Joins
<1>7. PICK s2 : s2 = Cat(s1, d)
  OBVIOUS
<1>8. /\ s2 \in Seq(Clock) /\ Len(s2) = PreLen + 2 + 2
      /\ \A i \in 1 .. PreLen + 2 : s2[i] = s1[i]
      /\ \A i \in 1 .. 2 : s2[PreLen + 2 + i] = d[i]
  <2>1. Long(s1, PreLen + 2) /\ Long(d, 2)
    BY <1>0, <1>4, <1>6 DEF Long
  <2>2. Joins(s2, s1, d, PreLen + 2, 2)
    BY <1>7, <2>1, JoinIs
  <2> QED BY <2>2 DEF Joins
<1>9. PICK s3 : s3 = Cat(s2, p)
  OBVIOUS
<1>10. /\ s3 \in Seq(Clock) /\ Len(s3) = PreLen + 4 + AddrBits
       /\ \A i \in 1 .. PreLen + 4 : s3[i] = s2[i]
       /\ \A i \in 1 .. AddrBits : s3[PreLen + 4 + i] = p[i]
  <2>1. Long(s2, PreLen + 4) /\ Long(p, AddrBits)
    BY <1>0, <1>2, <1>8 DEF Long
  <2>2. Joins(s3, s2, p, PreLen + 4, AddrBits)
    BY <1>9, <2>1, JoinIs
  <2> QED BY <2>2 DEF Joins
<1>11. PICK s4 : s4 = Cat(s3, r)
  OBVIOUS
<1>12. /\ s4 \in Seq(Clock) /\ Len(s4) = PreLen + HeadLen
       /\ \A i \in 1 .. PreLen + 4 + AddrBits : s4[i] = s3[i]
       /\ \A i \in 1 .. AddrBits : s4[PreLen + 4 + AddrBits + i] = r[i]
  <2>1. PreLen + 4 + AddrBits \in Nat /\ AddrBits \in Nat
    BY <1>0
  <2>2. /\ s4 \in Seq(Clock) /\ Len(s4) = PreLen + 4 + AddrBits + AddrBits
        /\ \A i \in 1 .. PreLen + 4 + AddrBits : s4[i] = s3[i]
        /\ \A i \in 1 .. AddrBits : s4[PreLen + 4 + AddrBits + i] = r[i]
    <3>1. Long(s3, PreLen + 4 + AddrBits) /\ Long(r, AddrBits)
      BY <1>2, <1>10, <2>1 DEF Long
    <3>2. Joins(s4, s3, r, PreLen + 4 + AddrBits, AddrBits)
      BY <1>11, <3>1, JoinIs
    <3> QED BY <3>2 DEF Joins
  <2> QED BY <1>0, <2>2
<1>13. /\ \A i \in 1 .. PreLen : s4[i] = 1
       /\ s4[PreLen + 1] = 0 /\ s4[PreLen + 2] = 1 /\ s4[PreLen + 3] = x /\ s4[PreLen + 4] = y
  <2>1. \A i \in 1 .. PreLen + 2 : s4[i] = s1[i]
    BY <1>0, <1>8, <1>10, <1>12
  <2>2. \A i \in 1 .. PreLen : s4[i] = a[i]
    BY <1>0, <1>6, <2>1
  <2>3. s1[PreLen + 1] = 0 /\ s1[PreLen + 2] = 1
    BY <1>4, <1>6
  <2>4. s4[PreLen + 1] = 0 /\ s4[PreLen + 2] = 1
    BY <1>0, <2>1, <2>3
  <2>5. s2[PreLen + 2 + 1] = x /\ s2[PreLen + 2 + 2] = y
    BY <1>4, <1>8
  <2>6. s4[PreLen + 3] = x /\ s4[PreLen + 4] = y
    BY <1>0, <1>10, <1>12, <2>5
  <2> QED BY <1>4, <2>2, <2>4, <2>6
<1>14. ASSUME NEW i \in 1 .. AddrBits PROVE s4[PreLen + 4 + i] = p[i]
  <2>1. PreLen + 4 + i \in 1 .. PreLen + 4 + AddrBits
    BY <1>0
  <2> QED BY <1>10, <1>12, <2>1
<1>15. s4 = PreSt \o <<x, y>> \o c.phyad \o c.regad
  BY <1>1, <1>3, <1>5, <1>7, <1>9, <1>11 DEF PreSt, Cat
<1>16. HeadSpelt(s4, c, x, y)
  BY <1>1, <1>12, <1>13, <1>14 DEF HeadSpelt
<1> QED BY <1>15, <1>16

LEMMA SameHead ==
  ASSUME NEW F, NEW h, NEW c, NEW x, NEW y, HeadSpelt(h, c, x, y),
         \A i \in 1 .. PreLen + HeadLen : F[i] = h[i]
  PROVE  /\ \A i \in 1 .. PreLen : F[i] = 1
         /\ F[PreLen + 1] = 0 /\ F[PreLen + 2] = 1 /\ F[PreLen + 3] = x /\ F[PreLen + 4] = y
         /\ \A i \in 1 .. AddrBits : F[PreLen + 4 + i] = c.phyad[i]
         /\ \A i \in 1 .. AddrBits : F[PreLen + 4 + AddrBits + i] = c.regad[i]
<1>0. /\ PreLen \in Nat \ {0} /\ AddrBits \in Nat \ {0} /\ HeadLen = 4 + AddrBits + AddrBits
  BY MiiConst
<1>1. \A i \in 1 .. PreLen : F[i] = 1
  BY <1>0 DEF HeadSpelt
<1>2. F[PreLen + 1] = 0 /\ F[PreLen + 2] = 1 /\ F[PreLen + 3] = x /\ F[PreLen + 4] = y
  BY <1>0 DEF HeadSpelt
<1>3. ASSUME NEW i \in 1 .. AddrBits
      PROVE  F[PreLen + 4 + i] = c.phyad[i] /\ F[PreLen + 4 + AddrBits + i] = c.regad[i]
  <2>1. PreLen + 4 + i \in 1 .. PreLen + HeadLen /\ PreLen + 4 + AddrBits + i \in 1 .. PreLen + HeadLen
    BY <1>0
  <2>2. h[PreLen + 4 + i] = c.phyad[i] /\ h[PreLen + 4 + AddrBits + i] = c.regad[i]
    BY DEF HeadSpelt
  <2> QED BY <2>1, <2>2
<1> QED BY <1>1, <1>2, <1>3

LEMMA ReadSpells ==
  ASSUME NEW c \in MiiCallRec, c.op = "read"
  PROVE  Spells(ReadFrame(c.phyad, c.regad), c)
<1>0. /\ PreLen \in Nat /\ HeadLen \in Nat /\ DataBits \in Nat /\ AddrBits \in Nat
      /\ HeadLen = 4 + AddrBits + AddrBits /\ FrameLen = HeadLen + 2 + DataBits
  BY MiiConst
<1>1. PICK h : h = PreSt \o <<1, 0>> \o c.phyad \o c.regad
  OBVIOUS
<1>2. HeadSpelt(h, c, 1, 0)
  BY <1>1, HeadOfFrame DEF Bits
<1>3. PICK z, d : z = [i \in 1 .. 1 + DataBits |-> Z] /\ d = <<0, 0>>
  OBVIOUS
<1>4. /\ z \in Seq(Clock) /\ Len(z) = 1 + DataBits /\ \A i \in 1 .. 1 + DataBits : z[i] = Z
      /\ d \in Seq(Clock) /\ Len(d) = 2 /\ d[1] = 0 /\ d[2] = 0
  BY <1>0, <1>3, PairSeq DEF Clock
<1>5. h \in Seq(Clock) /\ Len(h) = PreLen + HeadLen
  BY <1>2 DEF HeadSpelt
<1>6. PICK s : s = Cat(h, z)
  OBVIOUS
<1>7. /\ s \in Seq(Clock) /\ Len(s) = PreLen + HeadLen + 1 + DataBits
      /\ \A i \in 1 .. PreLen + HeadLen : s[i] = h[i]
      /\ \A i \in 1 .. 1 + DataBits : s[PreLen + HeadLen + i] = Z
  <2>1. PreLen + HeadLen \in Nat /\ 1 + DataBits \in Nat
    BY <1>0
  <2>2. /\ s \in Seq(Clock) /\ Len(s) = PreLen + HeadLen + (1 + DataBits)
        /\ \A i \in 1 .. PreLen + HeadLen : s[i] = h[i]
        /\ \A i \in 1 .. 1 + DataBits : s[PreLen + HeadLen + i] = z[i]
    <3>1. Long(h, PreLen + HeadLen) /\ Long(z, 1 + DataBits)
      BY <1>4, <1>5, <2>1 DEF Long
    <3>2. Joins(s, h, z, PreLen + HeadLen, 1 + DataBits)
      BY <1>6, <3>1, JoinIs
    <3> QED BY <3>2 DEF Joins
  <2>3. Len(s) = PreLen + HeadLen + 1 + DataBits
    BY <1>0, <2>2
  <2> QED BY <1>4, <2>2, <2>3
<1>8. PICK F : F = Cat(s, d)
  OBVIOUS
<1>9. /\ F \in Seq(Clock) /\ Len(F) = PreLen + HeadLen + 1 + DataBits + 2
      /\ \A i \in 1 .. PreLen + HeadLen + 1 + DataBits : F[i] = s[i]
      /\ \A i \in 1 .. 2 : F[PreLen + HeadLen + 1 + DataBits + i] = d[i]
  <2>1. Long(s, PreLen + HeadLen + 1 + DataBits) /\ Long(d, 2)
    BY <1>0, <1>4, <1>7 DEF Long
  <2>2. Joins(F, s, d, PreLen + HeadLen + 1 + DataBits, 2)
    BY <1>8, <2>1, JoinIs
  <2> QED BY <2>2 DEF Joins
<1>10. F = ReadFrame(c.phyad, c.regad)
  BY <1>1, <1>3, <1>6, <1>8 DEF ReadFrame, Dummy, Cat
<1>11. /\ \A i \in 1 .. PreLen + HeadLen : F[i] = h[i]
       /\ \A i \in 1 .. 1 + DataBits : F[PreLen + HeadLen + i] = Z
  <2>1. \A i \in 1 .. PreLen + HeadLen : F[i] = h[i]
    BY <1>0, <1>7, <1>9
  <2>2. ASSUME NEW i \in 1 .. 1 + DataBits PROVE F[PreLen + HeadLen + i] = Z
    <3>1. PreLen + HeadLen + i \in 1 .. PreLen + HeadLen + 1 + DataBits
      BY <1>0
    <3> QED BY <1>7, <1>9, <3>1
  <2> QED BY <2>1, <2>2
<1>12. /\ Len(F) = PreLen + FrameLen + 1 /\ F[PreLen + FrameLen] = 0 /\ F[Len(F)] = 0
  <2>1. F[PreLen + HeadLen + 1 + DataBits + 1] = 0 /\ F[PreLen + HeadLen + 1 + DataBits + 2] = 0
    BY <1>4, <1>9
  <2> QED BY <1>0, <1>9, <2>1
<1>13. /\ \A i \in 1 .. PreLen : F[i] = 1
       /\ F[PreLen + 1] = 0 /\ F[PreLen + 2] = 1 /\ F[PreLen + 3] = 1 /\ F[PreLen + 4] = 0
       /\ \A i \in 1 .. AddrBits : F[PreLen + 4 + i] = c.phyad[i]
       /\ \A i \in 1 .. AddrBits : F[PreLen + 4 + AddrBits + i] = c.regad[i]
  BY <1>2, <1>11, SameHead
<1>14. Spells(F, c)
  BY <1>9, <1>11, <1>12, <1>13 DEF Spells
<1> QED BY <1>10, <1>14

LEMMA WriteSpells ==
  ASSUME NEW c \in MiiCallRec, c.op = "write"
  PROVE  Spells(WriteFrame(c.phyad, c.regad, c.data), c)
<1>0. /\ PreLen \in Nat /\ HeadLen \in Nat /\ DataBits \in Nat /\ AddrBits \in Nat
      /\ HeadLen = 4 + AddrBits + AddrBits /\ FrameLen = HeadLen + 2 + DataBits
      /\ c.data \in Word(DataBits)
  BY MiiConst DEF MiiCallRec
<1>1. PICK h, w : h = PreSt \o <<0, 1>> \o c.phyad \o c.regad /\ w = c.data
  OBVIOUS
<1>2. HeadSpelt(h, c, 0, 1)
  BY <1>1, HeadOfFrame DEF Bits
<1>3. PICK t, d : t = <<1, 0>> /\ d = <<0, 0>>
  OBVIOUS
<1>4. /\ t \in Seq(Clock) /\ Len(t) = 2 /\ t[1] = 1 /\ t[2] = 0
      /\ d \in Seq(Clock) /\ Len(d) = 2 /\ d[1] = 0 /\ d[2] = 0
      /\ w \in Seq(Clock) /\ Len(w) = DataBits
  BY <1>0, <1>1, <1>3, PairSeq, WordSeq DEF Clock
<1>5. h \in Seq(Clock) /\ Len(h) = PreLen + HeadLen
  BY <1>2 DEF HeadSpelt
<1>6. PICK s : s = Cat(h, t)
  OBVIOUS
<1>7. /\ s \in Seq(Clock) /\ Len(s) = PreLen + HeadLen + 2
      /\ \A i \in 1 .. PreLen + HeadLen : s[i] = h[i]
      /\ \A i \in 1 .. 2 : s[PreLen + HeadLen + i] = t[i]
  <2>1. Long(h, PreLen + HeadLen) /\ Long(t, 2)
    BY <1>0, <1>4, <1>5 DEF Long
  <2>2. Joins(s, h, t, PreLen + HeadLen, 2)
    BY <1>6, <2>1, JoinIs
  <2> QED BY <2>2 DEF Joins
<1>8. PICK u : u = Cat(s, w)
  OBVIOUS
<1>9. /\ u \in Seq(Clock) /\ Len(u) = PreLen + HeadLen + 2 + DataBits
      /\ \A i \in 1 .. PreLen + HeadLen + 2 : u[i] = s[i]
      /\ \A i \in 1 .. DataBits : u[PreLen + HeadLen + 2 + i] = w[i]
  <2>1. Long(s, PreLen + HeadLen + 2) /\ Long(w, DataBits)
    BY <1>0, <1>4, <1>7 DEF Long
  <2>2. Joins(u, s, w, PreLen + HeadLen + 2, DataBits)
    BY <1>8, <2>1, JoinIs
  <2> QED BY <2>2 DEF Joins
<1>10. PICK F : F = Cat(u, d)
  OBVIOUS
<1>11. /\ F \in Seq(Clock) /\ Len(F) = PreLen + FrameLen + 2
       /\ \A i \in 1 .. PreLen + FrameLen : F[i] = u[i]
       /\ F[PreLen + FrameLen + 1] = 0 /\ F[PreLen + FrameLen + 2] = 0
  <2>1. PreLen + FrameLen \in Nat /\ 2 \in Nat /\ Len(u) = PreLen + FrameLen
    BY <1>0, <1>9
  <2>2. /\ F \in Seq(Clock) /\ Len(F) = PreLen + FrameLen + 2
        /\ \A i \in 1 .. PreLen + FrameLen : F[i] = u[i]
        /\ \A i \in 1 .. 2 : F[PreLen + FrameLen + i] = d[i]
    <3>1. Long(u, PreLen + FrameLen) /\ Long(d, 2)
      BY <1>4, <1>9, <2>1 DEF Long
    <3>2. Joins(F, u, d, PreLen + FrameLen, 2)
      BY <1>10, <3>1, JoinIs
    <3> QED BY <3>2 DEF Joins
  <2> QED BY <1>4, <2>2
<1>12. F = WriteFrame(c.phyad, c.regad, c.data)
  BY <1>1, <1>3, <1>6, <1>8, <1>10 DEF WriteFrame, Dummy, Cat
<1>13. \A i \in 1 .. PreLen + HeadLen + 2 : F[i] = s[i]
  BY <1>0, <1>9, <1>11
<1>14. /\ \A i \in 1 .. PreLen + HeadLen : F[i] = h[i]
       /\ F[PreLen + HeadLen + 1] = 1 /\ F[PreLen + HeadLen + 2] = 0
  <2>1. s[PreLen + HeadLen + 1] = 1 /\ s[PreLen + HeadLen + 2] = 0
    BY <1>4, <1>7
  <2> QED BY <1>0, <1>7, <1>13, <2>1
<1>15. ASSUME NEW i \in 1 .. DataBits PROVE F[PreLen + HeadLen + 2 + i] = c.data[i]
  <2>1. PreLen + HeadLen + 2 + i \in 1 .. PreLen + FrameLen
    BY <1>0
  <2> QED BY <1>1, <1>9, <1>11, <2>1
<1>16. /\ \A i \in 1 .. PreLen : F[i] = 1
       /\ F[PreLen + 1] = 0 /\ F[PreLen + 2] = 1 /\ F[PreLen + 3] = 0 /\ F[PreLen + 4] = 1
       /\ \A i \in 1 .. AddrBits : F[PreLen + 4 + i] = c.phyad[i]
       /\ \A i \in 1 .. AddrBits : F[PreLen + 4 + AddrBits + i] = c.regad[i]
  BY <1>2, <1>14, SameHead
<1>17. Spells(F, c)
  BY <1>11, <1>14, <1>15, <1>16 DEF Spells
<1> QED BY <1>12, <1>17

\* A field of a frame.
FieldAt(f, m, k, w) ==
  /\ m \in Nat /\ k \in Nat /\ m >= 1 /\ w \in Word(k) /\ m + k - 1 <= Len(f)
  /\ \A i \in 1 .. k : f[m - 1 + i] = w[i]

LEMMA FieldOf ==
  ASSUME NEW f \in Seq(Bits), NEW m, NEW k, NEW w, FieldAt(f, m, k, w), NEW l, l = m + k - 1
  PROVE  SubSeq(f, m, l) = w
<1>0. /\ m \in Nat /\ k \in Nat /\ m >= 1 /\ w \in Word(k) /\ l \in Int /\ l <= Len(f)
      /\ \A i \in 1 .. k : f[m - 1 + i] = w[i]
  BY DEF FieldAt
<1>1. PICK u : u = SubSeq(f, m, l)
  OBVIOUS
<1>2. \A i \in m .. l : f[i] \in Bits
  <2>1. \A i \in 1 .. Len(f) : f[i] \in Bits
    OBVIOUS
  <2> QED BY <1>0, <2>1
<1>3. u \in Seq(Bits) /\ Len(u) = IF m <= l THEN l - m + 1 ELSE 0
  BY <1>0, <1>1, <1>2, SubSeqProperties
<1>4. \A i \in 1 .. l - m + 1 : u[i] = f[m + i - 1]
  BY <1>0, <1>1, <1>2, SubSeqProperties
<1>5. Len(u) = k /\ l - m + 1 = k
  BY <1>0, <1>3
<1>6. ASSUME NEW i \in 1 .. k PROVE u[i] = w[i]
  <2>1. u[i] = f[m + i - 1] /\ m + i - 1 = m - 1 + i
    BY <1>0, <1>4, <1>5
  <2> QED BY <1>0, <2>1
<1>7. w \in Seq(Bits) /\ Len(w) = k
  BY <1>0, WordSeq
<1>8. u = w
  BY <1>3, <1>5, <1>6, <1>7, SeqEqual
<1> QED BY <1>1, <1>8

\* Two bits, read as a field.
LEMMA FieldOfTwo ==
  ASSUME NEW f \in Seq(Bits), NEW x \in Bits, NEW y \in Bits, Len(f) >= 4, f[3] = x, f[4] = y
  PROVE  SubSeq(f, 3, 4) = <<x, y>>
<1>1. PICK w : w = <<x, y>>
  OBVIOUS
<1>2. w \in Word(2) /\ w[1] = x /\ w[2] = y
  BY <1>1 DEF Word, Bits
<1>3. \A i \in 1 .. 2 : f[3 - 1 + i] = w[i]
  <2>1. \A i \in 1 .. 2 : i = 1 \/ i = 2
    OBVIOUS
  <2> QED BY <1>2, <2>1
<1>4. PICK m, k, l : m = 3 /\ k = 2 /\ l = 4
  OBVIOUS
<1>5. FieldAt(f, m, k, w) /\ l = m + k - 1
  BY <1>2, <1>3, <1>4 DEF FieldAt
<1>6. SubSeq(f, m, l) = w
  BY <1>5, FieldOf
<1> QED BY <1>1, <1>4, <1>6

\* What the PHYs take a frame for.
LEMMA HeadIs ==
  ASSUME NEW F, NEW c \in MiiCallRec, Spells(F, c), c.op \in {"read", "write"},
         NEW f \in Seq(Bits), Len(f) >= HeadLen, \A i \in 1 .. HeadLen : f[i] = F[PreLen + i]
  PROVE  /\ OpOf(f) = IF c.op = "read" THEN <<1, 0>> ELSE <<0, 1>>
         /\ PhyAdOf(f) = c.phyad /\ RegAdOf(f) = c.regad
<1>0. /\ AddrBits \in Nat \ {0} /\ PreLen \in Nat /\ HeadLen = 4 + AddrBits + AddrBits
      /\ c.phyad \in Word(AddrBits) /\ c.regad \in Word(AddrBits)
  BY MiiConst DEF MiiCallRec
<1>1. OpOf(f) = IF c.op = "read" THEN <<1, 0>> ELSE <<0, 1>>
  <2>1. f[3] = F[PreLen + 3] /\ f[4] = F[PreLen + 4] /\ Len(f) >= 4
    BY <1>0
  <2>2. CASE c.op = "read"
    <3>1. f[3] = 1 /\ f[4] = 0 /\ 0 \in Bits /\ 1 \in Bits
      BY <2>1, <2>2 DEF Spells, Bits
    <3> QED BY <2>1, <2>2, <3>1, FieldOfTwo DEF OpOf
  <2>3. CASE c.op = "write"
    <3>1. f[3] = 0 /\ f[4] = 1 /\ 0 \in Bits /\ 1 \in Bits
      BY <2>1, <2>3 DEF Spells, Bits
    <3> QED BY <2>1, <2>3, <3>1, FieldOfTwo DEF OpOf
  <2> QED BY <2>2, <2>3
<1>2. PhyAdOf(f) = c.phyad
  <2>1. ASSUME NEW i \in 1 .. AddrBits PROVE f[5 - 1 + i] = c.phyad[i]
    <3>1. PICK k : k = 4 + i
      OBVIOUS
    <3>2. k \in 1 .. HeadLen /\ PreLen + k = PreLen + 4 + i /\ 5 - 1 + i = k
      BY <1>0, <3>1
    <3>3. F[PreLen + 4 + i] = c.phyad[i]
      BY DEF Spells
    <3> QED BY <3>2, <3>3
  <2>2. FieldAt(f, 5, AddrBits, c.phyad) /\ 4 + AddrBits = 5 + AddrBits - 1
    BY <1>0, <2>1 DEF FieldAt
  <2> QED BY <2>2, FieldOf DEF PhyAdOf
<1>3. RegAdOf(f) = c.regad
  <2>1. ASSUME NEW i \in 1 .. AddrBits PROVE f[5 + AddrBits - 1 + i] = c.regad[i]
    <3>1. PICK k : k = 4 + AddrBits + i
      OBVIOUS
    <3>2. k \in 1 .. HeadLen /\ PreLen + k = PreLen + 4 + AddrBits + i /\ 5 + AddrBits - 1 + i = k
      BY <1>0, <3>1
    <3>3. F[PreLen + 4 + AddrBits + i] = c.regad[i]
      BY DEF Spells
    <3> QED BY <3>2, <3>3
  <2>2. FieldAt(f, 5 + AddrBits, AddrBits, c.regad) /\ HeadLen = 5 + AddrBits + AddrBits - 1
    BY <1>0, <2>1 DEF FieldAt
  <2> QED BY <2>2, FieldOf DEF RegAdOf
<1> QED BY <1>1, <1>2, <1>3

\* The data of a write.
LEMMA DataIs ==
  ASSUME NEW F, NEW c \in MiiCallRec, Spells(F, c), c.op = "write",
         NEW f \in Seq(Bits), Len(f) = FrameLen, \A i \in 1 .. FrameLen : f[i] = F[PreLen + i]
  PROVE  DataOf(f) = c.data
<1>0. /\ DataBits \in Nat \ {0} /\ PreLen \in Nat /\ HeadLen \in Nat
      /\ FrameLen = HeadLen + 2 + DataBits /\ c.data \in Word(DataBits)
  BY MiiConst DEF MiiCallRec
<1>1. PICK m : m = HeadLen + 3
  OBVIOUS
<1>2. ASSUME NEW i \in 1 .. DataBits PROVE f[m - 1 + i] = c.data[i]
  <2>1. PICK k : k = HeadLen + 2 + i
    OBVIOUS
  <2>2. k \in 1 .. FrameLen /\ PreLen + k = PreLen + HeadLen + 2 + i /\ m - 1 + i = k
    BY <1>0, <1>1, <2>1
  <2>3. F[PreLen + HeadLen + 2 + i] = c.data[i]
    BY DEF Spells
  <2> QED BY <2>2, <2>3
<1>3. FieldAt(f, m, DataBits, c.data) /\ FrameLen = m + DataBits - 1
  <2>1. m \in Nat /\ m >= 1 /\ m + DataBits - 1 = FrameLen
    BY <1>0, <1>1
  <2> QED BY <1>0, <1>2, <2>1 DEF FieldAt
<1>4. SubSeq(f, m, FrameLen) = c.data
  BY <1>3, FieldOf
<1> QED BY <1>1, <1>4 DEF DataOf

\* A rising edge, as the PHYs of one bus see it: h and o are what they have
\* heard before, g and q after, and f the frame with the new bit.
EdgeOf(bit, h, o, f, g, q) ==
  /\ f = Append(h, bit)
  /\ g = IF Len(f) = FrameLen \/ (h = <<>> /\ (bit = 1 \/ o < PreLen)) THEN <<>> ELSE f
  /\ q = IF bit = 0 \/ h # <<>> THEN 0 ELSE IF o < PreLen THEN o + 1 ELSE o

\* What is then known of them.
EdgeGives(F, n, f, g, q) ==
  /\ HeardOK(F, n + 1, g, q) /\ g \in Seq(Bits) /\ q \in 0 .. PreLen
  /\ Len(f) = FrameLen <=> n + 1 = PreLen + FrameLen
  /\ n >= PreLen /\ n < PreLen + FrameLen =>
       /\ Len(f) = n + 1 - PreLen
       /\ \A i \in 1 .. n + 1 - PreLen : F[PreLen + i] # Z => f[i] = F[PreLen + i]

LEMMA EdgeHeard ==
  ASSUME NEW F, NEW c \in MiiCallRec, Spells(F, c), c.op \in {"read", "write"},
         NEW n \in Nat, n < Len(F), NEW h \in Seq(Bits), NEW o \in 0 .. PreLen, HeardOK(F, n, h, o),
         NEW bit \in Bits, F[n + 1] # Z => bit = F[n + 1],
         NEW f, NEW g, NEW q, EdgeOf(bit, h, o, f, g, q)
  PROVE  EdgeGives(F, n, f, g, q)
<1> SUFFICES
         /\ HeardOK(F, n + 1, g, q) /\ g \in Seq(Bits) /\ q \in 0 .. PreLen
         /\ Len(f) = FrameLen <=> n + 1 = PreLen + FrameLen
         /\ n >= PreLen /\ n < PreLen + FrameLen =>
              /\ Len(f) = n + 1 - PreLen
              /\ \A i \in 1 .. n + 1 - PreLen : F[PreLen + i] # Z => f[i] = F[PreLen + i]
  BY DEF EdgeGives
<1> f = Append(h, bit)
  BY DEF EdgeOf
<1> g = IF Len(f) = FrameLen \/ (h = <<>> /\ (bit = 1 \/ o < PreLen)) THEN <<>> ELSE f
  BY DEF EdgeOf
<1> q = IF bit = 0 \/ h # <<>> THEN 0 ELSE IF o < PreLen THEN o + 1 ELSE o
  BY DEF EdgeOf
<1>0. /\ PreLen \in Nat \ {0} /\ FrameLen \in Nat /\ FrameLen >= 5 /\ Len(F) <= PreLen + FrameLen + 2
      /\ Len(F) \in Nat
  <2>1. Len(F) = PreLen + FrameLen + 1 \/ Len(F) = PreLen + FrameLen + 2
    BY DEF Spells
  <2>2. PreLen \in Nat \ {0} /\ FrameLen \in Nat /\ FrameLen >= 5
    BY MiiConst
  <2> QED BY <2>1, <2>2
<1>1. f \in Seq(Bits) /\ Len(f) = Len(h) + 1 /\ Len(h) \in Nat /\ f # <<>>
      /\ (\A i \in 1 .. Len(h) : f[i] = h[i]) /\ f[Len(h) + 1] = bit
  BY AppendProperties
<1>2. g \in Seq(Bits) /\ q \in 0 .. PreLen
  BY <1>0, <1>1
<1>3. h = <<>> <=> Len(h) = 0
  BY EmptySeq
<1>4. CASE n < PreLen
  <2>1. h = <<>> /\ Len(h) = 0 /\ o = n
    BY <1>0, <1>3, <1>4 DEF HeardOK
  <2>2. F[n + 1] = 1
    BY <1>0, <1>4 DEF Spells
  <2>3. bit = 1
    BY <2>2 DEF Z
  <2>4. g = <<>> /\ q = n + 1
    BY <1>0, <1>4, <2>1, <2>3
  <2>5. HeardOK(F, n + 1, g, q)
    BY <1>0, <1>4, <2>4 DEF HeardOK
  <2> QED BY <1>0, <1>1, <1>2, <1>4, <2>1, <2>5
<1>5. CASE n = PreLen
  <2>1. h = <<>> /\ Len(h) = 0 /\ o = n
    BY <1>0, <1>3, <1>5 DEF HeardOK
  <2>2. F[PreLen + 1] = 0
    BY DEF Spells
  <2>3. bit = 0
    BY <1>5, <2>2 DEF Z
  <2>4. g = f /\ q = 0
    BY <1>0, <1>1, <1>5, <2>1, <2>3
  <2>5. Len(f) = 1 /\ f[1] = F[PreLen + 1]
    BY <1>1, <2>1, <2>2, <2>3
  <2>6. HeardOK(F, n + 1, g, q)
    BY <1>0, <1>5, <2>4, <2>5 DEF HeardOK
  <2>7. \A i \in 1 .. n + 1 - PreLen : i = 1
    BY <1>0, <1>5
  <2> QED BY <1>0, <1>2, <1>5, <2>5, <2>6, <2>7
<1>6. CASE n > PreLen /\ n < PreLen + FrameLen
  <2>1. /\ Len(h) = n - PreLen /\ o = 0 /\ h # <<>>
        /\ \A i \in 1 .. n - PreLen : F[PreLen + i] # Z => h[i] = F[PreLen + i]
    BY <1>0, <1>3, <1>6 DEF HeardOK
  <2>2. Len(f) = n + 1 - PreLen
    BY <1>0, <1>1, <2>1
  <2>3. ASSUME NEW i \in 1 .. n + 1 - PreLen, F[PreLen + i] # Z PROVE f[i] = F[PreLen + i]
    <3>1. CASE i \in 1 .. n - PreLen
      <4>1. h[i] = F[PreLen + i] /\ i \in 1 .. Len(h)
        BY <2>1, <2>3, <3>1
      <4> QED BY <1>1, <4>1
    <3>2. CASE i = n + 1 - PreLen
      <4>1. PreLen + i = n + 1 /\ i = Len(h) + 1
        BY <1>0, <2>1, <3>2
      <4>2. F[PreLen + i] = F[n + 1]
        BY <4>1
      <4>3. bit = F[PreLen + i]
        BY <2>3, <4>2
      <4>4. f[i] = bit
        BY <1>1, <4>1
      <4> QED BY <4>3, <4>4
    <3>3. i \in 1 .. n - PreLen \/ i = n + 1 - PreLen
      BY <1>0, <1>6
    <3> QED BY <3>1, <3>2, <3>3
  <2>4. q = 0
    BY <2>1
  <2>5. CASE n + 1 = PreLen + FrameLen
    <3>1. g = <<>>
      BY <1>0, <2>2, <2>5
    <3>2. HeardOK(F, n + 1, g, q)
      BY <1>0, <2>4, <2>5, <3>1 DEF HeardOK
    <3> QED BY <1>0, <1>2, <2>2, <2>3, <2>5, <3>2
  <2>6. CASE n + 1 < PreLen + FrameLen
    <3>1. g = f
      BY <1>0, <2>1, <2>2, <2>6
    <3>2. HeardOK(F, n + 1, g, q)
      BY <1>0, <1>6, <2>2, <2>3, <2>4, <2>6, <3>1 DEF HeardOK
    <3> QED BY <1>0, <1>2, <2>2, <2>3, <2>6, <3>2
  <2> QED BY <1>0, <1>6, <2>5, <2>6
<1>7. CASE n >= PreLen + FrameLen
  <2>1. h = <<>> /\ Len(h) = 0 /\ o = 0
    BY <1>0, <1>3, <1>7 DEF HeardOK
  <2>2. F[n + 1] = 0
    <3>1. CASE c.op = "read"
      <4>1. Len(F) = PreLen + FrameLen + 1 /\ F[Len(F)] = 0
        BY <3>1 DEF Spells
      <4>2. n + 1 = Len(F)
        BY <1>0, <1>7, <4>1
      <4> QED BY <4>1, <4>2
    <3>2. CASE c.op = "write"
      <4>1. Len(F) = PreLen + FrameLen + 2 /\ F[Len(F)] = 0 /\ F[PreLen + FrameLen + 1] = 0
        BY <3>2 DEF Spells
      <4>2. n + 1 = Len(F) \/ n + 1 = PreLen + FrameLen + 1
        BY <1>0, <1>7, <4>1
      <4> QED BY <4>1, <4>2
    <3> QED BY <3>1, <3>2
  <2>3. bit = 0
    BY <2>2 DEF Z
  <2>4. g = <<>> /\ q = 0
    BY <1>0, <1>1, <2>1, <2>3
  <2>5. HeardOK(F, n + 1, g, q)
    BY <1>0, <1>7, <2>4 DEF HeardOK
  <2> QED BY <1>0, <1>1, <1>2, <1>7, <2>1, <2>5
<1> QED BY <1>0, <1>4, <1>5, <1>6, <1>7

\* The head of a frame is written, and so is all of a write.
LEMMA HeadNotZ ==
  ASSUME NEW F, NEW c \in MiiCallRec, Spells(F, c), c.op \in {"read", "write"}
  PROVE  \A i \in 1 .. HeadLen : F[PreLen + i] # Z
<1>0. /\ AddrBits \in Nat \ {0} /\ PreLen \in Nat /\ HeadLen = 4 + AddrBits + AddrBits
      /\ c.phyad \in Word(AddrBits) /\ c.regad \in Word(AddrBits)
  BY MiiConst DEF MiiCallRec
<1>1. SUFFICES ASSUME NEW i \in 1 .. HeadLen PROVE F[PreLen + i] # Z
  OBVIOUS
<1>2. i \in 1 .. 4 \/ i \in 5 .. 4 + AddrBits \/ i \in 5 + AddrBits .. HeadLen
  BY <1>0
<1>3. CASE i \in 1 .. 4
  <2>1. i = 1 \/ i = 2 \/ i = 3 \/ i = 4
    BY <1>3
  <2> QED BY <2>1 DEF Spells, Z
<1>4. CASE i \in 5 .. 4 + AddrBits
  <2>1. PICK k \in 1 .. AddrBits : i = 4 + k
    <3>1. i - 4 \in 1 .. AddrBits /\ i = 4 + (i - 4)
      BY <1>0, <1>4
    <3> QED BY <3>1
  <2>2. F[PreLen + 4 + k] = c.phyad[k] /\ PreLen + i = PreLen + 4 + k
    BY <1>0, <2>1 DEF Spells
  <2>3. c.phyad[k] \in Bits
    BY <1>0, WordSeq
  <2> QED BY <2>2, <2>3 DEF Bits, Z
<1>5. CASE i \in 5 + AddrBits .. HeadLen
  <2>1. PICK k \in 1 .. AddrBits : i = 4 + AddrBits + k
    <3>1. i - 4 - AddrBits \in 1 .. AddrBits /\ i = 4 + AddrBits + (i - 4 - AddrBits)
      BY <1>0, <1>5
    <3> QED BY <3>1
  <2>2. F[PreLen + 4 + AddrBits + k] = c.regad[k] /\ PreLen + i = PreLen + 4 + AddrBits + k
    BY <1>0, <2>1 DEF Spells
  <2>3. c.regad[k] \in Bits
    BY <1>0, WordSeq
  <2> QED BY <2>2, <2>3 DEF Bits, Z
<1> QED BY <1>2, <1>3, <1>4, <1>5

LEMMA WriteNotZ ==
  ASSUME NEW F, NEW c \in MiiCallRec, Spells(F, c), c.op = "write"
  PROVE  \A i \in 1 .. FrameLen : F[PreLen + i] # Z
<1>0. /\ DataBits \in Nat \ {0} /\ PreLen \in Nat /\ HeadLen \in Nat
      /\ FrameLen = HeadLen + 2 + DataBits /\ c.data \in Word(DataBits)
  BY MiiConst DEF MiiCallRec
<1>1. SUFFICES ASSUME NEW i \in 1 .. FrameLen PROVE F[PreLen + i] # Z
  OBVIOUS
<1>2. i \in 1 .. HeadLen \/ i = HeadLen + 1 \/ i = HeadLen + 2 \/ i \in HeadLen + 3 .. FrameLen
  BY <1>0
<1>3. CASE i \in 1 .. HeadLen
  BY <1>3, HeadNotZ
<1>4. CASE i = HeadLen + 1 \/ i = HeadLen + 2
  <2>1. F[PreLen + HeadLen + 1] = 1 /\ F[PreLen + HeadLen + 2] = 0
    BY DEF Spells
  <2>2. PreLen + i = PreLen + HeadLen + 1 \/ PreLen + i = PreLen + HeadLen + 2
    BY <1>0, <1>4
  <2> QED BY <2>1, <2>2 DEF Z
<1>5. CASE i \in HeadLen + 3 .. FrameLen
  <2>1. PICK k \in 1 .. DataBits : i = HeadLen + 2 + k
    <3>1. i - HeadLen - 2 \in 1 .. DataBits /\ i = HeadLen + 2 + (i - HeadLen - 2)
      BY <1>0, <1>5
    <3> QED BY <3>1
  <2>2. F[PreLen + HeadLen + 2 + k] = c.data[k] /\ PreLen + i = PreLen + HeadLen + 2 + k
    BY <1>0, <2>1 DEF Spells
  <2>3. c.data[k] \in Bits
    BY <1>0, WordSeq
  <2> QED BY <2>2, <2>3 DEF Bits, Z
<1> QED BY <1>2, <1>3, <1>4, <1>5

\* One register of one PHY is written.
LEMMA RegisterType ==
  ASSUME NEW R \in [Phy -> [RegAd -> Word(DataBits)]], NEW p \in Phy, NEW r \in RegAd,
         NEW d \in Word(DataBits)
  PROVE  [R EXCEPT ![p][r] = d] \in [Phy -> [RegAd -> Word(DataBits)]]
  OBVIOUS

\* The next clock.
LEMMA RestNext ==
  ASSUME MiiTypeOK, NEW F, F \in Seq(Clock), NEW n, Rest(F, n), todo # <<>>, todo' = Tail(todo)
  PROVE  /\ n \in Nat /\ n < Len(F) /\ Head(todo) = F[n + 1]
         /\ todo' \in Seq(Clock) /\ Rest(F, n + 1)'
<1>1. todo \in Seq(Clock) /\ Len(F) \in Nat /\ Len(todo) \in Nat
  BY DEF MiiTypeOK
<1>2. n \in Nat /\ n <= Len(F) /\ Len(todo) = Len(F) - n /\ \A i \in 1 .. Len(todo) : todo[i] = F[n + i]
  BY <1>1 DEF Rest
<1>3. Len(todo) # 0
  BY <1>1, EmptySeq
<1>4. Head(todo) = todo[1]
  BY <1>1
<1>5. PICK t : t = Tail(todo)
  OBVIOUS
<1>6. /\ t \in Seq(Clock) /\ Len(t) = Len(todo) - 1
      /\ \A i \in 1 .. Len(t) : t[i] = todo[i + 1]
  BY <1>1, <1>5, HeadTailProperties
<1>7. ASSUME NEW i \in 1 .. Len(t) PROVE t[i] = F[n + 1 + i]
  <2>1. PICK k : k = i + 1
    OBVIOUS
  <2>2. k \in 1 .. Len(todo) /\ n + k = n + 1 + i
    BY <1>1, <1>2, <1>6, <2>1
  <2>3. t[i] = todo[k] /\ todo[k] = F[n + k]
    BY <1>2, <1>6, <2>1, <2>2
  <2> QED BY <2>2, <2>3
<1>8. n + 1 \in 0 .. Len(F) /\ Len(t) = Len(F) - (n + 1) /\ n < Len(F)
  BY <1>1, <1>2, <1>3, <1>6
<1>9. Head(todo) = F[n + 1]
  BY <1>1, <1>2, <1>3, <1>4
<1>10. Rest(F, n + 1)'
  BY <1>5, <1>7, <1>8 DEF Rest
<1> QED BY <1>2, <1>5, <1>6, <1>8, <1>9, <1>10

\* What an edge changes outside the bus in use: nothing.
LEMMA ClockStep ==
  ASSUME MiiTypeOK, miiCall.op # "none", NEW F, NEW n, Clocking(F, n), todo # <<>>,
         NEW bit \in Bits, Head(todo) # Z => bit = Head(todo), Edge(bit), todo' = Tail(todo),
         UNCHANGED <<phyDrv, gpins, miiCall, bus, asked>>
  PROVE  /\ n \in Nat /\ n < Len(F) /\ Head(todo) = F[n + 1] /\ Rest(F, n + 1)'
         /\ todo' \in Seq(Clock) /\ heard' \in [Bus -> Seq(Bits)] /\ ones' \in [Bus -> 0 .. PreLen]
         /\ reg' \in [Phy -> [RegAd -> Word(DataBits)]] /\ (miiCall.op = "read" => reg' = reg)
         /\ HeardOK(F, n + 1, heard[bus], ones[bus])' /\ (\A b \in Bus : b # bus => Silent(b)')
         /\ Written(n + 1)'
<1>1. /\ Spells(F, miiCall) /\ Rest(F, n) /\ HeardOK(F, n, heard[bus], ones[bus])
      /\ miiCall \in MiiCallRec /\ miiCall.op \in {"read", "write"} /\ bus \in Bus
      /\ F \in Seq(Clock)
  BY DEF Clocking, MiiTypeOK, MiiCallRec, Spells
<1>2. /\ n \in Nat /\ n < Len(F) /\ Head(todo) = F[n + 1]
      /\ todo' \in Seq(Clock) /\ Rest(F, n + 1)'
  BY <1>1, RestNext
<1>3. PICK h, o, f, g, q :
        h = heard[bus] /\ o = ones[bus] /\ EdgeOf(bit, h, o, f, g, q)
  BY DEF EdgeOf
<1>4. h \in Seq(Bits) /\ o \in 0 .. PreLen
  BY <1>1, <1>3 DEF MiiTypeOK
<1>5. f \in Seq(Bits)
  BY <1>3, <1>4, AppendProperties DEF EdgeOf
<1>6. /\ HeardOK(F, n + 1, g, q) /\ g \in Seq(Bits) /\ q \in 0 .. PreLen
      /\ Len(f) = FrameLen <=> n + 1 = PreLen + FrameLen
      /\ n >= PreLen /\ n < PreLen + FrameLen =>
           /\ Len(f) = n + 1 - PreLen
           /\ \A i \in 1 .. n + 1 - PreLen : F[PreLen + i] # Z => f[i] = F[PreLen + i]
  <2>1. F[n + 1] # Z => bit = F[n + 1]
    BY <1>2
  <2>2. HeardOK(F, n, h, o)
    BY <1>1, <1>3
  <2>3. EdgeGives(F, n, f, g, q)
    BY <1>1, <1>2, <1>3, <1>4, <2>1, <2>2, EdgeHeard
  <2> QED BY <2>3 DEF EdgeGives
<1>7. heard' = [heard EXCEPT ![bus] = g] /\ ones' = [ones EXCEPT ![bus] = q]
  BY <1>1, <1>3 DEF Edge, EdgeOf, MiiTypeOK
<1>8. /\ heard' \in [Bus -> Seq(Bits)] /\ heard'[bus] = g
      /\ ones' \in [Bus -> 0 .. PreLen] /\ ones'[bus] = q
      /\ \A b \in Bus : b # bus => heard'[b] = heard[b] /\ ones'[b] = ones[b]
  BY <1>1, <1>6, <1>7 DEF MiiTypeOK
<1>9. HeardOK(F, n + 1, heard[bus], ones[bus])' /\ \A b \in Bus : b # bus => Silent(b)'
  BY <1>6, <1>8 DEF HeardOK, Clocking, Silent
<1>10. reg' = IF Len(f) = FrameLen /\ OpOf(f) = <<0, 1>> /\ Ours(bus, f)
              THEN [reg EXCEPT ![PhyAdOf(f)][RegAdOf(f)] = DataOf(f)] ELSE reg
  BY <1>3 DEF Edge, EdgeOf
<1>11. /\ PreLen \in Nat /\ FrameLen \in Nat /\ HeadLen \in Nat /\ DataBits \in Nat
       /\ FrameLen = HeadLen + 2 + DataBits
  BY MiiConst
<1>12. CASE n + 1 # PreLen + FrameLen
  <2>1. reg' = reg
    BY <1>6, <1>10, <1>12
  <2>2. n + 1 >= PreLen + FrameLen <=> n >= PreLen + FrameLen
    BY <1>2, <1>11, <1>12
  <2>3. Written(n + 1)'
    BY <2>1, <2>2 DEF Written, Clocking
  <2> QED BY <1>2, <1>8, <1>9, <2>1, <2>3 DEF MiiTypeOK
<1>13. CASE n + 1 = PreLen + FrameLen
  <2>1. /\ Len(f) = FrameLen
        /\ \A i \in 1 .. FrameLen : F[PreLen + i] # Z => f[i] = F[PreLen + i]
    <3>1. n >= PreLen /\ n < PreLen + FrameLen /\ n + 1 - PreLen = FrameLen
      BY <1>2, <1>11, <1>13
    <3> QED BY <1>6, <3>1
  <2>2. \A i \in 1 .. HeadLen : F[PreLen + i] # Z
    BY <1>1, HeadNotZ
  <2>3. Len(f) >= HeadLen /\ \A i \in 1 .. HeadLen : f[i] = F[PreLen + i]
    <3>1. Len(f) >= HeadLen /\ \A i \in 1 .. HeadLen : i \in 1 .. FrameLen
      BY <1>11, <2>1
    <3>2. ASSUME NEW i \in 1 .. HeadLen PROVE f[i] = F[PreLen + i]
      BY <2>1, <2>2, <3>1
    <3> QED BY <3>1, <3>2
  <2>4. /\ OpOf(f) = IF miiCall.op = "read" THEN <<1, 0>> ELSE <<0, 1>>
        /\ PhyAdOf(f) = miiCall.phyad /\ RegAdOf(f) = miiCall.regad
    BY <1>1, <1>5, <2>3, HeadIs
  <2>5. Ours(bus, f)
    BY <1>1, <2>4 DEF Ours, OnBus, Clocking, MiiCallRec
  <2>6. reg = asked
    BY <1>2, <1>11, <1>13 DEF Written, Clocking
  <2>7. n + 1 >= PreLen + FrameLen
    BY <1>11, <1>13
  <2>8. CASE miiCall.op = "read"
    <3>1. <<1, 0>> # <<0, 1>>
      OBVIOUS
    <3>2. reg' = reg
      BY <1>10, <2>4, <2>8, <3>1
    <3>3. Written(n + 1)'
      BY <2>6, <2>8, <3>2 DEF Written
    <3> QED BY <1>2, <1>8, <1>9, <3>2, <3>3 DEF MiiTypeOK
  <2>9. CASE miiCall.op = "write"
    <3>1. \A i \in 1 .. FrameLen : F[PreLen + i] # Z
      BY <1>1, <2>9, WriteNotZ
    <3>2. DataOf(f) = miiCall.data
      BY <1>1, <1>5, <2>1, <2>9, <3>1, DataIs
    <3>3. reg' = [reg EXCEPT ![miiCall.phyad][miiCall.regad] = miiCall.data]
      BY <1>10, <2>1, <2>4, <2>5, <2>9, <3>2
    <3>4. Written(n + 1)'
      BY <2>6, <2>7, <2>9, <3>3 DEF Written
    <3>5. reg' \in [Phy -> [RegAd -> Word(DataBits)]]
      BY <1>1, <3>3, RegisterType DEF MiiTypeOK, MiiCallRec, Clocking
    <3> QED BY <1>2, <1>8, <1>9, <2>9, <3>4, <3>5
  <2> QED BY <1>1, <2>8, <2>9
<1> QED BY <1>12, <1>13

\* Where the frame of a read is sampled.
LEMMA ReadWhere ==
  ASSUME NEW F, NEW c \in MiiCallRec, Spells(F, c), c.op = "read",
         NEW k \in 1 .. Len(F)
  PROVE  F[k] = Z <=> k \in PreLen + HeadLen + 1 .. PreLen + HeadLen + 1 + DataBits
<1>0. /\ DataBits \in Nat /\ PreLen \in Nat /\ HeadLen \in Nat /\ FrameLen = HeadLen + 2 + DataBits
      /\ Len(F) = PreLen + FrameLen + 1
  BY MiiConst DEF Spells
<1>1. \/ k \in 1 .. PreLen \/ k \in PreLen + 1 .. PreLen + HeadLen
      \/ k \in PreLen + HeadLen + 1 .. PreLen + HeadLen + 1 + DataBits
      \/ k = PreLen + FrameLen \/ k = Len(F)
  BY <1>0
<1>2. CASE k \in 1 .. PreLen
  <2>1. F[k] = 1
    BY <1>2 DEF Spells
  <2> QED BY <1>0, <1>2, <2>1 DEF Z
<1>3. CASE k \in PreLen + 1 .. PreLen + HeadLen
  <2>1. PICK i : i = k - PreLen
    OBVIOUS
  <2>2. i \in 1 .. HeadLen /\ k = PreLen + i
    BY <1>0, <1>3, <2>1
  <2>3. F[k] # Z
    BY <2>2, HeadNotZ
  <2> QED BY <1>0, <1>3, <2>3
<1>4. CASE k \in PreLen + HeadLen + 1 .. PreLen + HeadLen + 1 + DataBits
  <2>1. PICK i : i = k - (PreLen + HeadLen)
    OBVIOUS
  <2>2. i \in 1 .. 1 + DataBits /\ k = PreLen + HeadLen + i
    BY <1>0, <1>4, <2>1
  <2> QED BY <1>4, <2>2 DEF Spells
<1>5. CASE k = PreLen + FrameLen \/ k = Len(F)
  <2>1. F[k] = 0
    BY <1>5 DEF Spells
  <2> QED BY <1>0, <1>5, <2>1 DEF Z
<1> QED BY <1>1, <1>2, <1>3, <1>4, <1>5

\* What the PHYs of bus b answer in frame f when their registers are R.
AnswerOf(f, R, b) ==
  IF Len(f) - HeadLen < 1 \/ OpOf(f) # <<1, 0>> \/ ~ Ours(b, f) THEN {}
  ELSE IF Len(f) - HeadLen = 1 THEN {0}
  ELSE {R[PhyAdOf(f)][RegAdOf(f)][Len(f) - HeadLen - 1]}

LEMMA AnswerNow == PhyAnswer(bus) = AnswerOf(heard[bus], reg, bus)
  BY DEF PhyAnswer, AnswerOf

LEMMA AnswerNext ==
  ASSUME UNCHANGED <<gpins, bus>>
  PROVE  PhyAnswer(bus)' = AnswerOf(heard'[bus], reg', bus)
<1>1. \A f : Ours(bus, f)' <=> Ours(bus, f)
  <2>1. OnBus(bus)' = OnBus(bus)
    BY DEF OnBus, WiredTo
  <2> QED BY <2>1 DEF Ours
<1>2. PhyAnswer(bus)' =
        IF Len(heard'[bus]) - HeadLen < 1 \/ OpOf(heard'[bus]) # <<1, 0>> \/ ~ Ours(bus, heard'[bus]) THEN {}
        ELSE IF Len(heard'[bus]) - HeadLen = 1 THEN {0}
        ELSE {reg'[PhyAdOf(heard'[bus])][RegAdOf(heard'[bus])][Len(heard'[bus]) - HeadLen - 1]}
  BY <1>1 DEF PhyAnswer
<1> QED BY <1>2 DEF AnswerOf

LEMMA AnswerBits ==
  ASSUME NEW f \in Seq(Bits), Len(f) < FrameLen, NEW b \in Bus,
         NEW R \in [Phy -> [RegAd -> Word(DataBits)]]
  PROVE  AnswerOf(f, R, b) \subseteq Bits
<1>0. HeadLen \in Nat /\ DataBits \in Nat /\ FrameLen = HeadLen + 2 + DataBits /\ Len(f) \in Nat
  BY MiiConst
<1>1. CASE Len(f) - HeadLen > 1 /\ Ours(b, f)
  <2>1. PhyAdOf(f) \in Phy /\ RegAdOf(f) \in RegAd
    BY <1>1 DEF Ours, OnBus
  <2>2. Len(f) - HeadLen - 1 \in 1 .. DataBits
    BY <1>0, <1>1
  <2>3. R[PhyAdOf(f)][RegAdOf(f)] \in Word(DataBits)
    BY <2>1
  <2>4. R[PhyAdOf(f)][RegAdOf(f)][Len(f) - HeadLen - 1] \in Bits
    BY <1>0, <2>2, <2>3, WordSeq
  <2> QED BY <1>1, <2>4 DEF AnswerOf, Bits
<1>2. CASE ~ (Len(f) - HeadLen > 1 /\ Ours(b, f))
  BY <1>0, <1>2 DEF AnswerOf, Bits
<1> QED BY <1>1, <1>2

\* The answer to a read, once its head is heard.
HeadHeard(F, f, j) ==
  /\ j \in Nat /\ j >= 1 /\ Len(f) = HeadLen + j
  /\ \A i \in 1 .. HeadLen : f[i] = F[PreLen + i]

AnswerSpelt(f, R, b, c, j) == j # 1 => AnswerOf(f, R, b) = {R[c.phyad][c.regad][j - 1]}

LEMMA AnswerIs ==
  ASSUME NEW F, NEW c \in MiiCallRec, Spells(F, c), c.op = "read", c.regad \in RegAd,
         NEW b, b = WiredTo(c.phyad),
         NEW f \in Seq(Bits), NEW j, HeadHeard(F, f, j), NEW R
  PROVE  AnswerSpelt(f, R, b, c, j)
<1> j \in Nat /\ j >= 1 /\ Len(f) = HeadLen + j /\ \A i \in 1 .. HeadLen : f[i] = F[PreLen + i]
  BY DEF HeadHeard
<1>0. HeadLen \in Nat /\ Len(f) >= HeadLen /\ Len(f) - HeadLen = j /\ ~ (Len(f) - HeadLen < 1)
  BY MiiConst
<1>1. OpOf(f) = <<1, 0>> /\ PhyAdOf(f) = c.phyad /\ RegAdOf(f) = c.regad
  BY <1>0, HeadIs
<1>2. Ours(b, f)
  BY <1>1 DEF Ours, OnBus, MiiCallRec
<1> QED BY <1>0, <1>1, <1>2 DEF AnswerOf, AnswerSpelt

\* The frame heard never reaches its end.
LEMMA HeardShort ==
  ASSUME NEW F, NEW n \in Nat, NEW h, NEW o, HeardOK(F, n, h, o)
  PROVE  Len(h) < FrameLen
<1>0. PreLen \in Nat /\ FrameLen \in Nat /\ FrameLen > 0
  BY MiiConst
<1>1. CASE n <= PreLen \/ n >= PreLen + FrameLen
  <2>1. h = <<>>
    BY <1>0, <1>1 DEF HeardOK
  <2> QED BY <1>0, <2>1
<1>2. CASE n > PreLen /\ n < PreLen + FrameLen
  BY <1>0, <1>2 DEF HeardOK
<1> QED BY <1>0, <1>1, <1>2

\* What a bit that is sampled adds to value.
LEMMA ReadMore ==
  ASSUME NEW F, NEW c \in MiiCallRec, Spells(F, c), c.op = "read", c.regad \in RegAd,
         NEW b, b = WiredTo(c.phyad), NEW n \in Nat, n < Len(F), F[n + 1] = Z,
         NEW h \in Seq(Bits), NEW o, HeardOK(F, n + 1, h, o), NEW R, NEW v,
         v \in Line(AnswerOf(h, R, b)), NEW V \in Seq(Bits), NEW W, W = Append(V, v), v \in Bits,
         HasRead(n, V, R, c)
  PROVE  /\ n + 1 > PreLen + HeadLen /\ n + 1 <= PreLen + HeadLen + 1 + DataBits
         /\ HasRead(n + 1, W, R, c)
<1>0. /\ DataBits \in Nat /\ PreLen \in Nat /\ HeadLen \in Nat /\ FrameLen = HeadLen + 2 + DataBits
      /\ Len(F) \in Nat /\ HeadLen > 0
  BY MiiConst DEF Spells
<1>1. n + 1 \in PreLen + HeadLen + 1 .. PreLen + HeadLen + 1 + DataBits
  <2>1. PICK k : k = n + 1
    OBVIOUS
  <2>2. k \in 1 .. Len(F) /\ F[k] = Z
    BY <1>0, <2>1
  <2> QED BY <2>1, <2>2, ReadWhere
<1>2. PICK j : j = n + 1 - (PreLen + HeadLen)
  OBVIOUS
<1>3. j \in Nat /\ j >= 1 /\ n + 1 = PreLen + HeadLen + j
  BY <1>0, <1>1, <1>2
<1>4. Len(V) = j - 1 /\ \A i \in 1 .. Len(V) - 1 : V[1 + i] = R[c.phyad][c.regad][i]
  BY <1>0, <1>1, <1>2 DEF HasRead
<1>5. /\ W \in Seq(Bits) /\ Len(W) = j /\ W[j] = v
      /\ \A i \in 1 .. j - 1 : W[i] = V[i]
  <2>1. /\ W \in Seq(Bits) /\ Len(W) = Len(V) + 1 /\ W[Len(V) + 1] = v
        /\ \A i \in 1 .. Len(V) : W[i] = V[i]
    BY AppendProperties
  <2> QED BY <1>3, <1>4, <2>1
<1>6. /\ Len(h) = HeadLen + j
      /\ \A i \in 1 .. HeadLen + j : F[PreLen + i] # Z => h[i] = F[PreLen + i]
  <2>1. n + 1 > PreLen /\ n + 1 < PreLen + FrameLen /\ n + 1 - PreLen = HeadLen + j
    BY <1>0, <1>1, <1>3
  <2>2. /\ Len(h) = n + 1 - PreLen
        /\ \A i \in 1 .. n + 1 - PreLen : F[PreLen + i] # Z => h[i] = F[PreLen + i]
    BY <1>0, <2>1 DEF HeardOK
  <2> QED BY <2>1, <2>2
<1>7. ASSUME NEW i \in 1 .. HeadLen PROVE h[i] = F[PreLen + i]
  <2>1. F[PreLen + i] # Z
    BY HeadNotZ
  <2>2. i \in 1 .. HeadLen + j
    BY <1>0, <1>3
  <2> QED BY <1>6, <2>1, <2>2
<1>8. j # 1 => AnswerOf(h, R, b) = {R[c.phyad][c.regad][j - 1]}
  <2>1. HeadHeard(F, h, j)
    BY <1>3, <1>6, <1>7 DEF HeadHeard
  <2>2. AnswerSpelt(h, R, b, c, j)
    BY <2>1, AnswerIs
  <2> QED BY <2>2 DEF AnswerSpelt
<1>9. ASSUME NEW i \in 1 .. j - 1 PROVE W[1 + i] = R[c.phyad][c.regad][i]
  <2>1. CASE i < j - 1
    <3>1. i \in 1 .. Len(V) - 1 /\ 1 + i \in 1 .. j - 1
      BY <1>3, <1>4, <2>1
    <3> QED BY <1>4, <1>5, <3>1
  <2>2. CASE i = j - 1
    <3>1. j # 1 /\ 1 + i = j
      BY <1>3, <2>2
    <3>2. AnswerOf(h, R, b) = {R[c.phyad][c.regad][j - 1]}
      BY <1>8, <3>1
    <3>3. v = R[c.phyad][c.regad][j - 1]
      BY <3>2 DEF Line
    <3>4. R[c.phyad][c.regad][i] = R[c.phyad][c.regad][j - 1]
      BY <2>2
    <3>5. W[1 + i] = W[j]
      BY <3>1
    <3> QED BY <1>5, <3>3, <3>4, <3>5
  <2>3. i < j - 1 \/ i = j - 1
    BY <1>3
  <2> QED BY <2>1, <2>2, <2>3
<1>10. HasRead(n + 1, W, R, c)
  BY <1>0, <1>1, <1>2, <1>5, <1>9 DEF HasRead
<1> QED BY <1>0, <1>1, <1>10

\* A clock of the driver that samples the line: what is left of the invariant.
LEMMA SampleStep ==
  ASSUME MiiInv, NEW own, own \subseteq Bits, phyDrv # "emac" => own = {}, Sample(own),
         isOut' \in [Bus -> BOOLEAN]
  PROVE  MiiInv'
<1>1. /\ todo # <<>> /\ Head(todo) = Z /\ todo' = Tail(todo)
      /\ UNCHANGED <<phyDrv, gpins, miiCall, bus, mdio, asked, miiLeft>>
  BY DEF Sample
<1>2. MiiTypeOK /\ miiCall.op # "none"
  BY <1>1 DEF MiiInv
<1>3. PICK F, n : Clocking(F, n)
  BY <1>2 DEF MiiInv
<1>4. /\ Spells(F, miiCall) /\ Rest(F, n) /\ HeardOK(F, n, heard[bus], ones[bus])
      /\ miiCall \in MiiCallRec /\ miiCall.op \in {"read", "write"} /\ bus \in Bus
      /\ F \in Seq(Clock) /\ heard[bus] \in Seq(Bits) /\ value \in Seq(Bits)
      /\ bus = WiredTo(miiCall.phyad) /\ miiCall.regad \in RegAd
  BY <1>2, <1>3 DEF Clocking, MiiTypeOK, MiiCallRec, Spells
<1>5. n \in Nat /\ n < Len(F) /\ F[n + 1] = Z
  BY <1>1, <1>2, <1>4, RestNext
<1>6. PICK bit \in Line(PhyAnswer(bus) \union own) : Edge(bit)
  BY DEF Sample
<1>7. bit \in Bits
  <2>1. Len(heard[bus]) < FrameLen
    BY <1>4, <1>5, HeardShort
  <2>2. reg \in [Phy -> [RegAd -> Word(DataBits)]]
    BY <1>2 DEF MiiTypeOK
  <2>3. AnswerOf(heard[bus], reg, bus) \subseteq Bits
    BY <1>4, <2>1, <2>2, AnswerBits
  <2> QED BY <1>6, <2>3, AnswerNow DEF Line, Bits
<1>8. /\ Rest(F, n + 1)'
      /\ todo' \in Seq(Clock) /\ heard' \in [Bus -> Seq(Bits)] /\ ones' \in [Bus -> 0 .. PreLen]
      /\ reg' \in [Phy -> [RegAd -> Word(DataBits)]] /\ (miiCall.op = "read" => reg' = reg)
      /\ HeardOK(F, n + 1, heard[bus], ones[bus])' /\ (\A b \in Bus : b # bus => Silent(b)')
      /\ Written(n + 1)'
  BY <1>1, <1>2, <1>3, <1>6, <1>7, ClockStep
<1>9. PICK v \in Line(PhyAnswer(bus)' \union own) : value' = Append(value, v)
  BY DEF Sample
<1>10. HeardOK(F, n + 1, heard'[bus], ones'[bus]) /\ heard'[bus] \in Seq(Bits)
  <2>1. HeardOK(F, n + 1, heard'[bus], ones'[bus])
    BY <1>1, <1>8 DEF HeardOK
  <2> QED BY <1>4, <1>8, <2>1
<1>11. PhyAnswer(bus)' = AnswerOf(heard'[bus], reg', bus)
  BY <1>1, AnswerNext
<1>12. v \in Bits
  <2>1. Len(heard'[bus]) < FrameLen
    BY <1>5, <1>10, HeardShort
  <2>2. AnswerOf(heard'[bus], reg', bus) \subseteq Bits
    BY <1>4, <1>8, <1>10, <2>1, AnswerBits
  <2> QED BY <1>9, <1>11, <2>2 DEF Line, Bits
<1>13. value' \in Seq(Bits)
  BY <1>4, <1>9, <1>12
<1>14. MiiTypeOK'
  BY <1>1, <1>2, <1>8, <1>13 DEF MiiTypeOK
<1>15. Spells(F, miiCall)' /\ (bus = WiredTo(miiCall.phyad) /\ miiCall.regad \in RegAd)'
       /\ (\A b \in Bus : b # bus => Silent(b))'
  BY <1>1, <1>4, <1>8 DEF Spells, WiredTo
<1>16. ReadOK(n + 1)'
  <2>1. CASE miiCall.op = "read" /\ phyDrv # "emac"
    <3>1. v \in Line(AnswerOf(heard'[bus], reg, bus))
      <4>1. PhyAnswer(bus)' \union own = AnswerOf(heard'[bus], reg, bus)
        BY <1>8, <1>11, <2>1
      <4> QED BY <1>9, <4>1
    <3>2. HasRead(n, value, reg, miiCall)
      BY <1>3, <2>1 DEF Clocking, ReadOK
    <3>3. PICK R, V, W, b, h, o :
            R = reg /\ V = value /\ W = value' /\ b = bus /\ h = heard'[bus] /\ o = ones'[bus]
      OBVIOUS
    <3>4. V \in Seq(Bits) /\ W = Append(V, v) /\ HasRead(n, V, R, miiCall)
          /\ v \in Line(AnswerOf(h, R, b)) /\ h \in Seq(Bits)
          /\ HeardOK(F, n + 1, h, o) /\ b = WiredTo(miiCall.phyad)
      BY <1>4, <1>9, <1>10, <3>1, <3>2, <3>3
    <3>5. /\ n + 1 > PreLen + HeadLen /\ n + 1 <= PreLen + HeadLen + 1 + DataBits
          /\ HasRead(n + 1, W, R, miiCall)
      BY <1>4, <1>5, <1>12, <2>1, <3>4, ReadMore
    <3>6. PreLen \in Nat /\ HeadLen \in Nat /\ DataBits \in Nat
      BY MiiConst
    <3>7. reg' = R /\ value' = W /\ miiCall' = miiCall
      BY <1>1, <1>8, <2>1, <3>3
    <3> QED BY <1>5, <3>5, <3>6, <3>7 DEF ReadOK
  <2>2. CASE ~ (miiCall.op = "read" /\ phyDrv # "emac")
    BY <1>1, <2>2 DEF ReadOK
  <2> QED BY <2>1, <2>2
<1>17. Clocking(F, n + 1)'
  BY <1>8, <1>15, <1>16 DEF Clocking
<1>18. miiCall'.op # "none"
  BY <1>1, <1>2
<1> QED BY <1>14, <1>17, <1>18 DEF MiiInv

LEMMA SerialReadStep == ASSUME MiiInv, SerialRead PROVE MiiInv'
<1>1. {} \subseteq Bits /\ Sample({}) /\ isOut' \in [Bus -> BOOLEAN]
  BY DEF SerialRead, MiiInv, MiiTypeOK
<1> QED BY <1>1, SampleStep

LEMMA EmacSerialReadStep == ASSUME MiiInv, EmacSerialRead PROVE MiiInv'
<1>1. PICK own : own = IF isOut[bus] THEN {mdio[bus]} ELSE {}
  OBVIOUS
<1>2. own \subseteq Bits /\ isOut' \in [Bus -> BOOLEAN]
  BY <1>1 DEF EmacSerialRead, MiiInv, MiiTypeOK
<1>3. Sample(own) /\ phyDrv = "emac"
  BY <1>1 DEF EmacSerialRead
<1> QED BY <1>2, <1>3, SampleStep

\* A bit that is written.
LEMMA SerialWriteStep == ASSUME MiiInv, SerialWrite PROVE MiiInv'
<1>1. /\ todo # <<>> /\ Head(todo) \in {0, 1} /\ todo' = Tail(todo) /\ Edge(Head(todo))
      /\ isOut' = [isOut EXCEPT ![bus] = TRUE] /\ mdio' = [mdio EXCEPT ![bus] = Head(todo)]
      /\ UNCHANGED <<phyDrv, gpins, miiCall, bus, value, asked, miiLeft>>
  BY DEF SerialWrite
<1>2. MiiTypeOK /\ miiCall.op # "none"
  BY <1>1 DEF MiiInv
<1>3. PICK F, n : Clocking(F, n)
  BY <1>2 DEF MiiInv
<1>4. /\ Spells(F, miiCall) /\ Rest(F, n)
      /\ miiCall \in MiiCallRec /\ miiCall.op \in {"read", "write"} /\ bus \in Bus
      /\ F \in Seq(Clock) /\ bus = WiredTo(miiCall.phyad) /\ miiCall.regad \in RegAd
  BY <1>2, <1>3 DEF Clocking, MiiTypeOK, MiiCallRec, Spells
<1>5. PICK bit \in Bits : bit = Head(todo)
  BY <1>1 DEF Bits
<1>6. Edge(bit)
  BY <1>1, <1>5
<1>7. /\ n \in Nat /\ n < Len(F) /\ Head(todo) = F[n + 1] /\ Rest(F, n + 1)'
      /\ todo' \in Seq(Clock) /\ heard' \in [Bus -> Seq(Bits)] /\ ones' \in [Bus -> 0 .. PreLen]
      /\ reg' \in [Phy -> [RegAd -> Word(DataBits)]] /\ (miiCall.op = "read" => reg' = reg)
      /\ HeardOK(F, n + 1, heard[bus], ones[bus])' /\ (\A b \in Bus : b # bus => Silent(b)')
      /\ Written(n + 1)'
  BY <1>1, <1>2, <1>3, <1>5, <1>6, ClockStep
<1>8. MiiTypeOK'
  <2>1. isOut' \in [Bus -> BOOLEAN] /\ mdio' \in [Bus -> Bits]
    BY <1>1, <1>2 DEF MiiTypeOK, Bits
  <2> QED BY <1>1, <1>2, <1>7, <2>1 DEF MiiTypeOK
<1>9. Spells(F, miiCall)' /\ (bus = WiredTo(miiCall.phyad) /\ miiCall.regad \in RegAd)'
      /\ (\A b \in Bus : b # bus => Silent(b))'
  BY <1>1, <1>4, <1>7 DEF Spells, WiredTo
<1>10. ReadOK(n + 1)'
  <2>1. CASE miiCall.op = "read" /\ phyDrv # "emac"
    <3>1. PreLen \in Nat /\ HeadLen \in Nat /\ DataBits \in Nat /\ Len(F) \in Nat
      BY <1>4, MiiConst
    <3>2. ~ (n + 1 \in PreLen + HeadLen + 1 .. PreLen + HeadLen + 1 + DataBits)
      <4>1. PICK k : k = n + 1
        OBVIOUS
      <4>2. k \in 1 .. Len(F) /\ F[k] # Z
        BY <1>1, <1>7, <3>1, <4>1 DEF Z
      <4> QED BY <1>4, <2>1, <4>1, <4>2, ReadWhere
    <3>3. HasRead(n, value, reg, miiCall)
      BY <1>3, <2>1 DEF Clocking, ReadOK
    <3>4. HasRead(n + 1, value, reg, miiCall)
      <4>1. PICK l : l = Len(value)
        OBVIOUS
      <4>2. /\ n <= PreLen + HeadLen => l = 0
            /\ n > PreLen + HeadLen /\ n <= PreLen + HeadLen + 1 + DataBits => l = n - (PreLen + HeadLen)
            /\ n > PreLen + HeadLen + 1 + DataBits => l = 1 + DataBits
        BY <3>3, <4>1 DEF HasRead
      <4>3. /\ n + 1 <= PreLen + HeadLen => l = 0
            /\ ~ (n + 1 > PreLen + HeadLen /\ n + 1 <= PreLen + HeadLen + 1 + DataBits)
            /\ n + 1 > PreLen + HeadLen + 1 + DataBits => l = 1 + DataBits
        <5>1. n \in Nat
          BY <1>7
        <5> QED BY <3>1, <3>2, <4>2, <5>1
      <4> QED BY <3>3, <4>1, <4>3 DEF HasRead
    <3>5. value' = value /\ miiCall' = miiCall /\ reg' = reg
      BY <1>1, <1>7, <2>1
    <3> QED BY <3>4, <3>5 DEF ReadOK
  <2>2. CASE ~ (miiCall.op = "read" /\ phyDrv # "emac")
    BY <1>1, <2>2 DEF ReadOK
  <2> QED BY <2>1, <2>2
<1>11. Clocking(F, n + 1)'
  BY <1>7, <1>9, <1>10 DEF Clocking
<1>12. miiCall'.op # "none"
  BY <1>1, <1>2
<1> QED BY <1>8, <1>11, <1>12 DEF MiiInv

\* A call begins: nothing is clocked yet.
LEMMA BeginStep ==
  ASSUME MiiInv, NEW c \in MiiCallRec, NEW F, NEW pins, Begin(c, F, pins),
         c.op \in {"read", "write"}, Spells(F, c), pins = WiredTo(c.phyad), c.regad \in RegAd
  PROVE  MiiInv'
<1>1. /\ todo = <<>> /\ miiCall.op = "none"
      /\ miiCall' = c /\ todo' = F /\ bus' = pins /\ value' = <<>>
      /\ UNCHANGED <<phyDrv, gpins, isOut, mdio, ones, heard, reg, asked>>
  BY DEF Begin, phyVars
<1>2. MiiTypeOK /\ reg = asked /\ \A b \in Bus : heard[b] = <<>> /\ ones[b] = 0
  BY <1>1 DEF MiiInv, Silent
<1>3. F \in Seq(Clock) /\ Len(F) \in Nat /\ pins \in Bus
  BY <1>2 DEF Spells, WiredTo, MiiTypeOK, Bus
<1>4. PreLen \in Nat /\ FrameLen \in Nat /\ FrameLen > 0 /\ HeadLen \in Nat /\ DataBits \in Nat
  BY MiiConst
<1>5. MiiTypeOK'
  <2>1. value' \in Seq(Bits)
    BY <1>1
  <2> QED BY <1>1, <1>2, <1>3, <2>1 DEF MiiTypeOK
<1>6. Spells(F, miiCall)' /\ (bus = WiredTo(miiCall.phyad) /\ miiCall.regad \in RegAd)'
  BY <1>1 DEF Spells, WiredTo
<1>7. Rest(F, 0)'
  <2>1. 0 \in 0 .. Len(F) /\ Len(F) = Len(F) - 0 /\ \A i \in 1 .. Len(F) : F[i] = F[0 + i]
    BY <1>3
  <2> QED BY <1>1, <2>1 DEF Rest
<1>8. HeardOK(F, 0, heard[bus], ones[bus])' /\ (\A b \in Bus : b # bus => Silent(b))'
  <2>1. heard'[pins] = <<>> /\ ones'[pins] = 0 /\ \A b \in Bus : heard'[b] = <<>> /\ ones'[b] = 0
    BY <1>1, <1>2, <1>3
  <2> QED BY <1>1, <1>4, <2>1 DEF HeardOK, Silent
<1>9. ReadOK(0)'
  <2>1. HasRead(0, <<>>, reg', c)
    BY <1>4 DEF HasRead
  <2> QED BY <1>1, <2>1 DEF ReadOK
<1>10. Written(0)'
  BY <1>1, <1>2, <1>4 DEF Written
<1>11. Clocking(F, 0)'
  BY <1>6, <1>7, <1>8, <1>9, <1>10 DEF Clocking
<1> QED BY <1>1, <1>5, <1>11 DEF MiiInv

\* A call returns: the frame and the clocks after it are behind.
LEMMA CallOver ==
  ASSUME MiiTypeOK, NEW F, NEW n, Clocking(F, n), todo = <<>>, miiCall.op # "none"
  PROVE  /\ \A b \in Bus : Silent(b)
         /\ reg = IF miiCall.op = "write"
                  THEN [asked EXCEPT ![miiCall.phyad][miiCall.regad] = miiCall.data] ELSE asked
         /\ miiCall.op = "read" /\ phyDrv # "emac" =>
              /\ Len(value) = 1 + DataBits
              /\ \A i \in 1 .. DataBits : value[1 + i] = reg[miiCall.phyad][miiCall.regad][i]
<1>1. /\ Spells(F, miiCall) /\ Rest(F, n) /\ HeardOK(F, n, heard[bus], ones[bus])
      /\ miiCall.op \in {"read", "write"} /\ F \in Seq(Clock) /\ Len(F) \in Nat
  BY DEF Clocking, MiiTypeOK, MiiCallRec, Spells
<1>2. /\ PreLen \in Nat /\ FrameLen \in Nat /\ FrameLen > 0 /\ HeadLen \in Nat /\ DataBits \in Nat
      /\ FrameLen = HeadLen + 2 + DataBits
  BY MiiConst
<1>3. n = Len(F)
  <2>1. n \in 0 .. Len(F) /\ Len(todo) = Len(F) - n /\ Len(todo) = 0
    BY <1>1 DEF Rest
  <2> QED BY <1>1, <2>1
<1>4. n > PreLen + FrameLen /\ n \in Nat
  <2>1. Len(F) = PreLen + FrameLen + 1 \/ Len(F) = PreLen + FrameLen + 2
    BY <1>1 DEF Spells
  <2> QED BY <1>2, <1>3, <2>1
<1>5. Silent(bus)
  BY <1>1, <1>2, <1>4 DEF HeardOK, Silent
<1>6. \A b \in Bus : Silent(b)
  BY <1>5 DEF Clocking
<1>7. reg = IF miiCall.op = "write"
            THEN [asked EXCEPT ![miiCall.phyad][miiCall.regad] = miiCall.data] ELSE asked
  <2>1. Written(n) /\ n >= PreLen + FrameLen
    BY <1>2, <1>4 DEF Clocking
  <2> QED BY <2>1 DEF Written
<1>8. ASSUME miiCall.op = "read", phyDrv # "emac"
      PROVE  /\ Len(value) = 1 + DataBits
             /\ \A i \in 1 .. DataBits : value[1 + i] = reg[miiCall.phyad][miiCall.regad][i]
  <2>1. HasRead(n, value, reg, miiCall)
    BY <1>8 DEF Clocking, ReadOK
  <2>2. n > PreLen + HeadLen + 1 + DataBits
    BY <1>2, <1>4
  <2>3. Len(value) = 1 + DataBits /\ Len(value) - 1 = DataBits
    BY <1>2, <2>1, <2>2 DEF HasRead
  <2> QED BY <2>1, <2>3 DEF HasRead
<1> QED BY <1>6, <1>7, <1>8

LEMMA ReturnStep == ASSUME MiiInv, MiiReturn PROVE MiiInv'
<1>1. /\ todo = <<>> /\ miiCall.op # "none"
      /\ asked' = IF miiCall.op = "write"
                  THEN [asked EXCEPT ![miiCall.phyad][miiCall.regad] = miiCall.data]
                  ELSE asked
      /\ miiCall' = [miiCall EXCEPT !.op = "none"]
      /\ UNCHANGED <<phyDrv, gpins, bus, todo, value, isOut, mdio, ones, heard, reg>>
  BY DEF MiiReturn, phyVars
<1>2. MiiTypeOK /\ miiCall \in MiiCallRec
  BY DEF MiiInv, MiiTypeOK
<1>3. PICK F, n : Clocking(F, n)
  BY <1>1 DEF MiiInv
<1>4. /\ \A b \in Bus : Silent(b)
      /\ reg = IF miiCall.op = "write"
               THEN [asked EXCEPT ![miiCall.phyad][miiCall.regad] = miiCall.data] ELSE asked
  BY <1>1, <1>2, <1>3, CallOver
<1>5. miiCall' \in MiiCallRec /\ miiCall'.op = "none"
  BY <1>1, <1>2 DEF MiiCallRec
<1>6. reg' = asked'
  BY <1>1, <1>4
<1>7. MiiTypeOK'
  BY <1>1, <1>2, <1>5, <1>6 DEF MiiTypeOK
<1> QED BY <1>1, <1>4, <1>5, <1>6, <1>7 DEF MiiInv, Silent

LEMMA MiiInvInit == ASSUME MiiInit PROVE MiiInv
<1>1. /\ GPhy \in Phy /\ Phy \subseteq Word(AddrBits) /\ PreLen \in Nat
      /\ AddrBits \in Nat /\ DataBits \in Nat
  BY MiiConst
<1>2. Zero(AddrBits) \in Word(AddrBits) /\ Zero(DataBits) \in Word(DataBits)
  BY DEF Zero, Word
<1>3. miiCall \in MiiCallRec /\ miiCall.op = "none"
  BY <1>1, <1>2 DEF MiiInit, MiiCallRec
<1>4. MiiTypeOK
  BY <1>1, <1>3 DEF MiiInit, MiiTypeOK, Bus, Bits
<1> QED BY <1>3, <1>4 DEF MiiInit, MiiInv, Silent

LEMMA MiiInvStep == ASSUME MiiInv, [MiiNext]_miiVars PROVE MiiInv'
<1>1. CASE UNCHANGED miiVars
  <2>1. UNCHANGED <<phyDrv, gpins, miiCall, bus, todo, value, isOut, mdio, ones, heard, reg, asked>>
    BY <1>1 DEF miiVars, phyVars
  <2>2. MiiTypeOK' /\ \A b \in Bus : Silent(b)' <=> Silent(b)
    BY <2>1 DEF MiiInv, MiiTypeOK, Silent
  <2>3. ASSUME NEW F, NEW n, Clocking(F, n) PROVE Clocking(F, n)'
    BY <2>1, <2>2, <2>3 DEF Clocking, Rest, ReadOK, Written, WiredTo
  <2>4. miiCall.op # "none" => \E F, n : Clocking(F, n)'
    BY <2>3 DEF MiiInv
  <2>5. miiCall.op = "none" => reg' = asked' /\ todo' = <<>> /\ \A b \in Bus : Silent(b)'
    BY <2>1, <2>2 DEF MiiInv
  <2> QED BY <2>1, <2>2, <2>4, <2>5 DEF MiiInv
<1>2. ASSUME NEW p \in Phy, NEW r \in RegAd,
             LepusRead(p, r) \/ GmacRead(p, r) \/ EmacRead(p, r)
      PROVE  MiiInv'
  <2>1. PICK c : c = ReadCall(p, r)
    OBVIOUS
  <2>2. /\ c \in MiiCallRec /\ c.op = "read" /\ c.phyad = p /\ c.regad = r
    <3>1. Zero(DataBits) \in Word(DataBits) /\ r \in Word(AddrBits)
      BY MiiConst DEF Zero, Word
    <3> QED BY <2>1, <3>1 DEF ReadCall, MiiCallRec
  <2>3. Spells(ReadFrame(p, r), c)
    <3>1. Spells(ReadFrame(c.phyad, c.regad), c)
      BY <2>2, ReadSpells
    <3> QED BY <2>2, <3>1
  <2>4. Begin(c, ReadFrame(p, r), WiredTo(p))
    BY <1>2, <2>1 DEF LepusRead, GmacRead, EmacRead, PinsOf, WiredTo, MiiInv, MiiTypeOK
  <2> QED BY <1>2, <2>2, <2>3, <2>4, BeginStep
<1>3. ASSUME NEW p \in Phy, NEW r \in RegAd, NEW d \in Word(DataBits),
             LepusWrite(p, r, d) \/ GmacWrite(p, r, d) \/ EmacWrite(p, r, d)
      PROVE  MiiInv'
  <2>1. PICK c : c = WriteCall(p, r, d)
    OBVIOUS
  <2>2. /\ c \in MiiCallRec /\ c.op = "write" /\ c.phyad = p /\ c.regad = r /\ c.data = d
    <3>1. r \in Word(AddrBits)
      BY MiiConst
    <3> QED BY <2>1, <3>1 DEF WriteCall, MiiCallRec
  <2>3. Spells(WriteFrame(p, r, d), c)
    <3>1. Spells(WriteFrame(c.phyad, c.regad, c.data), c)
      BY <2>2, WriteSpells
    <3> QED BY <2>2, <3>1
  <2>4. Begin(c, WriteFrame(p, r, d), WiredTo(p))
    BY <1>3, <2>1 DEF LepusWrite, GmacWrite, EmacWrite, PinsOf, WiredTo, MiiInv, MiiTypeOK
  <2> QED BY <1>3, <2>2, <2>3, <2>4, BeginStep
<1>4. CASE SerialWrite
  BY <1>4, SerialWriteStep
<1>5. CASE SerialRead
  BY <1>5, SerialReadStep
<1>6. CASE EmacSerialRead
  BY <1>6, EmacSerialReadStep
<1>7. CASE MiiReturn
  BY <1>7, ReturnStep
<1> QED BY <1>1, <1>2, <1>3, <1>4, <1>5, <1>6, <1>7 DEF MiiNext

LEMMA MiiInvExact == ASSUME MiiInv PROVE MiiExact
<1>1. SUFFICES ASSUME todo = <<>>, miiCall.op = "read", phyDrv # "emac"
               PROVE  Tail(value) = reg[miiCall.phyad][miiCall.regad]
  BY DEF MiiInv, MiiExact
<1>2. MiiTypeOK /\ miiCall \in MiiCallRec
  BY DEF MiiInv, MiiTypeOK
<1>3. PICK F, n : Clocking(F, n)
  BY <1>1 DEF MiiInv
<1>4. /\ Len(value) = 1 + DataBits
      /\ \A i \in 1 .. DataBits : value[1 + i] = reg[miiCall.phyad][miiCall.regad][i]
  BY <1>1, <1>2, <1>3, CallOver
<1>5. PICK w : w = reg[miiCall.phyad][miiCall.regad]
  OBVIOUS
<1>6. w \in Seq(Bits) /\ Len(w) = DataBits /\ DataBits \in Nat
  <2>1. miiCall.phyad \in Phy /\ miiCall.regad \in RegAd
    BY <1>2, <1>3 DEF Clocking, MiiCallRec
  <2>2. w \in Word(DataBits) /\ DataBits \in Nat
    BY <1>2, <1>5, <2>1, MiiConst DEF MiiTypeOK
  <2> QED BY <2>2, WordSeq
<1>7. PICK t : t = Tail(value)
  OBVIOUS
<1>8. /\ t \in Seq(Bits) /\ Len(t) = DataBits
      /\ \A i \in 1 .. DataBits : t[i] = value[i + 1]
  <2>1. value \in Seq(Bits) /\ value # <<>>
    BY <1>2, <1>4, <1>6 DEF MiiTypeOK
  <2>2. /\ Tail(value) \in Seq(Bits) /\ Len(Tail(value)) = Len(value) - 1
        /\ \A i \in 1 .. Len(Tail(value)) : Tail(value)[i] = value[i + 1]
    BY <2>1, HeadTailProperties
  <2> QED BY <1>4, <1>6, <1>7, <2>2
<1>9. ASSUME NEW i \in 1 .. DataBits PROVE t[i] = w[i]
  <2>1. value[1 + i] = w[i] /\ 1 + i = i + 1
    BY <1>4, <1>5
  <2> QED BY <1>8, <2>1
<1>10. t = w
  BY <1>6, <1>8, <1>9, SeqEqual
<1> QED BY <1>5, <1>7, <1>10

\* A write that has returned has changed the register it names and no other,
\* and a read that is about to return has the register's value, for every width
\* of the preamble, the addresses and the registers, on shared pins and on pins
\* of their own (mii_read, mii_write).
THEOREM RegistersAlwaysExact == MiiSpec => []MiiExact
<1>1. MiiInit => MiiInv
  BY MiiInvInit
<1>2. MiiInv /\ [MiiNext]_miiVars => MiiInv'
  BY MiiInvStep
<1>3. MiiInv => MiiExact
  BY MiiInvExact
<1> QED BY <1>1, <1>2, <1>3, PTL DEF MiiSpec
=============================================================================
