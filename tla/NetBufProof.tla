---------------------------- MODULE NetBufProof -----------------------------
(***************************************************************************)
(* A network buffer is always in one place, the two queues spell out what   *)
(* was put in them, and a poll leaves nothing behind, for every number of   *)
(* buffers, every burst of frames and every depth of nested polls.          *)
(*                                                                         *)
(* OneOwner counts; a count is not enough to see that a link is written in  *)
(* the right queue.  The inductive invariant therefore also says which      *)
(* places exclude each other, and what a call holds in each of its states.  *)
(***************************************************************************)
EXTENDS NetBuf, FiniteSetTheorems, SequenceTheorems, TLAPS

Elems(s) == {s[i] : i \in 1 .. Len(s)}

\* No sequence holds a buffer twice.
Unrepeated(s) == \A i, j \in 1 .. Len(s) : s[i] = s[j] => i = j

Absent(b, s) == b \notin Elems(s)

\* A buffer on one queue is on no other and was not forgotten.
QueuesApart ==
  /\ \A q \in Queue : Unrepeated(order[q])
  /\ Elems(order["free"]) \cap Elems(order["rcv"]) = {}
  /\ \A q \in Queue : Elems(order[q]) \cap lost = {}

\* A call owns a buffer exactly while its handler runs; no other place has it.
CallsApart ==
  /\ \A i \in 1 .. Len(calls) :
        calls[i].buf = NULL <=> calls[i].at \in {"deliver", "loop"}
  /\ \A i, j \in 1 .. Len(calls) :
        calls[i].buf = calls[j].buf /\ calls[i].buf # NULL => i = j
  /\ \A i \in 1 .. Len(calls) :
        /\ calls[i].buf \notin lost
        /\ \A q \in Queue : Absent(calls[i].buf, order[q])

IInv ==
  TypeOK /\ QueuesSound /\ QueuesApart /\ CallsApart /\ OneOwner /\ PollDrains

-----------------------------------------------------------------------------
(* Facts about the sequences                                                *)

\* What remains of a queue's contents when its first buffer has gone.
LEMMA TailFacts ==
  ASSUME NEW s \in Seq(Buf), s # <<>>
  PROVE  /\ Tail(s) \in Seq(Buf) /\ Len(Tail(s)) = Len(s) - 1
         /\ Len(s) \in Nat /\ Len(s) >= 1
         /\ Tail(s) = <<>> <=> Len(s) = 1
         /\ \A i \in 1 .. Len(s) - 1 : Tail(s)[i] = s[i + 1]
<1>1. /\ Tail(s) \in Seq(Buf) /\ Len(Tail(s)) = Len(s) - 1
      /\ Len(s) \in Nat /\ Len(s) >= 1
      /\ \A i \in 1 .. Len(s) - 1 : Tail(s)[i] = s[i + 1]
  OBVIOUS
<1>2. ASSUME NEW t \in Seq(Buf) PROVE t = <<>> <=> Len(t) = 0
  OBVIOUS
<1>3. Tail(s) = <<>> <=> Len(Tail(s)) = 0
  BY <1>1, <1>2
<1> QED BY <1>1, <1>3

\* A queue's contents with a buffer added at the end.
LEMMA AppendFacts ==
  ASSUME NEW s \in Seq(Buf), NEW b \in Buf
  PROVE  /\ Append(s, b) \in Seq(Buf) /\ Len(Append(s, b)) = Len(s) + 1
         /\ Len(s) \in Nat /\ Append(s, b) # <<>>
         /\ \A i \in 1 .. Len(s) : Append(s, b)[i] = s[i]
         /\ Append(s, b)[Len(s) + 1] = b
  OBVIOUS

-----------------------------------------------------------------------------
(* The pointer work of net_buf.c on one queue                               *)

\* Represents, with the state as arguments.
Spells(nx, fi, ta, n, s) ==
  /\ n = Len(s)
  /\ s = <<>> => fi = NULL /\ ta = NULL
  /\ s # <<>> => /\ fi = s[1] /\ ta = s[Len(s)] /\ nx[s[Len(s)]] = NULL
                 /\ \A i \in 1 .. Len(s) - 1 : nx[s[i]] = s[i + 1]

\* The model's statement about a queue header (first, tail, total) is Spells
\* of that queue's contents.
LEMMA RepresentsIsSpells ==
  ASSUME NEW q
  PROVE  Represents(q) <=> Spells(next, first[q], tail[q], total[q], order[q])
  BY DEF Represents, Spells

\* Taking the first buffer leaves a queue that spells the others.
LEMMA RemoveSpells ==
  ASSUME NEW s \in Seq(Buf), NEW nx \in [Buf -> Buf \cup {NULL}],
         NEW fi, NEW ta, NEW n, Spells(nx, fi, ta, n, s), fi # NULL
  PROVE  /\ s # <<>> /\ fi = s[1] /\ fi \in Buf
         /\ nx[fi] \in Buf \cup {NULL} /\ ta \in Buf
         /\ Spells(nx, nx[fi], IF nx[fi] = NULL THEN NULL ELSE ta, n - 1, Tail(s))
<1>1. s # <<>> /\ fi = s[1] /\ ta = s[Len(s)] /\ n = Len(s)
  BY DEF Spells
<1>2. Len(s) \in Nat /\ Len(s) >= 1 /\ \A i \in 1 .. Len(s) : s[i] \in Buf
  BY <1>1
<1>3. CASE Len(s) = 1
  <2>1. Tail(s) = <<>> /\ nx[fi] = NULL
    BY <1>1, <1>2, <1>3, TailFacts DEF Spells
  <2> QED BY <1>1, <1>2, <1>3, <2>1, TailFacts DEF Spells
<1>4. CASE Len(s) > 1
  <2>1. nx[fi] = s[2] /\ s[2] # NULL
    BY <1>1, <1>2, <1>4 DEF Spells, Buf, NULL
  <2>2. Tail(s) # <<>> /\ Len(Tail(s)) = Len(s) - 1
    <3>1. Len(Tail(s)) = Len(s) - 1 /\ (Tail(s) = <<>> <=> Len(s) = 1)
      BY <1>1, TailFacts
    <3> QED BY <1>2, <1>4, <3>1
  <2>3. Tail(s)[1] = s[2] /\ Tail(s)[Len(s) - 1] = s[Len(s)]
    BY <1>1, <1>2, <1>4, TailFacts
  <2>4. \A i \in 1 .. Len(s) - 2 : nx[Tail(s)[i]] = Tail(s)[i + 1]
    BY <1>1, <1>2, <1>4, TailFacts DEF Spells
  <2> QED BY <1>1, <1>2, <1>4, <2>1, <2>2, <2>3, <2>4 DEF Spells
<1> QED BY <1>1, <1>2, <1>3, <1>4

\* Appending a buffer that is not on the queue.
LEMMA InsertSpells ==
  ASSUME NEW s \in Seq(Buf), NEW nx \in [Buf -> Buf \cup {NULL}],
         NEW fi, NEW ta, NEW n, Spells(nx, fi, ta, n, s),
         Unrepeated(s), NEW b \in Buf, Absent(b, s)
  PROVE  LET i == Inserted(b, nx, fi, ta)
         IN  /\ Spells(i.nx, i.fi, i.ta, n + 1, Append(s, b))
             /\ i.nx \in [Buf -> Buf \cup {NULL}]
             /\ i.fi \in Buf /\ i.ta = b
<1> DEFINE i == Inserted(b, nx, fi, ta)
           t == Append(s, b)
<1>1. /\ Len(s) \in Nat /\ Len(t) = Len(s) + 1 /\ t[Len(s) + 1] = b /\ t # <<>>
      /\ \A k \in 1 .. Len(s) : t[k] = s[k] /\ s[k] \in Buf
  BY AppendFacts
<1>2. i.nx \in [Buf -> Buf \cup {NULL}] /\ i.ta = b /\ i.nx[b] = NULL
  BY DEF Inserted
<1>3. CASE s = <<>>
  <2>1. ta = NULL /\ i.fi = b
    BY <1>3 DEF Spells, Inserted
  <2> QED BY <1>1, <1>2, <1>3, <2>1 DEF Spells
<1>4. CASE s # <<>>
  <2>1. Len(s) >= 1 /\ ta = s[Len(s)] /\ ta # NULL /\ i.fi = fi /\ fi = s[1]
    BY <1>1, <1>4 DEF Spells, Inserted, Buf, NULL
  <2>2. ASSUME NEW k \in 1 .. Len(s)
        PROVE  i.nx[t[k]] = t[k + 1]
    <3>1. t[k] = s[k] /\ s[k] # b /\ s[k] \in Buf
      BY <1>1 DEF Absent, Elems
    <3>2. CASE k = Len(s)
      BY <1>1, <2>1, <3>1, <3>2 DEF Inserted
    <3>3. CASE k < Len(s)
      <4>1. s[k] # ta
        BY <1>1, <2>1, <3>3 DEF Unrepeated
      <4>2. i.nx[s[k]] = nx[s[k]]
        BY <3>1, <4>1 DEF Inserted
      <4>3. nx[s[k]] = s[k + 1]
        BY <1>1, <1>4, <3>3 DEF Spells
      <4> QED BY <1>1, <3>1, <3>3, <4>2, <4>3
    <3> QED BY <1>1, <3>2, <3>3
  <2>3. t[1] = s[1] /\ i.fi \in Buf
    BY <1>1, <2>1
  <2>4. ASSUME NEW m, NEW f, f = s[1], m = i.nx
        PROVE  Spells(m, f, b, n + 1, t)
    <3> HIDE DEF i, t
    <3> QED BY <1>1, <1>2, <1>4, <2>1, <2>2, <2>3, <2>4 DEF Spells
  <2> QED BY <1>2, <2>1, <2>3, <2>4
<1> QED BY <1>3, <1>4

\* Appending to a queue does not disturb another one.
LEMMA InsertOther ==
  ASSUME NEW s \in Seq(Buf), NEW nx \in [Buf -> Buf \cup {NULL}],
         NEW fi, NEW ta, NEW n, Spells(nx, fi, ta, n, s),
         NEW b \in Buf, Absent(b, s), NEW f2, NEW t2, t2 # NULL => Absent(t2, s)
  PROVE  Spells(Inserted(b, nx, f2, t2).nx, fi, ta, n, s)
<1>1. \A k \in 1 .. Len(s) : Inserted(b, nx, f2, t2).nx[s[k]] = nx[s[k]]
  BY DEF Inserted, Absent, Elems
<1>2. Len(s) \in Nat /\ (s # <<>> => Len(s) >= 1)
  OBVIOUS
<1> QED BY <1>1, <1>2 DEF Spells
-----------------------------------------------------------------------------
(* What the sequences hold                                                  *)

\* net_get_buf's result is the one buffer that the queue loses.
LEMMA TailElems ==
  ASSUME NEW s \in Seq(Buf), s # <<>>, Unrepeated(s)
  PROVE  /\ Unrepeated(Tail(s)) /\ s[1] \in Elems(s)
         /\ Elems(Tail(s)) = Elems(s) \ {s[1]}
<1>1. /\ Len(Tail(s)) = Len(s) - 1 /\ Len(s) \in Nat /\ Len(s) >= 1
      /\ \A i \in 1 .. Len(s) - 1 : Tail(s)[i] = s[i + 1]
  BY TailFacts
<1>2. Unrepeated(Tail(s))
  BY <1>1 DEF Unrepeated
<1>3. ASSUME NEW b \in Elems(s), b # s[1] PROVE b \in Elems(Tail(s))
  <2>1. PICK i \in 1 .. Len(s) : s[i] = b
    BY DEF Elems
  <2>2. i - 1 \in 1 .. Len(Tail(s)) /\ Tail(s)[i - 1] = b
    BY <1>1, <1>3, <2>1
  <2> QED BY <2>2 DEF Elems
<1>4. ASSUME NEW b \in Elems(Tail(s)) PROVE b \in Elems(s) \ {s[1]}
  BY <1>1 DEF Elems, Unrepeated
<1>5. s[1] \in Elems(s)
  BY <1>1 DEF Elems
<1> QED BY <1>2, <1>3, <1>4, <1>5

\* A buffer put at the end of a queue is the one buffer that the queue gains.
LEMMA AppendElems ==
  ASSUME NEW s \in Seq(Buf), NEW b \in Buf, Unrepeated(s), Absent(b, s)
  PROVE  /\ Unrepeated(Append(s, b))
         /\ Elems(Append(s, b)) = Elems(s) \cup {b}
<1>1. /\ Len(Append(s, b)) = Len(s) + 1 /\ Len(s) \in Nat
      /\ \A i \in 1 .. Len(s) : Append(s, b)[i] = s[i]
      /\ Append(s, b)[Len(s) + 1] = b
  BY AppendFacts
<1>2. Unrepeated(Append(s, b))
  BY <1>1 DEF Unrepeated, Absent, Elems
<1>3. ASSUME NEW a \in Elems(s) PROVE a \in Elems(Append(s, b))
  <2>1. PICK i \in 1 .. Len(s) : s[i] = a
    BY DEF Elems
  <2>2. i \in 1 .. Len(Append(s, b)) /\ Append(s, b)[i] = a
    BY <1>1, <2>1
  <2> QED BY <2>2 DEF Elems
<1>4. b \in Elems(Append(s, b))
  BY <1>1 DEF Elems
<1>5. Elems(Append(s, b)) \subseteq Elems(s) \cup {b}
  BY <1>1 DEF Elems
<1> QED BY <1>2, <1>3, <1>4, <1>5

-----------------------------------------------------------------------------
(* The calls of net_buf.c keep both queues sound                            *)

LinksOK ==
  /\ next \in [Buf -> Buf \cup {NULL}]
  /\ first \in [Queue -> Buf \cup {NULL}] /\ tail \in [Queue -> Buf \cup {NULL}]
  /\ total \in [Queue -> Int] /\ order \in [Queue -> Seq(Buf)]
  /\ QueuesSound

\* The tail pointer of a queue is a buffer of it.
LEMMA TailInQueue ==
  ASSUME LinksOK, NEW q \in Queue, tail[q] # NULL
  PROVE  tail[q] \in Elems(order[q])
<1>1. order[q] \in Seq(Buf) /\ Represents(q)
  BY DEF LinksOK, QueuesSound
<1>2. order[q] # <<>> /\ tail[q] = order[q][Len(order[q])]
  BY <1>1 DEF Represents
<1>3. Len(order[q]) \in 1 .. Len(order[q])
  BY <1>1, <1>2
<1> QED BY <1>2, <1>3 DEF Elems

\* net_get_rcvq
LEMMA GetLinks ==
  ASSUME LinksOK, Get("rcv"), first["rcv"] # NULL
  PROVE  /\ order["rcv"] # <<>> /\ first["rcv"] = order["rcv"][1]
         /\ order' = [order EXCEPT !["rcv"] = Tail(@)]
         /\ LinksOK'
<1>0. "rcv" \in Queue /\ "free" \in Queue /\ "free" # "rcv"
  BY DEF Queue
<1>1. /\ \A q \in Queue : order[q] \in Seq(Buf) /\ total[q] \in Int
      /\ \A q \in Queue : Spells(next, first[q], tail[q], total[q], order[q])
  BY RepresentsIsSpells DEF LinksOK, QueuesSound
<1> DEFINE r == Removed("rcv", next, first, tail)
<1>2. /\ order["rcv"] # <<>> /\ first["rcv"] = order["rcv"][1]
      /\ r.fi \in Buf \cup {NULL} /\ r.ta \in Buf \cup {NULL}
      /\ Spells(next, r.fi, r.ta, total["rcv"] - 1, Tail(order["rcv"]))
  <2> DEFINE fi == first["rcv"]  ta == tail["rcv"]  n == total["rcv"]  s == order["rcv"]
  <2>1. s \in Seq(Buf) /\ Spells(next, fi, ta, n, s) /\ fi # NULL
    BY <1>0, <1>1
  <2>2. next \in [Buf -> Buf \cup {NULL}]
    BY DEF LinksOK
  <2>3. r.fi = next[fi] /\ r.ta = IF next[fi] = NULL THEN NULL ELSE ta
    BY DEF Removed
  <2> HIDE DEF fi, ta, n, s
  <2>4. /\ s # <<>> /\ fi = s[1] /\ fi \in Buf
        /\ next[fi] \in Buf \cup {NULL} /\ ta \in Buf
        /\ Spells(next, next[fi], IF next[fi] = NULL THEN NULL ELSE ta, n - 1, Tail(s))
    BY <2>1, <2>2, RemoveSpells
  <2> QED BY <2>3, <2>4 DEF fi, ta, n, s
<1>3. Tail(order["rcv"]) \in Seq(Buf)
  BY <1>0, <1>1, <1>2, TailFacts
<1>4. /\ first' = [first EXCEPT !["rcv"] = r.fi] /\ tail' = [tail EXCEPT !["rcv"] = r.ta]
      /\ total' = [total EXCEPT !["rcv"] = @ - 1] /\ next' = next
      /\ order' = [order EXCEPT !["rcv"] = Tail(@)]
  BY DEF Get
<1> HIDE DEF r
<1>5. \A q \in Queue : Represents(q)'
  <2>1. ASSUME NEW q \in Queue PROVE Spells(next', first'[q], tail'[q], total'[q], order'[q])
    BY <1>0, <1>1, <1>2, <1>4 DEF LinksOK, Queue
  <2> QED BY <2>1 DEF Represents, Spells
<1> QED BY <1>0, <1>1, <1>2, <1>3, <1>4, <1>5 DEF LinksOK, QueuesSound

\* net_free_buf
LEMMA GiveLinks ==
  ASSUME LinksOK, QueuesApart, NEW b \in Buf, \A q \in Queue : Absent(b, order[q]),
         Give("free", b)
  PROVE  /\ order' = [order EXCEPT !["free"] = Append(@, b)]
         /\ LinksOK'
<1>0. "rcv" \in Queue /\ "free" \in Queue /\ "free" # "rcv"
  BY DEF Queue
<1>1. /\ \A q \in Queue : order[q] \in Seq(Buf) /\ total[q] \in Int
      /\ \A q \in Queue : Spells(next, first[q], tail[q], total[q], order[q])
  BY RepresentsIsSpells DEF LinksOK, QueuesSound
<1> DEFINE i == Inserted(b, next, first["free"], tail["free"])
<1>2. /\ Spells(i.nx, i.fi, i.ta, total["free"] + 1, Append(order["free"], b))
      /\ i.nx \in [Buf -> Buf \cup {NULL}] /\ i.fi \in Buf /\ i.ta = b
  <2> DEFINE fi == first["free"]  ta == tail["free"]  n == total["free"]  s == order["free"]
  <2>1. s \in Seq(Buf) /\ Spells(next, fi, ta, n, s) /\ Unrepeated(s) /\ Absent(b, s)
    BY <1>0, <1>1 DEF QueuesApart
  <2>2. next \in [Buf -> Buf \cup {NULL}]
    BY DEF LinksOK
  <2> HIDE DEF fi, ta, n, s
  <2> QED BY <2>1, <2>2, InsertSpells DEF fi, ta, n, s
<1>3. tail["free"] # NULL => Absent(tail["free"], order["rcv"])
  BY <1>0, TailInQueue DEF QueuesApart, Absent
<1>4. Spells(i.nx, first["rcv"], tail["rcv"], total["rcv"], order["rcv"])
  BY <1>0, <1>1, <1>3, InsertOther DEF LinksOK
<1>5. Append(order["free"], b) \in Seq(Buf)
  BY <1>0, <1>1, AppendFacts
<1>6. /\ first' = [first EXCEPT !["free"] = i.fi] /\ tail' = [tail EXCEPT !["free"] = i.ta]
      /\ total' = [total EXCEPT !["free"] = @ + 1] /\ next' = i.nx
      /\ order' = [order EXCEPT !["free"] = Append(@, b)]
  BY DEF Give
<1> HIDE DEF i
<1>7. \A q \in Queue : Represents(q)'
  <2>1. ASSUME NEW q \in Queue PROVE Spells(next', first'[q], tail'[q], total'[q], order'[q])
    BY <1>0, <1>1, <1>2, <1>4, <1>6 DEF LinksOK, Queue
  <2> QED BY <2>1 DEF Represents, Spells
<1> QED BY <1>0, <1>1, <1>2, <1>5, <1>6, <1>7 DEF LinksOK, QueuesSound

\* net_alloc_buf, then net_free_buf (a frame sent) or net_put_rcvq (a frame
\* received).
LEMMA MoveLinks ==
  ASSUME LinksOK, QueuesApart, first["free"] # NULL,
         NEW q \in Queue, Move("free", q)
  PROVE  /\ order["free"] # <<>>
         /\ order' = [[order EXCEPT !["free"] = Tail(@)]
                         EXCEPT ![q] = Append(@, order["free"][1])]
         /\ LinksOK'
<1>0. "rcv" \in Queue /\ "free" \in Queue /\ "free" # "rcv"
  BY DEF Queue
<1>1. /\ \A p \in Queue : order[p] \in Seq(Buf) /\ total[p] \in Int
      /\ \A p \in Queue : Spells(next, first[p], tail[p], total[p], order[p])
  BY RepresentsIsSpells DEF LinksOK, QueuesSound
<1> DEFINE b  == first["free"]
           r  == Removed("free", next, first, tail)
           f1 == [first EXCEPT !["free"] = r.fi]
           t1 == [tail EXCEPT !["free"] = r.ta]
           o1 == [order EXCEPT !["free"] = Tail(@)]
           n1 == [total EXCEPT !["free"] = @ - 1]
           i  == Inserted(b, next, f1[q], t1[q])
<1>2. /\ order["free"] # <<>> /\ b = order["free"][1] /\ b \in Buf
      /\ r.fi \in Buf \cup {NULL} /\ r.ta \in Buf \cup {NULL}
      /\ Spells(next, r.fi, r.ta, total["free"] - 1, Tail(order["free"]))
  <2> DEFINE fi == first["free"]  ta == tail["free"]  n == total["free"]  s == order["free"]
  <2>1. s \in Seq(Buf) /\ Spells(next, fi, ta, n, s) /\ fi # NULL
    BY <1>0, <1>1
  <2>2. next \in [Buf -> Buf \cup {NULL}]
    BY DEF LinksOK
  <2>3. r.fi = next[fi] /\ r.ta = IF next[fi] = NULL THEN NULL ELSE ta
    BY DEF Removed
  <2> HIDE DEF fi, ta, n, s
  <2>4. /\ s # <<>> /\ fi = s[1] /\ fi \in Buf
        /\ next[fi] \in Buf \cup {NULL} /\ ta \in Buf
        /\ Spells(next, next[fi], IF next[fi] = NULL THEN NULL ELSE ta, n - 1, Tail(s))
    BY <2>1, <2>2, RemoveSpells
  <2> QED BY <2>3, <2>4 DEF fi, ta, n, s
<1>3. /\ first' = [f1 EXCEPT ![q] = i.fi] /\ tail' = [t1 EXCEPT ![q] = i.ta]
      /\ total' = [n1 EXCEPT ![q] = @ + 1] /\ next' = i.nx
      /\ order' = [o1 EXCEPT ![q] = Append(@, b)]
  BY DEF Move
<1> HIDE DEF r
<1>4. /\ f1 \in [Queue -> Buf \cup {NULL}] /\ t1 \in [Queue -> Buf \cup {NULL}]
      /\ o1 \in [Queue -> Seq(Buf)] /\ n1 \in [Queue -> Int]
      /\ \A p \in Queue : Spells(next, f1[p], t1[p], n1[p], o1[p])
  BY <1>0, <1>1, <1>2, TailFacts DEF LinksOK, Queue
<1>5. /\ \A p \in Queue : Unrepeated(o1[p]) /\ Absent(b, o1[p])
      /\ Elems(o1["free"]) \cap Elems(o1["rcv"]) = {}
  BY <1>0, <1>1, <1>2, TailElems DEF LinksOK, QueuesApart, Queue, Absent
<1> HIDE DEF f1, t1, o1, n1, b
<1>6. ASSUME NEW p \in Queue, t1[p] # NULL PROVE t1[p] \in Elems(o1[p])
  <2>1. o1[p] \in Seq(Buf) /\ o1[p] # <<>> /\ t1[p] = o1[p][Len(o1[p])]
    BY <1>4, <1>6 DEF Spells
  <2>2. Len(o1[p]) \in 1 .. Len(o1[p])
    BY <2>1
  <2> QED BY <2>1, <2>2 DEF Elems
<1>7. /\ Spells(i.nx, i.fi, i.ta, n1[q] + 1, Append(o1[q], b))
      /\ i.nx \in [Buf -> Buf \cup {NULL}] /\ i.fi \in Buf /\ i.ta = b
  <2> DEFINE fi == f1[q]  ta == t1[q]  n == n1[q]  s == o1[q]
  <2>1. s \in Seq(Buf) /\ Spells(next, fi, ta, n, s) /\ Unrepeated(s) /\ Absent(b, s)
    BY <1>4, <1>5
  <2>2. next \in [Buf -> Buf \cup {NULL}]
    BY DEF LinksOK
  <2> HIDE DEF fi, ta, n, s
  <2> QED BY <1>2, <2>1, <2>2, InsertSpells DEF fi, ta, n, s
<1>8. ASSUME NEW p \in Queue, p # q
      PROVE  Spells(i.nx, f1[p], t1[p], n1[p], o1[p])
  <2>1. t1[q] # NULL => Absent(t1[q], o1[p])
    BY <1>5, <1>6, <1>8 DEF Queue, Absent
  <2> QED BY <1>2, <1>4, <1>5, <2>1, InsertOther DEF LinksOK
<1>9. Append(o1[q], b) \in Seq(Buf)
  BY <1>2, <1>4, AppendFacts
<1> HIDE DEF i
<1>10. \A p \in Queue : Represents(p)'
  <2>1. ASSUME NEW p \in Queue PROVE Spells(next', first'[p], tail'[p], total'[p], order'[p])
    BY <1>3, <1>4, <1>7, <1>8
  <2> QED BY <2>1 DEF Represents, Spells
<1>11. LinksOK'
  BY <1>2, <1>3, <1>4, <1>7, <1>9, <1>10 DEF LinksOK, QueuesSound
<1> QED BY <1>2, <1>3, <1>11 DEF o1

-----------------------------------------------------------------------------
(* What they do to the sets of queued buffers                               *)

\* Lengths and contents of the queues after a call, unrepeated as before.
QueuesBecome(nf, F, nr, R) ==
  /\ LinksOK'
  /\ \A q \in Queue : Unrepeated(order'[q])
  /\ Len(order'["free"]) = nf /\ Elems(order'["free"]) = F
  /\ Len(order'["rcv"]) = nr /\ Elems(order'["rcv"]) = R

\* The lengths of the two queues are numbers.
LEMMA LengthsNat ==
  ASSUME LinksOK
  PROVE  Len(order["free"]) \in Nat /\ Len(order["rcv"]) \in Nat
<1>1. order["free"] \in Seq(Buf) /\ order["rcv"] \in Seq(Buf)
  BY DEF LinksOK, Queue
<1> QED BY <1>1

\* Sending takes the first free buffer and frees it again: the free list keeps
\* its members, the receive queue is not touched.
LEMMA SendEffect ==
  ASSUME LinksOK, QueuesApart, Send
  PROVE  /\ QueuesBecome(Len(order["free"]), Elems(order["free"]),
                         Len(order["rcv"]), Elems(order["rcv"]))
         /\ order'["rcv"] = order["rcv"]
<1>0. "rcv" \in Queue /\ "free" \in Queue /\ "free" # "rcv" /\ Queue = {"free", "rcv"}
  BY DEF Queue
<1>1. first["free"] # NULL /\ Move("free", "free")
  BY DEF Send
<1>2. /\ order["free"] # <<>> /\ LinksOK'
      /\ order' = [[order EXCEPT !["free"] = Tail(@)]
                      EXCEPT !["free"] = Append(@, order["free"][1])]
  BY <1>0, <1>1, MoveLinks
<1>3. order["free"] \in Seq(Buf) /\ order["rcv"] \in Seq(Buf) /\ order \in [Queue -> Seq(Buf)]
  BY <1>0 DEF LinksOK
<1> DEFINE s == order["free"]
<1>4. order'["free"] = Append(Tail(s), s[1]) /\ order'["rcv"] = order["rcv"]
  BY <1>0, <1>2, <1>3
<1>5. s \in Seq(Buf) /\ s # <<>> /\ Unrepeated(s) /\ s[1] \in Buf
  BY <1>0, <1>2, <1>3 DEF QueuesApart
<1> HIDE DEF s
<1>6. /\ Tail(s) \in Seq(Buf) /\ Len(Tail(s)) = Len(s) - 1 /\ Len(s) \in Nat
      /\ Unrepeated(Tail(s)) /\ s[1] \in Elems(s) /\ Elems(Tail(s)) = Elems(s) \ {s[1]}
  BY <1>5, TailFacts, TailElems
<1>7. /\ Len(Append(Tail(s), s[1])) = Len(s)
      /\ Unrepeated(Append(Tail(s), s[1])) /\ Elems(Append(Tail(s), s[1])) = Elems(s)
  <2>1. Absent(s[1], Tail(s))
    BY <1>6 DEF Absent
  <2>2. Len(Append(Tail(s), s[1])) = Len(Tail(s)) + 1
    BY <1>5, <1>6, AppendFacts
  <2>3. /\ Unrepeated(Append(Tail(s), s[1]))
        /\ Elems(Append(Tail(s), s[1])) = Elems(Tail(s)) \cup {s[1]}
    BY <1>5, <1>6, <2>1, AppendElems
  <2> QED BY <1>6, <2>2, <2>3
<1> QED BY <1>0, <1>2, <1>4, <1>7 DEF s, QueuesBecome, QueuesApart

\* enet_input moves the first free buffer to the end of the receive queue.
LEMMA InputEffect ==
  ASSUME LinksOK, QueuesApart, first["free"] # NULL, Move("free", "rcv")
  PROVE  LET b == order["free"][1]
         IN  /\ b \in Elems(order["free"])
             /\ QueuesBecome(Len(order["free"]) - 1, Elems(order["free"]) \ {b},
                             Len(order["rcv"]) + 1, Elems(order["rcv"]) \cup {b})
<1>0. "rcv" \in Queue /\ "free" \in Queue /\ "free" # "rcv" /\ Queue = {"free", "rcv"}
  BY DEF Queue
<1>2. /\ order["free"] # <<>> /\ LinksOK'
      /\ order' = [[order EXCEPT !["free"] = Tail(@)]
                      EXCEPT !["rcv"] = Append(@, order["free"][1])]
  BY <1>0, MoveLinks
<1>3. order["free"] \in Seq(Buf) /\ order["rcv"] \in Seq(Buf) /\ order \in [Queue -> Seq(Buf)]
  BY <1>0 DEF LinksOK
<1> DEFINE s == order["free"]
           t == order["rcv"]
<1>4. order'["free"] = Tail(s) /\ order'["rcv"] = Append(t, s[1])
  BY <1>0, <1>2, <1>3
<1>5. /\ s \in Seq(Buf) /\ s # <<>> /\ Unrepeated(s) /\ s[1] \in Buf
      /\ t \in Seq(Buf) /\ Unrepeated(t) /\ Elems(s) \cap Elems(t) = {}
  BY <1>0, <1>2, <1>3 DEF QueuesApart
<1> HIDE DEF s, t
<1>6. /\ Len(Tail(s)) = Len(s) - 1
      /\ Unrepeated(Tail(s)) /\ s[1] \in Elems(s) /\ Elems(Tail(s)) = Elems(s) \ {s[1]}
  BY <1>5, TailFacts, TailElems
<1>7. /\ Len(Append(t, s[1])) = Len(t) + 1
      /\ Unrepeated(Append(t, s[1])) /\ Elems(Append(t, s[1])) = Elems(t) \cup {s[1]}
  BY <1>5, <1>6, AppendFacts, AppendElems DEF Absent
<1> QED BY <1>0, <1>2, <1>4, <1>6, <1>7 DEF s, t, QueuesBecome

\* The polling loop takes the first buffer of the receive queue.
LEMMA GetEffect ==
  ASSUME LinksOK, QueuesApart, first["rcv"] # NULL, Get("rcv")
  PROVE  /\ first["rcv"] \in Elems(order["rcv"]) /\ first["rcv"] \in Buf
         /\ QueuesBecome(Len(order["free"]), Elems(order["free"]),
                         Len(order["rcv"]) - 1, Elems(order["rcv"]) \ {first["rcv"]})
<1>0. "rcv" \in Queue /\ "free" \in Queue /\ "free" # "rcv" /\ Queue = {"free", "rcv"}
  BY DEF Queue
<1>2. /\ order["rcv"] # <<>> /\ first["rcv"] = order["rcv"][1] /\ LinksOK'
      /\ order' = [order EXCEPT !["rcv"] = Tail(@)]
  BY GetLinks
<1>3. order["free"] \in Seq(Buf) /\ order["rcv"] \in Seq(Buf) /\ order \in [Queue -> Seq(Buf)]
  BY <1>0 DEF LinksOK
<1> DEFINE t == order["rcv"]
<1>4. order'["free"] = order["free"] /\ order'["rcv"] = Tail(t)
  BY <1>0, <1>2, <1>3
<1>5. t \in Seq(Buf) /\ t # <<>> /\ Unrepeated(t)
  BY <1>0, <1>2, <1>3 DEF QueuesApart
<1> HIDE DEF t
<1>6. /\ Len(Tail(t)) = Len(t) - 1
      /\ Unrepeated(Tail(t)) /\ t[1] \in Elems(t) /\ Elems(Tail(t)) = Elems(t) \ {t[1]}
  BY <1>5, TailFacts, TailElems
<1>7. t[1] \in Buf
  BY <1>5
<1> QED BY <1>0, <1>2, <1>4, <1>6, <1>7 DEF t, QueuesBecome, QueuesApart

\* net_free_buf of a buffer that is on no queue gives it to the free list.
LEMMA GiveEffect ==
  ASSUME LinksOK, QueuesApart, NEW b \in Buf, \A q \in Queue : Absent(b, order[q]),
         Give("free", b)
  PROVE  QueuesBecome(Len(order["free"]) + 1, Elems(order["free"]) \cup {b},
                      Len(order["rcv"]), Elems(order["rcv"]))
<1>0. "rcv" \in Queue /\ "free" \in Queue /\ "free" # "rcv" /\ Queue = {"free", "rcv"}
  BY DEF Queue
<1>2. LinksOK' /\ order' = [order EXCEPT !["free"] = Append(@, b)]
  BY GiveLinks
<1>3. order["free"] \in Seq(Buf) /\ order["rcv"] \in Seq(Buf) /\ order \in [Queue -> Seq(Buf)]
  BY <1>0 DEF LinksOK
<1> DEFINE s == order["free"]
<1>4. order'["free"] = Append(s, b) /\ order'["rcv"] = order["rcv"]
  BY <1>0, <1>2, <1>3
<1>5. s \in Seq(Buf) /\ Unrepeated(s) /\ Absent(b, s)
  BY <1>0, <1>3 DEF QueuesApart
<1> HIDE DEF s
<1>6. /\ Len(Append(s, b)) = Len(s) + 1
      /\ Unrepeated(Append(s, b)) /\ Elems(Append(s, b)) = Elems(s) \cup {b}
  BY <1>5, AppendFacts, AppendElems
<1> QED BY <1>0, <1>2, <1>4, <1>6 DEF s, QueuesBecome, QueuesApart

-----------------------------------------------------------------------------
(* The stack of calls                                                       *)

Holding == {i \in 1 .. Len(calls) : calls[i].buf # NULL}

\* OneOwner, counted and covered.
NumQueued(q) == Len(order[q])
NumLost == Cardinality(lost)
NumHeld == Cardinality(Holding)
Counted == NumQueued("free") + NumQueued("rcv") + NumLost + NumHeld = NET_BUF_NUM
Covered == Elems(order["free"]) \cup Elems(order["rcv"]) \cup lost \cup Held = Buf

\* OneOwner in two parts: the numbers add up, and every buffer is somewhere.
LEMMA OwnerParts == OneOwner <=> Counted /\ Covered
  BY DEF OneOwner, Counted, NumQueued, NumLost, NumHeld, Covered, Holding, Queued, Elems

\* While a call is active, the innermost one is a proper call record.
LEMMA TopFacts ==
  ASSUME TypeOK, calls # <<>>
  PROVE  /\ Len(calls) \in Nat /\ Len(calls) >= 1 /\ Len(calls) \in 1 .. Len(calls)
         /\ \A i \in 1 .. Len(calls) : calls[i] \in Call
         /\ top = calls[Len(calls)] /\ top \in Call
<1>1. calls \in Seq(Call)
  BY DEF TypeOK
<1> QED BY <1>1 DEF top

\* A call that goes on changes only itself.
LEMMA GotoFacts ==
  ASSUME TypeOK, calls # <<>>, NEW c \in Call, Goto(c)
  PROVE  /\ calls' \in Seq(Call) /\ Len(calls') = Len(calls) /\ calls' # <<>>
         /\ \A i \in 1 .. Len(calls) :
              calls'[i] = IF i = Len(calls) THEN c ELSE calls[i]
<1>1. calls \in Seq(Call) /\ calls' = [calls EXCEPT ![Len(calls)] = c]
  BY DEF TypeOK, Goto
<1> QED BY <1>1

\* The buffers of the calls, for a step that changes none of them.
LEMMA SameBufs ==
  ASSUME Len(calls') = Len(calls),
         \A i \in 1 .. Len(calls) : calls'[i].buf = calls[i].buf
  PROVE  Held' = Held /\ Holding' = Holding
  BY DEF Held, Holding

\* Sets of the invariant are finite.
LEMMA CountsNat ==
  ASSUME TypeOK
  PROVE  /\ IsFiniteSet(lost) /\ Cardinality(lost) \in Nat
         /\ IsFiniteSet(Holding) /\ Cardinality(Holding) \in Nat
<1>1. IsFiniteSet(Buf)
  BY NetBufAssumption, FS_Interval DEF Buf
<1>2. IsFiniteSet(lost)
  BY <1>1, FS_Subset DEF TypeOK
<1>3. Len(calls) \in Nat
  BY DEF TypeOK
<1>4. IsFiniteSet(1 .. Len(calls))
  BY <1>3, FS_Interval
<1>5. IsFiniteSet(Holding)
  BY <1>4, FS_Subset DEF Holding
<1> QED BY <1>2, <1>5, FS_CardinalityType

\* What is counted are numbers.
LEMMA NumsNat ==
  ASSUME TypeOK, LinksOK
  PROVE  NumQueued("free") \in Nat /\ NumQueued("rcv") \in Nat /\ NumLost \in Nat /\ NumHeld \in Nat
  BY LengthsNat, CountsNat DEF NumQueued, NumLost, NumHeld

-----------------------------------------------------------------------------
(* Every action keeps the invariant                                         *)

\* The invariant, taken apart.
LEMMA InvParts == IInv <=> /\ LinksOK /\ lost \subseteq Buf /\ calls \in Seq(Call)
                          /\ QueuesApart /\ CallsApart /\ Counted /\ Covered
                          /\ PollDrains
  BY OwnerParts DEF IInv, LinksOK, TypeOK

\* The invariant after a step, put together from its parts.
LEMMA Assemble ==
  ASSUME LinksOK', lost' \subseteq Buf, calls' \in Seq(Call),
         QueuesApart', CallsApart', Counted', Covered', PollDrains'
  PROVE  IInv'
<1>1. OneOwner'
  BY DEF OneOwner, Counted, NumQueued, NumLost, NumHeld, Covered, Holding, Queued, Elems
<1>2. TypeOK' /\ QueuesSound'
  BY DEF LinksOK, TypeOK
<1> QED BY <1>1, <1>2 DEF IInv

\* Updates of a call that leave its buffer.
LEMMA CallUpdate ==
  ASSUME NEW c \in Call, NEW a \in {"deliver", "loop", "handle", "arp"},
         NEW n \in 0 .. ArpTries + Burst
  PROVE  LET d == [c EXCEPT !.at = a, !.left = n]
         IN  d \in Call /\ d.buf = c.buf /\ d.at = a
  BY DEF Call

\* A call that counts down keeps its buffer and its place.
LEMMA LeftUpdate ==
  ASSUME NEW c \in Call, NEW n \in 0 .. ArpTries + Burst
  PROVE  LET d == [c EXCEPT !.left = n]
         IN  d \in Call /\ d.buf = c.buf /\ d.at = c.at
  BY DEF Call

\* NULL is not a buffer.
LEMMA NullNowhere ==
  ASSUME LinksOK, lost \subseteq Buf
  PROVE  NULL \notin lost /\ \A q \in Queue : Absent(NULL, order[q])
<1>1. ASSUME NEW q \in Queue PROVE Absent(NULL, order[q])
  <2>1. order[q] \in Seq(Buf)
    BY DEF LinksOK
  <2>2. \A i \in 1 .. Len(order[q]) : order[q][i] \in Buf
    BY <2>1
  <2>3. NULL \notin Buf
    BY DEF NULL, Buf
  <2> QED BY <2>2, <2>3 DEF Absent, Elems
<1> QED BY <1>1 DEF Buf, NULL

\* A step after which every buffer is where it was.
LEMMA Quiet ==
  ASSUME IInv,
         QueuesBecome(Len(order["free"]), Elems(order["free"]),
                      Len(order["rcv"]), Elems(order["rcv"])),
         lost' = lost, calls' \in Seq(Call), Len(calls') = Len(calls),
         \A i \in 1 .. Len(calls) :
            /\ calls'[i].buf = calls[i].buf
            /\ calls'[i].at \in {"deliver", "loop"} <=> calls[i].at \in {"deliver", "loop"},
         PollDrains'
  PROVE  IInv'
<1>1. Held' = Held /\ Holding' = Holding
  BY SameBufs
<1>2. Counted' /\ Covered'
  BY <1>1, InvParts DEF Counted, NumQueued, NumLost, NumHeld, Covered, QueuesBecome
<1>3. QueuesApart'
  BY InvParts DEF QueuesApart, QueuesBecome, Queue
<1>4. CallsApart'
  BY InvParts DEF CallsApart, QueuesBecome, Queue, Absent
<1> QED BY <1>2, <1>3, <1>4, InvParts, Assemble DEF QueuesBecome

\* A step that leaves the queue headers and links alone leaves the queues alone.
LEMMA LinksUnchanged ==
  ASSUME IInv, UNCHANGED links
  PROVE  /\ order' = order
         /\ QueuesBecome(Len(order["free"]), Elems(order["free"]),
                         Len(order["rcv"]), Elems(order["rcv"]))
<1>1. LinksOK /\ QueuesApart
  BY InvParts
<1>2. next' = next /\ first' = first /\ tail' = tail /\ total' = total /\ order' = order
  BY DEF links
<1>3. LinksOK'
  BY <1>1, <1>2 DEF LinksOK, QueuesSound, Represents
<1> QED BY <1>1, <1>2, <1>3 DEF QueuesBecome, QueuesApart

\* A packet of the program or of a handler: a buffer taken and freed at once.
LEMMA StepSend ==
  ASSUME IInv, AppSend \/ TcpSend
  PROVE  IInv'
<1>1. Send /\ lost' = lost /\ calls' = calls
  BY DEF AppSend, TcpSend
<1>2. calls \in Seq(Call) /\ PollDrains
  BY InvParts
<1>3. /\ order'["rcv"] = order["rcv"]
      /\ QueuesBecome(Len(order["free"]), Elems(order["free"]),
                      Len(order["rcv"]), Elems(order["rcv"]))
  BY <1>1, InvParts, SendEffect
<1>4. PollDrains'
  BY <1>1, <1>2, <1>3 DEF PollDrains
<1> QED BY <1>1, <1>2, <1>3, <1>4, Quiet

\* enet_poll begins: a call that holds nothing is pushed.
LEMMA StepPoll ==
  ASSUME IInv, Poll
  PROVE  IInv'
<1> DEFINE c == [at |-> "deliver", buf |-> NULL, left |-> Burst]
<1>1. calls' = Append(calls, c) /\ lost' = lost /\ UNCHANGED links /\ c \in Call
  BY NetBufAssumption DEF Poll, Call
<1>2. /\ calls \in Seq(Call) /\ CallsApart /\ Counted /\ Covered
      /\ lost \subseteq Buf /\ QueuesApart
  BY InvParts
<1>3. /\ calls' \in Seq(Call) /\ Len(calls') = Len(calls) + 1 /\ Len(calls) \in Nat
      /\ calls' # <<>> /\ calls'[Len(calls) + 1].buf = NULL
      /\ calls'[Len(calls) + 1].at = "deliver"
      /\ \A i \in 1 .. Len(calls) : calls'[i] = calls[i]
  <2> HIDE DEF c
  <2>1. /\ calls' \in Seq(Call) /\ Len(calls') = Len(calls) + 1 /\ Len(calls) \in Nat
        /\ calls' # <<>> /\ calls'[Len(calls) + 1] = c
        /\ \A i \in 1 .. Len(calls) : calls'[i] = calls[i]
    BY <1>1, <1>2
  <2> QED BY <2>1 DEF c
<1>4. /\ order' = order
      /\ QueuesBecome(Len(order["free"]), Elems(order["free"]),
                      Len(order["rcv"]), Elems(order["rcv"]))
  BY <1>1, LinksUnchanged
<1>5. Held' = Held
  <2>1. ASSUME NEW b \in Held' PROVE b \in Held
    BY <1>3 DEF Held
  <2>2. ASSUME NEW b \in Held PROVE b \in Held'
    <3>1. PICK i \in 1 .. Len(calls) : b = calls[i].buf /\ b # NULL
      BY DEF Held
    <3>2. i \in 1 .. Len(calls') /\ calls'[i].buf = b
      BY <1>3, <3>1
    <3> QED BY <3>1, <3>2 DEF Held
  <2> QED BY <2>1, <2>2
<1>6. Holding' = Holding
  BY <1>3 DEF Holding
<1>7. Counted' /\ Covered'
  BY <1>2, <1>1, <1>4, <1>5, <1>6 DEF Counted, NumQueued, NumLost, NumHeld, Covered, QueuesBecome
<1>8. CallsApart'
  <2>1. ASSUME NEW i \in 1 .. Len(calls')
        PROVE  i \in 1 .. Len(calls) \/ i = Len(calls) + 1
    BY <1>3
  <2>2. NULL \notin lost /\ \A q \in Queue : Absent(NULL, order[q])
    BY InvParts, NullNowhere
  <2>3. \A i \in 1 .. Len(calls') :
          /\ calls'[i].buf = NULL <=> calls'[i].at \in {"deliver", "loop"}
          /\ calls'[i].buf \notin lost
          /\ \A q \in Queue : Absent(calls'[i].buf, order[q])
    BY <1>2, <1>3, <2>1, <2>2 DEF CallsApart
  <2>4. \A i, j \in 1 .. Len(calls') :
          calls'[i].buf = calls'[j].buf /\ calls'[i].buf # NULL => i = j
    BY <1>2, <1>3, <2>1 DEF CallsApart
  <2> QED BY <1>1, <1>4, <2>3, <2>4 DEF CallsApart
<1>9. QueuesApart' /\ PollDrains'
  BY <1>1, <1>2, <1>3, <1>4 DEF QueuesApart, PollDrains
<1> QED BY <1>1, <1>2, <1>3, <1>4, <1>7, <1>8, <1>9, Assemble DEF QueuesBecome

\* The driver has no more frames for this poll.
LEMMA StepDeliverEnd ==
  ASSUME IInv, DeliverEnd
  PROVE  IInv'
<1> DEFINE c == [top EXCEPT !.at = "loop", !.left = 0]
<1>1. calls # <<>> /\ top.at = "deliver" /\ Goto(c) /\ UNCHANGED links /\ lost' = lost
  BY DEF DeliverEnd, In
<1>2. TypeOK
  BY DEF IInv
<1>3. top \in Call /\ top = calls[Len(calls)]
  BY <1>1, <1>2, TopFacts
<1>4. c \in Call /\ c.buf = top.buf /\ c.at = "loop"
  <2>1. 0 \in 0 .. ArpTries + Burst
    BY NetBufAssumption
  <2> QED BY <1>3, <2>1, CallUpdate
<1> HIDE DEF c
<1>5. /\ calls' \in Seq(Call) /\ Len(calls') = Len(calls) /\ calls' # <<>>
      /\ \A i \in 1 .. Len(calls) : calls'[i] = IF i = Len(calls) THEN c ELSE calls[i]
  BY <1>1, <1>2, <1>4, GotoFacts
<1>6. QueuesBecome(Len(order["free"]), Elems(order["free"]),
                   Len(order["rcv"]), Elems(order["rcv"]))
  BY <1>1, LinksUnchanged
<1>7. PollDrains'
  BY <1>5 DEF PollDrains
<1> QED BY <1>1, <1>3, <1>4, <1>5, <1>6, <1>7, Quiet

\* arp_request gives up, or has its answer: the handler goes on.
LEMMA StepArpEnd ==
  ASSUME IInv, ArpEnd
  PROVE  IInv'
<1> DEFINE c == [top EXCEPT !.at = "handle", !.left = 0]
<1>1. calls # <<>> /\ top.at = "arp" /\ Goto(c) /\ UNCHANGED links /\ lost' = lost
  BY DEF ArpEnd, In
<1>2. TypeOK
  BY DEF IInv
<1>3. top \in Call /\ top = calls[Len(calls)]
  BY <1>1, <1>2, TopFacts
<1>4. c \in Call /\ c.buf = top.buf /\ c.at = "handle"
  <2>1. 0 \in 0 .. ArpTries + Burst
    BY NetBufAssumption
  <2> QED BY <1>3, <2>1, CallUpdate
<1> HIDE DEF c
<1>5. /\ calls' \in Seq(Call) /\ Len(calls') = Len(calls) /\ calls' # <<>>
      /\ \A i \in 1 .. Len(calls) : calls'[i] = IF i = Len(calls) THEN c ELSE calls[i]
  BY <1>1, <1>2, <1>4, GotoFacts
<1>6. QueuesBecome(Len(order["free"]), Elems(order["free"]),
                   Len(order["rcv"]), Elems(order["rcv"]))
  BY <1>1, LinksUnchanged
<1>7. PollDrains'
  BY <1>5 DEF PollDrains
<1> QED BY <1>1, <1>3, <1>4, <1>5, <1>6, <1>7, Quiet

\* arp_request polls once more.
LEMMA StepArpTry ==
  ASSUME IInv, ArpTry
  PROVE  IInv'
<1> DEFINE c == [top EXCEPT !.at = "arp",
                            !.left = IF @ = 0 THEN ArpTries - 1 ELSE @ - 1]
<1>1. /\ calls # <<>> /\ top.at \in {"handle", "arp"} /\ Goto(c) /\ Send /\ lost' = lost
  BY DEF ArpTry, In
<1>2. TypeOK
  BY DEF IInv
<1>3. top \in Call /\ top = calls[Len(calls)]
  BY <1>1, <1>2, TopFacts
<1>4. c \in Call /\ c.buf = top.buf /\ c.at = "arp"
  <2> DEFINE n == IF top.left = 0 THEN ArpTries - 1 ELSE top.left - 1
  <2>1. top.left \in 0 .. ArpTries + Burst
    BY <1>3 DEF Call
  <2>2. n \in 0 .. ArpTries + Burst /\ c = [top EXCEPT !.at = "arp", !.left = n]
    BY <2>1, NetBufAssumption
  <2> HIDE DEF c, n
  <2> QED BY <1>3, <2>2, CallUpdate
<1> HIDE DEF c
<1>5. /\ calls' \in Seq(Call) /\ Len(calls') = Len(calls) /\ calls' # <<>>
      /\ \A i \in 1 .. Len(calls) : calls'[i] = IF i = Len(calls) THEN c ELSE calls[i]
  BY <1>1, <1>2, <1>4, GotoFacts
<1>6. QueuesBecome(Len(order["free"]), Elems(order["free"]),
                   Len(order["rcv"]), Elems(order["rcv"]))
  BY <1>1, InvParts, SendEffect
<1>7. PollDrains'
  BY <1>5 DEF PollDrains
<1> QED BY <1>1, <1>3, <1>4, <1>5, <1>6, <1>7, Quiet

\* The driver hands a frame in: with no free buffer it is dropped.
LEMMA StepEnetInput ==
  ASSUME IInv, EnetInput
  PROVE  IInv'
<1> DEFINE c == [top EXCEPT !.left = @ - 1]
<1>1. calls # <<>> /\ top.at = "deliver" /\ top.left > 0 /\ Goto(c) /\ lost' = lost
  BY DEF EnetInput, In
<1>2. TypeOK /\ LinksOK /\ QueuesApart /\ CallsApart /\ Counted /\ Covered /\ lost \subseteq Buf
  BY InvParts DEF IInv
<1>3. top \in Call /\ top = calls[Len(calls)]
  BY <1>1, <1>2, TopFacts
<1>4. c \in Call /\ c.buf = top.buf /\ c.at = top.at
  <2>1. top.left \in 0 .. ArpTries + Burst /\ top.at \in {"deliver", "loop", "handle", "arp"}
    BY <1>3 DEF Call
  <2>2. top.left - 1 \in 0 .. ArpTries + Burst
    BY <1>1, <2>1, NetBufAssumption
  <2>3. c = [top EXCEPT !.left = top.left - 1]
    OBVIOUS
  <2> HIDE DEF c
  <2> QED BY <1>3, <2>2, <2>3, LeftUpdate
<1> HIDE DEF c
<1>5. /\ calls' \in Seq(Call) /\ Len(calls') = Len(calls) /\ calls' # <<>>
      /\ \A i \in 1 .. Len(calls) : calls'[i] = IF i = Len(calls) THEN c ELSE calls[i]
  BY <1>1, <1>2, <1>4, GotoFacts
<1>6. PollDrains'
  BY <1>5 DEF PollDrains
<1>7. \A i \in 1 .. Len(calls) :
        calls'[i].buf = calls[i].buf /\ calls'[i].at = calls[i].at
  BY <1>3, <1>4, <1>5
<1>8. CASE first["free"] # NULL
  <2> DEFINE b == order["free"][1]
             F == Elems(order["free"])
             R == Elems(order["rcv"])
  <2>1. Move("free", "rcv")
    BY <1>8 DEF EnetInput
  <2>2. b \in F /\ QueuesBecome(Len(order["free"]) - 1, F \ {b},
                                Len(order["rcv"]) + 1, R \cup {b})
    BY <1>2, <1>8, <2>1, InputEffect
  <2>3. Held' = Held /\ Holding' = Holding
    BY <1>5, <1>7, SameBufs
  <2>4. Counted'
    <3>1. NumQueued("free") \in Nat /\ NumQueued("rcv") \in Nat /\ NumLost \in Nat /\ NumHeld \in Nat
      BY <1>2, NumsNat
    <3>2. NumQueued("free")' = NumQueued("free") - 1 /\ NumQueued("rcv")' = NumQueued("rcv") + 1
      BY <2>2 DEF QueuesBecome, NumQueued
    <3>3. NumLost' = NumLost /\ NumHeld' = NumHeld
      BY <1>1, <2>3 DEF NumLost, NumHeld
    <3>4. Counted
      BY <1>2
    <3> QED BY <3>1, <3>2, <3>3, <3>4 DEF Counted
  <2>5. Covered'
    BY <1>1, <1>2, <2>2, <2>3 DEF Covered, QueuesBecome
  <2>6. QueuesApart'
    BY <1>1, <1>2, <2>2 DEF QueuesApart, QueuesBecome, Queue
  <2>7. CallsApart'
    <3>1. ASSUME NEW i \in 1 .. Len(calls)
          PROVE  calls'[i].buf \notin lost /\ \A q \in Queue : Absent(calls'[i].buf, order'[q])
      BY <1>2, <1>7, <2>2 DEF CallsApart, QueuesBecome, Absent, Queue
    <3>2. /\ \A i \in 1 .. Len(calls) :
               calls'[i].buf = NULL <=> calls'[i].at \in {"deliver", "loop"}
          /\ \A i, j \in 1 .. Len(calls) :
               calls'[i].buf = calls'[j].buf /\ calls'[i].buf # NULL => i = j
      BY <1>2, <1>7 DEF CallsApart
    <3> QED BY <1>1, <1>5, <3>1, <3>2 DEF CallsApart
  <2> QED BY <1>1, <1>2, <1>5, <1>6, <2>2, <2>4, <2>5, <2>6, <2>7, Assemble DEF QueuesBecome
<1>9. CASE first["free"] = NULL
  <2>1. UNCHANGED links
    BY <1>9 DEF EnetInput
  <2>2. QueuesBecome(Len(order["free"]), Elems(order["free"]),
                     Len(order["rcv"]), Elems(order["rcv"]))
    BY <2>1, LinksUnchanged
  <2> QED BY <1>1, <1>5, <1>6, <1>7, <2>2, Quiet
<1> QED BY <1>8, <1>9

\* A call that gets or gives up its buffer: the calls below it are as before.
LEMMA BufUpdate ==
  ASSUME NEW c \in Call, NEW a \in {"deliver", "loop", "handle", "arp"},
         NEW b \in Buf \cup {NULL}
  PROVE  LET d == [c EXCEPT !.at = a, !.buf = b]
         IN  d \in Call /\ d.buf = b /\ d.at = a
  BY DEF Call

\* The polling loop takes the next received buffer.
LEMMA StepPollTake ==
  ASSUME IInv, PollTake
  PROVE  IInv'
<1> DEFINE b == first["rcv"]
           n == Len(calls)
           F == Elems(order["free"])
           R == Elems(order["rcv"])
           c == [top EXCEPT !.at = "handle", !.buf = b]
<1>1. calls # <<>> /\ top.at = "loop" /\ Goto(c) /\ lost' = lost /\ Get("rcv") /\ b # NULL
  BY DEF PollTake, In
<1>2. TypeOK /\ LinksOK /\ QueuesApart /\ CallsApart /\ Counted /\ Covered /\ lost \subseteq Buf
  BY InvParts DEF IInv
<1>3. top \in Call /\ top = calls[n] /\ n \in 1 .. n /\ n \in Nat
  BY <1>1, <1>2, TopFacts
<1>4. /\ b \in R /\ b \in Buf
      /\ QueuesBecome(Len(order["free"]), F, Len(order["rcv"]) - 1, R \ {b})
  BY <1>1, <1>2, GetEffect
<1>5. c \in Call /\ c.buf = b /\ c.at = "handle"
  <2>1. b \in Buf \cup {NULL} /\ "handle" \in {"deliver", "loop", "handle", "arp"}
    BY <1>4
  <2> HIDE DEF b
  <2> QED BY <1>3, <2>1, BufUpdate
<1> HIDE DEF c
<1>6. /\ calls' \in Seq(Call) /\ Len(calls') = n /\ calls' # <<>>
      /\ \A i \in 1 .. n : calls'[i] = IF i = n THEN c ELSE calls[i]
  BY <1>1, <1>2, <1>5, GotoFacts
<1>7. top.buf = NULL /\ calls[n].buf = NULL /\ n \notin Holding
  BY <1>1, <1>2, <1>3 DEF CallsApart, Holding
<1>8. Holding' = Holding \cup {n}
  BY <1>1, <1>3, <1>5, <1>6 DEF Holding
<1>9. Held' = Held \cup {b}
  <2>1. ASSUME NEW a \in Held PROVE a \in Held'
    <3>1. PICK i \in 1 .. n : a = calls[i].buf /\ a # NULL
      BY DEF Held
    <3>2. i # n /\ calls'[i].buf = a /\ i \in 1 .. Len(calls')
      BY <1>6, <1>7, <3>1
    <3> QED BY <3>1, <3>2 DEF Held
  <2>2. b \in Held'
    <3>1. n \in 1 .. Len(calls') /\ calls'[n].buf = b
      BY <1>3, <1>5, <1>6
    <3> QED BY <1>1, <3>1 DEF Held
  <2>3. Held' \subseteq Held \cup {b}
    BY <1>5, <1>6 DEF Held
  <2> QED BY <2>1, <2>2, <2>3
<1>10. Counted'
  <2>1. Cardinality(Holding') = Cardinality(Holding) + 1
    BY <1>2, <1>7, <1>8, CountsNat, FS_AddElement
  <2>2. NumQueued("free") \in Nat /\ NumQueued("rcv") \in Nat /\ NumLost \in Nat /\ NumHeld \in Nat
    BY <1>2, NumsNat
  <2>3. NumQueued("free")' = NumQueued("free") /\ NumQueued("rcv")' = NumQueued("rcv") - 1
    BY <1>4 DEF QueuesBecome, NumQueued
  <2>4. NumLost' = NumLost /\ NumHeld' = NumHeld + 1
    BY <1>1, <2>1 DEF NumLost, NumHeld
  <2>5. Counted
    BY <1>2
  <2> QED BY <2>2, <2>3, <2>4, <2>5 DEF Counted
<1>11. Covered'
  BY <1>1, <1>2, <1>4, <1>9 DEF Covered, QueuesBecome
<1>12. QueuesApart'
  BY <1>1, <1>2, <1>4 DEF QueuesApart, QueuesBecome, Queue
<1>13. CallsApart'
  <2>1. \A i \in 1 .. n : calls'[i].buf = NULL <=> calls'[i].at \in {"deliver", "loop"}
    BY <1>1, <1>2, <1>5, <1>6 DEF CallsApart
  <2>2. \A i, j \in 1 .. n :
          calls'[i].buf = calls'[j].buf /\ calls'[i].buf # NULL => i = j
    <3>1. \A i \in 1 .. n : calls[i].buf # b
      BY <1>2, <1>4 DEF CallsApart, Absent, Queue
    <3> QED BY <1>2, <1>5, <1>6, <3>1 DEF CallsApart
  <2>3. ASSUME NEW i \in 1 .. n
        PROVE  calls'[i].buf \notin lost /\ \A q \in Queue : Absent(calls'[i].buf, order'[q])
    <3>1. b \notin lost /\ b \notin F
      BY <1>2, <1>4 DEF QueuesApart, Queue
    <3> QED BY <1>2, <1>4, <1>5, <1>6, <3>1 DEF CallsApart, QueuesBecome, Absent, Queue
  <2> QED BY <1>1, <1>6, <2>1, <2>2, <2>3 DEF CallsApart
<1>14. PollDrains'
  BY <1>6 DEF PollDrains
<1> QED BY <1>1, <1>2, <1>4, <1>6, <1>10, <1>11, <1>12, <1>13, <1>14, Assemble DEF QueuesBecome

\* A handler is done with its buffer and frees it.
LEMMA StepHandleFree ==
  ASSUME IInv, HandleFree
  PROVE  IInv'
<1> DEFINE b == top.buf
           n == Len(calls)
           F == Elems(order["free"])
           R == Elems(order["rcv"])
           c == [top EXCEPT !.at = "loop", !.buf = NULL]
<1>1. calls # <<>> /\ top.at = "handle" /\ Goto(c) /\ Give("free", b) /\ lost' = lost
  BY DEF HandleFree, In
<1>2. TypeOK /\ LinksOK /\ QueuesApart /\ CallsApart /\ Counted /\ Covered /\ lost \subseteq Buf
  BY InvParts DEF IInv
<1>3. top \in Call /\ top = calls[n] /\ n \in 1 .. n /\ n \in Nat
  BY <1>1, <1>2, TopFacts
<1>5. c \in Call /\ c.buf = NULL /\ c.at = "loop"
  BY <1>3, BufUpdate
<1> HIDE DEF c
<1>6. /\ calls' \in Seq(Call) /\ Len(calls') = n /\ calls' # <<>>
      /\ \A i \in 1 .. n : calls'[i] = IF i = n THEN c ELSE calls[i]
  BY <1>1, <1>2, <1>5, GotoFacts
<1>7. /\ b # NULL /\ b \in Buf /\ b \notin lost /\ n \in Holding
      /\ \A q \in Queue : Absent(b, order[q])
      /\ \A i \in 1 .. n : i # n => calls[i].buf # b
  BY <1>1, <1>2, <1>3 DEF CallsApart, Holding, Call
<1>8. Holding' = Holding \ {n}
  BY <1>3, <1>5, <1>6 DEF Holding
<1>9. Held' = Held \ {b} /\ b \in Held
  <2>1. ASSUME NEW a \in Held, a # b PROVE a \in Held'
    <3>1. PICK i \in 1 .. n : a = calls[i].buf /\ a # NULL
      BY DEF Held
    <3>2. i # n /\ calls'[i].buf = a /\ i \in 1 .. Len(calls')
      BY <1>3, <1>6, <2>1, <3>1
    <3> QED BY <3>1, <3>2 DEF Held
  <2>2. b \in Held
    BY <1>3, <1>7 DEF Held
  <2>3. ASSUME NEW a \in Held' PROVE a \in Held \ {b}
    BY <1>5, <1>6, <1>7 DEF Held
  <2> QED BY <2>1, <2>2, <2>3
<1>10. QueuesBecome(Len(order["free"]) + 1, F \cup {b}, Len(order["rcv"]), R)
  BY <1>1, <1>2, <1>7, GiveEffect
<1>11. Counted'
  <2>1. NumQueued("free") \in Nat /\ NumQueued("rcv") \in Nat /\ NumLost \in Nat /\ NumHeld \in Nat
    BY <1>2, NumsNat
  <2>2. NumQueued("free")' = NumQueued("free") + 1 /\ NumQueued("rcv")' = NumQueued("rcv")
    BY <1>10 DEF QueuesBecome, NumQueued
  <2>3. NumLost' = NumLost
    BY <1>1 DEF NumLost
  <2>4. NumHeld' = NumHeld - 1
    BY <1>2, <1>7, <1>8, CountsNat, FS_RemoveElement DEF NumHeld
  <2>5. Counted
    BY <1>2
  <2> QED BY <2>1, <2>2, <2>3, <2>4, <2>5 DEF Counted
<1>12. Covered'
  BY <1>1, <1>2, <1>9, <1>10 DEF Covered, QueuesBecome
<1>13. QueuesApart'
  BY <1>1, <1>2, <1>7, <1>10 DEF QueuesApart, QueuesBecome, Queue, Absent
<1>14. CallsApart'
  <2>1. \A i \in 1 .. n : calls'[i].buf = NULL <=> calls'[i].at \in {"deliver", "loop"}
    BY <1>2, <1>5, <1>6 DEF CallsApart
  <2>2. \A i, j \in 1 .. n :
          calls'[i].buf = calls'[j].buf /\ calls'[i].buf # NULL => i = j
    BY <1>2, <1>5, <1>6 DEF CallsApart
  <2>3. ASSUME NEW i \in 1 .. n
        PROVE  calls'[i].buf \notin lost' /\ \A q \in Queue : Absent(calls'[i].buf, order'[q])
    <3>1. NULL \notin lost /\ \A q \in Queue : Absent(NULL, order[q])
      BY <1>2, NullNowhere
    <3>2. calls'[i].buf # b /\ calls'[i].buf \notin lost /\ \A q \in Queue : Absent(calls'[i].buf, order[q])
      BY <1>2, <1>5, <1>6, <1>7, <3>1 DEF CallsApart
    <3> QED BY <1>1, <1>10, <3>2 DEF QueuesBecome, Absent, Queue
  <2> QED BY <1>6, <2>1, <2>2, <2>3 DEF CallsApart
<1>15. PollDrains'
  BY <1>6 DEF PollDrains
<1>16. lost' \subseteq Buf
  BY <1>1, <1>2, <1>7
<1> QED BY <1>6, <1>10, <1>11, <1>12, <1>13, <1>14, <1>15, <1>16, Assemble DEF QueuesBecome

\* A handler returns without freeing: the buffer is lost.
LEMMA StepHandleLose ==
  ASSUME IInv, HandleLose
  PROVE  IInv'
<1> DEFINE b == top.buf
           n == Len(calls)
           F == Elems(order["free"])
           R == Elems(order["rcv"])
           c == [top EXCEPT !.at = "loop", !.buf = NULL]
<1>1. calls # <<>> /\ top.at = "handle" /\ Goto(c) /\ UNCHANGED links /\ lost' = lost \cup {b}
  BY DEF HandleLose, In
<1>2. TypeOK /\ LinksOK /\ QueuesApart /\ CallsApart /\ Counted /\ Covered /\ lost \subseteq Buf
  BY InvParts DEF IInv
<1>3. top \in Call /\ top = calls[n] /\ n \in 1 .. n /\ n \in Nat
  BY <1>1, <1>2, TopFacts
<1>5. c \in Call /\ c.buf = NULL /\ c.at = "loop"
  BY <1>3, BufUpdate
<1> HIDE DEF c
<1>6. /\ calls' \in Seq(Call) /\ Len(calls') = n /\ calls' # <<>>
      /\ \A i \in 1 .. n : calls'[i] = IF i = n THEN c ELSE calls[i]
  BY <1>1, <1>2, <1>5, GotoFacts
<1>7. /\ b # NULL /\ b \in Buf /\ b \notin lost /\ n \in Holding
      /\ \A q \in Queue : Absent(b, order[q])
      /\ \A i \in 1 .. n : i # n => calls[i].buf # b
  BY <1>1, <1>2, <1>3 DEF CallsApart, Holding, Call
<1>8. Holding' = Holding \ {n}
  BY <1>3, <1>5, <1>6 DEF Holding
<1>9. Held' = Held \ {b} /\ b \in Held
  <2>1. ASSUME NEW a \in Held, a # b PROVE a \in Held'
    <3>1. PICK i \in 1 .. n : a = calls[i].buf /\ a # NULL
      BY DEF Held
    <3>2. i # n /\ calls'[i].buf = a /\ i \in 1 .. Len(calls')
      BY <1>3, <1>6, <2>1, <3>1
    <3> QED BY <3>1, <3>2 DEF Held
  <2>2. b \in Held
    BY <1>3, <1>7 DEF Held
  <2>3. ASSUME NEW a \in Held' PROVE a \in Held \ {b}
    BY <1>5, <1>6, <1>7 DEF Held
  <2> QED BY <2>1, <2>2, <2>3
<1>10. /\ QueuesBecome(Len(order["free"]), F, Len(order["rcv"]), R)
       /\ order' = order
  BY <1>1, LinksUnchanged
<1>11. Counted'
  <2>1. NumQueued("free") \in Nat /\ NumQueued("rcv") \in Nat /\ NumLost \in Nat /\ NumHeld \in Nat
    BY <1>2, NumsNat
  <2>2. NumQueued("free")' = NumQueued("free") /\ NumQueued("rcv")' = NumQueued("rcv")
    BY <1>10 DEF NumQueued
  <2>3. NumLost' = NumLost + 1
    BY <1>1, <1>2, <1>7, CountsNat, FS_AddElement DEF NumLost
  <2>4. NumHeld' = NumHeld - 1
    BY <1>2, <1>7, <1>8, CountsNat, FS_RemoveElement DEF NumHeld
  <2>5. Counted
    BY <1>2
  <2> QED BY <2>1, <2>2, <2>3, <2>4, <2>5 DEF Counted
<1>12. Covered'
  BY <1>1, <1>2, <1>9, <1>10 DEF Covered, QueuesBecome
<1>13. QueuesApart'
  BY <1>1, <1>2, <1>7, <1>10 DEF QueuesApart, QueuesBecome, Queue, Absent
<1>14. CallsApart'
  <2>1. \A i \in 1 .. n : calls'[i].buf = NULL <=> calls'[i].at \in {"deliver", "loop"}
    BY <1>2, <1>5, <1>6 DEF CallsApart
  <2>2. \A i, j \in 1 .. n :
          calls'[i].buf = calls'[j].buf /\ calls'[i].buf # NULL => i = j
    BY <1>2, <1>5, <1>6 DEF CallsApart
  <2>3. ASSUME NEW i \in 1 .. n
        PROVE  calls'[i].buf \notin lost' /\ \A q \in Queue : Absent(calls'[i].buf, order'[q])
    <3>1. NULL \notin lost /\ \A q \in Queue : Absent(NULL, order[q])
      BY <1>2, NullNowhere
    <3>2. calls'[i].buf # b /\ calls'[i].buf \notin lost /\ \A q \in Queue : Absent(calls'[i].buf, order[q])
      BY <1>2, <1>5, <1>6, <1>7, <3>1 DEF CallsApart
    <3> QED BY <1>1, <1>10, <3>2 DEF QueuesBecome, Absent, Queue
  <2> QED BY <1>6, <2>1, <2>2, <2>3 DEF CallsApart
<1>15. PollDrains'
  BY <1>6 DEF PollDrains
<1>16. lost' \subseteq Buf
  BY <1>1, <1>2, <1>7
<1> QED BY <1>6, <1>10, <1>11, <1>12, <1>13, <1>14, <1>15, <1>16, Assemble DEF QueuesBecome

\* A poll returns only when nothing is left on the receive queue.
LEMMA StepPollReturn ==
  ASSUME IInv, PollReturn
  PROVE  IInv'
<1> DEFINE n == Len(calls)
<1>1. /\ calls # <<>> /\ top.at = "loop" /\ calls' = SubSeq(calls, 1, n - 1)
      /\ (total["rcv"] = 0 \/ first["rcv"] = NULL) /\ UNCHANGED links /\ lost' = lost
  BY DEF PollReturn, In
<1>2. TypeOK /\ LinksOK /\ QueuesApart /\ CallsApart /\ Counted /\ Covered /\ lost \subseteq Buf
  BY InvParts DEF IInv
<1>3. top = calls[n] /\ n \in 1 .. n /\ n \in Nat /\ calls \in Seq(Call)
  BY <1>1, <1>2, TopFacts DEF TypeOK
<1>4. calls[n].buf = NULL
  BY <1>1, <1>2, <1>3 DEF CallsApart
<1>5. /\ calls' \in Seq(Call) /\ Len(calls') = n - 1
      /\ \A i \in 1 .. n - 1 : calls'[i] = calls[i]
  <2>1. \A i \in 1 .. n - 1 : calls[i] \in Call
    BY <1>3
  <2>2. n - 1 \in Int /\ 1 \in Int /\ 1 <= n
    BY <1>3
  <2> HIDE DEF n
  <2>3. ASSUME NEW m \in Int, m = n - 1
        PROVE  /\ SubSeq(calls, 1, m) \in Seq(Call)
               /\ Len(SubSeq(calls, 1, m)) = IF 1 <= m THEN m - 1 + 1 ELSE 0
               /\ \A i \in 1 .. m - 1 + 1 : SubSeq(calls, 1, m)[i] = calls[1 + i - 1]
    <3>1. \A i \in 1 .. m : calls[i] \in Call
      BY <2>1, <2>3
    <3> QED BY <2>2, <3>1, SubSeqProperties
  <2> DEFINE m == n - 1
  <2>4. m \in Int /\ m >= 0 /\ m - 1 + 1 = m /\ \A i \in 1 .. m : 1 + i - 1 = i
    BY <1>3
  <2> HIDE DEF m
  <2> QED BY <1>1, <2>2, <2>3, <2>4 DEF m
<1>6. /\ QueuesBecome(Len(order["free"]), Elems(order["free"]),
                      Len(order["rcv"]), Elems(order["rcv"]))
      /\ order' = order
  BY <1>1, LinksUnchanged
<1>7. Held' = Held
  <2>1. ASSUME NEW b \in Held PROVE b \in Held'
    <3>1. PICK i \in 1 .. n : b = calls[i].buf /\ b # NULL
      BY DEF Held
    <3>2. i \in 1 .. Len(calls') /\ calls'[i].buf = b
      BY <1>3, <1>4, <1>5, <3>1
    <3> QED BY <3>1, <3>2 DEF Held
  <2>2. ASSUME NEW b \in Held' PROVE b \in Held
    <3>1. PICK i \in 1 .. Len(calls') : b = calls'[i].buf /\ b # NULL
      BY DEF Held
    <3>2. i \in 1 .. n /\ calls[i].buf = b
      BY <1>3, <1>5, <3>1
    <3> QED BY <3>1, <3>2 DEF Held
  <2> QED BY <2>1, <2>2
<1>8. Holding' = Holding
  BY <1>3, <1>4, <1>5 DEF Holding
<1>9. Counted' /\ Covered'
  BY <1>1, <1>2, <1>6, <1>7, <1>8 DEF Counted, NumQueued, NumLost, NumHeld, Covered
<1>10. CallsApart'
  <2>1. \A i \in 1 .. n - 1 : i \in 1 .. n
    BY <1>3
  <2> QED BY <1>1, <1>2, <1>5, <1>6, <2>1 DEF CallsApart
<1>11. order["rcv"] = <<>>
  <2>1. order["rcv"] \in Seq(Buf) /\ Represents("rcv")
    BY <1>2 DEF LinksOK, QueuesSound, Queue
  <2>2. ASSUME order["rcv"] # <<>> PROVE FALSE
    <3>1. Len(order["rcv"]) \in Nat /\ Len(order["rcv"]) >= 1 /\ order["rcv"][1] \in Buf
      BY <2>1, <2>2
    <3>2. total["rcv"] = Len(order["rcv"]) /\ first["rcv"] = order["rcv"][1]
      BY <2>1, <2>2 DEF Represents
    <3> QED BY <1>1, <3>1, <3>2 DEF Buf, NULL
  <2> QED BY <2>2
<1>12. PollDrains' /\ QueuesApart'
  BY <1>1, <1>2, <1>6, <1>11 DEF PollDrains, QueuesApart
<1> QED BY <1>1, <1>2, <1>5, <1>6, <1>9, <1>10, <1>12, Assemble DEF QueuesBecome

\* net_init_buf
LEMMA InitOK == Init => IInv
<1> SUFFICES ASSUME Init PROVE IInv
  OBVIOUS
<1> DEFINE s == [i \in Buf |-> i]
<1>0. NET_BUF_NUM \in Nat /\ NET_BUF_NUM >= 1 /\ Buf = 1 .. NET_BUF_NUM
  BY NetBufAssumption DEF Buf
<1>1. s \in Seq(Buf) /\ Len(s) = NET_BUF_NUM /\ s # <<>> /\ \A i \in Buf : s[i] = i
  BY <1>0
<1>2. /\ order["free"] = s /\ order["rcv"] = <<>> /\ lost = {} /\ calls = <<>>
      /\ first["free"] = 1 /\ first["rcv"] = NULL /\ tail["free"] = NET_BUF_NUM /\ tail["rcv"] = NULL
      /\ total["free"] = NET_BUF_NUM /\ total["rcv"] = 0
      /\ next = [b \in Buf |-> IF b = NET_BUF_NUM THEN NULL ELSE b + 1]
  BY DEF Init, Queue
<1> HIDE DEF s
<1>3. TypeOK
  <2>1. first \in [Queue -> Buf \cup {NULL}] /\ tail \in [Queue -> Buf \cup {NULL}]
    BY <1>0 DEF Init
  <2>2. next \in [Buf -> Buf \cup {NULL}]
    BY <1>0, <1>2
  <2>3. total \in [Queue -> Int]
    BY <1>0 DEF Init
  <2>4. order \in [Queue -> Seq(Buf)]
    <3>1. order = [q \in Queue |-> IF q = "free" THEN s ELSE <<>>]
      BY DEF Init, s
    <3>2. <<>> \in Seq(Buf)
      OBVIOUS
    <3> QED BY <1>1, <3>1, <3>2
  <2> QED BY <1>2, <2>1, <2>2, <2>3, <2>4 DEF TypeOK
<1>4. QueuesSound
  <2>1. Represents("free")
    BY <1>0, <1>1, <1>2 DEF Represents
  <2>2. Represents("rcv")
    BY <1>2 DEF Represents
  <2> QED BY <2>1, <2>2 DEF QueuesSound, Queue
<1>5. Elems(order["free"]) = Buf /\ Elems(order["rcv"]) = {}
  BY <1>0, <1>1, <1>2 DEF Elems
<1>6. QueuesApart
  BY <1>0, <1>1, <1>2, <1>5 DEF QueuesApart, Unrepeated, Queue
<1>7. CallsApart /\ PollDrains
  BY <1>2 DEF CallsApart, PollDrains
<1>8. Counted
  <2>1. Holding = {}
    BY <1>2 DEF Holding
  <2>2. NumQueued("free") = NET_BUF_NUM /\ NumQueued("rcv") = 0 /\ NumLost = 0 /\ NumHeld = 0
    BY <1>1, <1>2, <2>1, FS_EmptySet DEF NumQueued, NumLost, NumHeld
  <2> QED BY <1>0, <2>2 DEF Counted
<1>9. Covered
  BY <1>2, <1>5 DEF Covered, Held
<1> QED BY <1>3, <1>4, <1>6, <1>7, <1>8, <1>9, OwnerParts DEF IInv

\* Every step of the polling loop and of what it calls keeps the invariant.
LEMMA StepOK == IInv /\ [Next]_vars => IInv'
<1> SUFFICES ASSUME IInv, [Next]_vars PROVE IInv'
  OBVIOUS
<1>1. CASE UNCHANGED vars
  <2>1. UNCHANGED links /\ lost' = lost /\ calls' = calls
    BY <1>1 DEF vars
  <2>2. calls \in Seq(Call) /\ PollDrains
    BY InvParts
  <2>3. /\ order' = order
        /\ QueuesBecome(Len(order["free"]), Elems(order["free"]),
                        Len(order["rcv"]), Elems(order["rcv"]))
    BY <2>1, LinksUnchanged
  <2>4. PollDrains'
    BY <2>1, <2>2, <2>3 DEF PollDrains
  <2> QED BY <2>1, <2>2, <2>3, <2>4, Quiet
<1>2. CASE Next
  BY <1>2, StepSend, StepPoll, StepEnetInput, StepDeliverEnd, StepPollTake, StepPollReturn,
     StepHandleFree, StepHandleLose, StepArpTry, StepArpEnd DEF Next
<1> QED BY <1>1, <1>2

-----------------------------------------------------------------------------
(* The theorems                                                             *)

\* Every variable of net_buf.c and of the polling loop keeps its type.
THEOREM TypeCorrect == Spec => []TypeOK
<1>1. IInv => TypeOK
  BY DEF IInv
<1> QED BY InitOK, StepOK, <1>1, PTL DEF Spec

\* first, next_buf, tail and total of net_free_q and net_rcv_q agree with the
\* order in which buffers were put in, for every number of buffers.
THEOREM QueuesAlwaysSound == Spec => []QueuesSound
<1>1. IInv => QueuesSound
  BY DEF IInv
<1> QED BY InitOK, StepOK, <1>1, PTL DEF Spec

\* No buffer is ever freed twice, queued twice or handled by two of the nested
\* polls, and none disappears except where a TCP handler forgets it.
THEOREM AlwaysOneOwner == Spec => []OneOwner
<1>1. IInv => OneOwner
  BY DEF IInv
<1> QED BY InitOK, StepOK, <1>1, PTL DEF Spec

\* The receive queue is empty whenever enet_poll has returned to the program,
\* however deep arp_request nested the polls.
THEOREM PollAlwaysDrains == Spec => []PollDrains
<1>1. IInv => PollDrains
  BY DEF IInv
<1> QED BY InitOK, StepOK, <1>1, PTL DEF Spec
=============================================================================
