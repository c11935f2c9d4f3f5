------------------------------- MODULE NetBuf -------------------------------
(***************************************************************************)
(* Network buffers, src/net/net_buf.c, and everybody who passes them on:    *)
(* the driver's enet_input, the enet_poll loop, the protocol handlers and   *)
(* the senders (enet.c, ip.c, arp.c, icmp.c, udp.c, tcp.c).                 *)
(*                                                                         *)
(* There are two linked queues, net_free_q and net_rcv_q, and no interrupt  *)
(* touches them.  What interleaves is recursion: with BOARD_SUPPORT_WEB a   *)
(* TCP handler that holds a buffer answers through arp_lookup, whose        *)
(* arp_request calls enet_poll again (arp.c:193), which takes and handles   *)
(* other buffers, and may get there once more.  calls is that stack.        *)
(* What a frame says is abstracted to what its handler does with the        *)
(* buffer.                                                                 *)
(***************************************************************************)
EXTENDS Integers, Sequences, FiniteSets

CONSTANTS
  NET_BUF_NUM,   \* number of buffers
  WEB,           \* BOARD_SUPPORT_WEB: TCP is compiled in
  ArpTries,      \* retry in arp_request
  Burst          \* bound: frames that one call of the driver delivers

ASSUME NetBufAssumption ==
  /\ NET_BUF_NUM \in Nat \ {0}
  /\ WEB \in BOOLEAN
  /\ ArpTries \in Nat \ {0}
  /\ Burst \in Nat

NULL  == 0
Buf   == 1 .. NET_BUF_NUM
Queue == {"free", "rcv"}     \* net_free_q, net_rcv_q

VARIABLES
  next,    \* NETBUF_HDR_T.next_buf
  first,   \* NETBUF_QUEUE_T.first
  tail,    \* NETBUF_QUEUE_T.tail
  total,   \* NETBUF_QUEUE_T.total
  order,   \* history: the buffers of each queue, oldest first
  lost,    \* history: the buffers that a handler forgot
  calls    \* the calls of enet_poll in progress, the innermost one last

links == <<next, first, tail, total, order>>
vars  == <<links, lost, calls>>

\* A call of enet_poll: in the driver ("deliver"), at its loop ("loop"), in a
\* handler that owns buf ("handle"), or in an arp_request made by it ("arp").
Call == [at : {"deliver", "loop", "handle", "arp"},
         buf : Buf \cup {NULL}, left : 0 .. ArpTries + Burst]

-----------------------------------------------------------------------------
(* net_buf.c: the pointer work of one call, as a relation between the       *)
(* queues before (unprimed arguments) and after.                            *)

\* net_remove_queue_first on a queue that is not empty.
Removed_KeepTail(q, nx, fi, ta) ==
  [fi |-> nx[fi[q]], ta |-> ta[q]]

Removed(q, nx, fi, ta) ==
  [fi |-> nx[fi[q]], ta |-> IF nx[fi[q]] = NULL THEN NULL ELSE ta[q]]

\* net_insert_queue_tail: first, tail and the links.
Inserted_NoTerminator(b, nx, fi, ta) ==
  [fi |-> IF ta # NULL THEN fi ELSE b,
   ta |-> b,
   nx |-> IF ta # NULL THEN [nx EXCEPT ![ta] = b] ELSE nx]

Inserted(b, nx, fi, ta) ==
  [fi |-> IF ta # NULL THEN fi ELSE b,
   ta |-> b,
   nx |-> [a \in Buf |-> IF a = b THEN NULL
                         ELSE IF ta # NULL /\ a = ta THEN b ELSE nx[a]]]

\* Take the first buffer of p and append it to q, which may be p itself:
\* net_alloc_buf or net_get_rcvq, then net_free_buf or net_put_rcvq.
Move(p, q) ==
  LET b  == first[p]
      r  == Removed(p, next, first, tail)
      f1 == [first EXCEPT ![p] = r.fi]
      t1 == [tail EXCEPT ![p] = r.ta]
      i  == Inserted(b, next, f1[q], t1[q])
      o1 == [order EXCEPT ![p] = Tail(@)]
      n1 == [total EXCEPT ![p] = @ - 1]
  IN  /\ first' = [f1 EXCEPT ![q] = i.fi]
      /\ tail'  = [t1 EXCEPT ![q] = i.ta]
      /\ next'  = i.nx
      /\ total' = [n1 EXCEPT ![q] = @ + 1]
      /\ order' = [o1 EXCEPT ![q] = Append(@, b)]

\* net_get_rcvq
Get(q) ==
  LET r == Removed(q, next, first, tail)
  IN  /\ first' = [first EXCEPT ![q] = r.fi]
      /\ tail'  = [tail EXCEPT ![q] = r.ta]
      /\ total' = [total EXCEPT ![q] = @ - 1]
      /\ order' = [order EXCEPT ![q] = Tail(@)]
      /\ UNCHANGED next

\* net_free_buf
Give(q, b) ==
  LET i == Inserted(b, next, first[q], tail[q])
  IN  /\ first' = [first EXCEPT ![q] = i.fi]
      /\ tail'  = [tail EXCEPT ![q] = i.ta]
      /\ next'  = i.nx
      /\ total' = [total EXCEPT ![q] = @ + 1]
      /\ order' = [order EXCEPT ![q] = Append(@, b)]

\* net_init_buf: every buffer on the free queue, in array order.
Init ==
  /\ next  = [b \in Buf |-> IF b = NET_BUF_NUM THEN NULL ELSE b + 1]
  /\ first = [q \in Queue |-> IF q = "free" THEN 1 ELSE NULL]
  /\ tail  = [q \in Queue |-> IF q = "free" THEN NET_BUF_NUM ELSE NULL]
  /\ total = [q \in Queue |-> IF q = "free" THEN NET_BUF_NUM ELSE 0]
  /\ order = [q \in Queue |-> IF q = "free" THEN [i \in Buf |-> i] ELSE <<>>]
  /\ lost  = {}
  /\ calls = <<>>

-----------------------------------------------------------------------------
top == calls[Len(calls)]

In(at) == calls # <<>> /\ top.at = at

Goto(call) == calls' = [calls EXCEPT ![Len(calls)] = call]

\* Build a frame in a fresh buffer and hand it to enet_send, which frees it
\* whether or not the driver could take it.
Send == first["free"] # NULL /\ Move("free", "free")

\* udp_output, icmp_ping or arp_request, called by the program itself.
AppSend ==
  /\ calls = <<>>
  /\ Send
  /\ UNCHANGED <<lost, calls>>

\* enet_poll starts in the driver: called by the program, or by the loop of
\* an arp_request.
Poll ==
  /\ calls = <<>> \/ In("arp")
  /\ calls' = Append(calls, [at |-> "deliver", buf |-> NULL, left |-> Burst])
  /\ UNCHANGED <<links, lost>>

\* enet_input queues a frame, or finds no free buffer and drops it.
EnetInput ==
  /\ In("deliver") /\ top.left > 0
  /\ Goto([top EXCEPT !.left = @ - 1])
  /\ IF first["free"] # NULL THEN Move("free", "rcv") ELSE UNCHANGED links
  /\ UNCHANGED lost

DeliverEnd ==
  /\ In("deliver")
  /\ Goto([top EXCEPT !.at = "loop", !.left = 0])
  /\ UNCHANGED <<links, lost>>

PollTake ==
  /\ In("loop") /\ total["rcv"] # 0 /\ first["rcv"] # NULL
  /\ Get("rcv")
  /\ Goto([top EXCEPT !.at = "handle", !.buf = first["rcv"]])
  /\ UNCHANGED lost

PollReturn_Once ==
  /\ In("loop")
  /\ calls' = SubSeq(calls, 1, Len(calls) - 1)
  /\ UNCHANGED <<links, lost>>

\* The queue is empty (or broken: "Fatal error! for enet_poll()").
PollReturn ==
  /\ In("loop") /\ (total["rcv"] = 0 \/ first["rcv"] = NULL)
  /\ calls' = SubSeq(calls, 1, Len(calls) - 1)
  /\ UNCHANGED <<links, lost>>

HandleFree_Twice ==
  /\ In("handle")
  /\ Give("free", top.buf)
  /\ \/ Goto([top EXCEPT !.at = "loop", !.buf = NULL])
     \/ UNCHANGED calls
  /\ UNCHANGED lost

\* The handler is done with the frame, or answers in the same buffer through
\* enet_send (echo reply, ARP reply): the buffer is freed.
HandleFree ==
  /\ In("handle")
  /\ Give("free", top.buf)
  /\ Goto([top EXCEPT !.at = "loop", !.buf = NULL])
  /\ UNCHANGED lost

\* TCP: ip_input returns while the web server is off (ip.c:74-76), and
\* tcp_input returns for a segment without ACK (tcp.c:455-456).
HandleLose ==
  /\ WEB /\ In("handle")
  /\ lost' = lost \cup {top.buf}
  /\ Goto([top EXCEPT !.at = "loop", !.buf = NULL])
  /\ UNCHANGED links

\* tcp_sendto to a host that arp_lookup knows.
TcpSend ==
  /\ WEB /\ In("handle")
  /\ Send
  /\ UNCHANGED <<lost, calls>>

\* arp_request: a try, first or repeated, and the polling that follows it.
ArpTry ==
  /\ WEB
  /\ In("handle") \/ (In("arp") /\ top.left > 0)
  /\ Send
  /\ Goto([top EXCEPT !.at = "arp",
                      !.left = IF @ = 0 THEN ArpTries - 1 ELSE @ - 1])
  /\ UNCHANGED lost

\* It found the host, or gave up: after its last try or without a buffer.
ArpEnd ==
  /\ In("arp")
  /\ Goto([top EXCEPT !.at = "handle", !.left = 0])
  /\ UNCHANGED <<links, lost>>

Next ==
  \/ AppSend \/ Poll \/ EnetInput \/ DeliverEnd \/ PollTake \/ PollReturn
  \/ HandleFree \/ HandleLose \/ TcpSend \/ ArpTry \/ ArpEnd

Spec == Init /\ [][Next]_vars

-----------------------------------------------------------------------------
(* Properties                                                               *)

\* Every variable keeps its type.
TypeOK ==
  /\ next \in [Buf -> Buf \cup {NULL}]
  /\ first \in [Queue -> Buf \cup {NULL}] /\ tail \in [Queue -> Buf \cup {NULL}]
  /\ total \in [Queue -> Int]
  /\ order \in [Queue -> Seq(Buf)]
  /\ lost \subseteq Buf
  /\ calls \in Seq(Call)

\* The pointers of a queue spell out the order in which buffers were put in:
\* first, next_buf, tail and total agree, whatever moved between the queues.
Represents(q) ==
  LET s == order[q] IN
  /\ total[q] = Len(s)
  /\ s = <<>> => first[q] = NULL /\ tail[q] = NULL
  /\ s # <<>> => /\ first[q] = s[1] /\ tail[q] = s[Len(s)]
                 /\ next[s[Len(s)]] = NULL
                 /\ \A i \in 1 .. Len(s) - 1 : next[s[i]] = s[i + 1]

QueuesSound == \A q \in Queue : Represents(q)

Held == {calls[i].buf : i \in 1 .. Len(calls)} \ {NULL}

Queued(q) == {order[q][i] : i \in 1 .. Len(order[q])}

\* Every buffer is in one place, once: on a queue, with one handler of the
\* nested calls, or forgotten by one.  In particular nothing is freed twice.
OneOwner ==
  /\ Len(order["free"]) + Len(order["rcv"]) + Cardinality(lost)
       + Cardinality({i \in 1 .. Len(calls) : calls[i].buf # NULL})
     = NET_BUF_NUM
  /\ Queued("free") \cup Queued("rcv") \cup lost \cup Held = Buf

\* enet_poll leaves nothing behind for a later call to find: between two
\* polls the receive queue is empty, however deep the calls were nested.
PollDrains == calls = <<>> => order["rcv"] = <<>>
=============================================================================
