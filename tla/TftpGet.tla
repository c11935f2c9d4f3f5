------------------------------ MODULE TftpGet -------------------------------
(***************************************************************************)
(* Downloading a file by TFTP: tftpc_get (src/net/tftp_client.c) over the   *)
(* one UDP socket (src/net/udp.c), against a server and a network that may  *)
(* lose, delay and reorder datagrams.  Downloads follow one another, each   *)
(* from a port of its own, while the server may still serve the last one.   *)
(*                                                                         *)
(* Data is counted in units: a block has TFTP_BUF_SIZE of them, and its     *)
(* header is one more.  The socket's ring buffer is the sequence of units   *)
(* in it; like the code's it does not keep datagrams apart.  A unit says    *)
(* what it is, of which download, and which one.                            *)
(***************************************************************************)
EXTENDS Integers, Sequences

CONSTANTS
  TFTP_BUF_SIZE,     \* units of data in a full block
  TFTP_TIMEOUT_NUM,  \* time-outs a download survives
  BlkMod,            \* th_block wraps here (65536)
  RingSize,          \* UDP_SOCK_BUF_SIZE, in units
  Downloads,         \* bound: downloads one after the other
  Settings           \* what the server, the network and the caller are like

ASSUME TftpAssumption ==
  /\ {TFTP_BUF_SIZE, Downloads} \subseteq Nat \ {0}
  /\ TFTP_TIMEOUT_NUM \in Nat
  /\ BlkMod \in Nat /\ BlkMod > 1
  /\ RingSize \in Nat /\ RingSize > TFTP_BUF_SIZE
  /\ \A e \in Settings :
       /\ e.files \subseteq Nat /\ e.buffers \subseteq Nat \ {0}
       /\ e.errors \subseteq Nat /\ {e.tries, e.faults} \subseteq Nat
       /\ e.downloads \in 0 .. Downloads
       /\ {e.resends, e.prompt, e.sendFails} \subseteq BOOLEAN
       /\ e.losable \subseteq {"RRQ", "DATA", "ACK", "ERROR"}

NO_BUF == -1
NET_ERR == -2
TIMEOUT == -3
TOO_LARGE == -4
UNKNOWN == -5

VARIABLES
  pc,        \* "idle", "poll" (in udp_recvfrom) or "take" (data was waiting)
  rc,        \* what the last tftpc_get returned
  dl,        \* number of the download; its port is tftpc_get_sport's
  flen,      \* length of the file
  blen,      \* size of the caller's buffer
  last,      \* last_good_block
  touts,     \* total_timeouts
  room,      \* len: what is left of the buffer
  image,     \* the units stored in the buffer
  used,      \* UDP_SOCK_T.used
  ring,      \* UDP_SOCK_T's buffer, oldest unit first
  err,       \* UDP_SOCK_T.error_code: TRUE for UDP_ERROR_OVERFLOW
  env,       \* the setting:
             \*   downloads: bound on their number
             \*   files, buffers: lengths of files and of callers' buffers
             \*   errors: codes of the ERROR messages the server may send
             \*   tries: times the server repeats a block
             \*   resends: an ACK of the block before makes it repeat one
             \*   prompt: timers run out only when nothing is under way
             \*   sendFails: udp_sendto may fail
             \*   faults, losable: bound on the datagrams lost, and their kinds
  toC, toS,  \* datagrams under way to the client and to the server
  faults,    \* datagrams that may still get lost
  sblk,      \* the block that the server is sending in each download
  stries     \* times it may repeat it; -1 when it is through

client == <<pc, rc, dl, flen, blen, last, touts, room, image>>
socket == <<used, ring, err>>
server == <<sblk, stries>>
world  == <<env, faults>>
vars   == <<client, socket, toC, toS, world, server>>

\* A datagram of download d; n is its block number or error code.
Msg(k, d, n, body) == [k |-> k, d |-> d, n |-> n, body |-> body]

\* Unit i of the file of download d, and a datagram's header.
Datum(d, i) == <<"unit", d, i>>

Header(m) == <<m.k, m.d, m.n>>

Smaller(a, b) == IF a < b THEN a ELSE b

Init ==
  /\ pc = "idle" /\ rc = 0 /\ dl = 0 /\ flen = 0 /\ blen = 0
  /\ last = 0 /\ touts = 0 /\ room = 0 /\ image = <<>>
  /\ used = FALSE /\ ring = <<>> /\ err = FALSE
  /\ toC = {} /\ toS = {} /\ env \in Settings /\ faults = env.faults
  /\ sblk = [d \in 1 .. Downloads |-> 0]
  /\ stries = [d \in 1 .. Downloads |-> -1]

-----------------------------------------------------------------------------
(* tftpc_get                                                                *)

Return_KeepSocket(code) ==
  /\ rc' = code /\ pc' = "idle"
  /\ ring' = <<>> /\ err' = FALSE
  /\ used' = TRUE

\* Every way out frees the packet buffer and closes the socket (udp_close).
Return(code) ==
  /\ rc' = code /\ pc' = "idle"
  /\ used' = FALSE /\ ring' = <<>> /\ err' = FALSE

\* udp_sendto came back negative.  The ARP lookup failed and nothing was sent;
\* or the packet is out, for udp_sendto ends without a return statement and
\* its value is whatever the register holds.
SendFailed(m) ==
  /\ env.sendFails
  /\ Return(NET_ERR)
  /\ toS' \in {toS, toS \cup {m}}

\* udp_socket finds the socket taken; it takes the socket and then has no
\* memory for the ring, which leaves "used" set; no memory for the packet; or
\* the RRQ goes out and udp_recvfrom is entered.
Start(f, b) ==
  /\ pc = "idle" /\ dl < env.downloads
  /\ dl' = dl + 1 /\ flen' = f /\ blen' = b
  /\ last' = 0 /\ touts' = 0 /\ room' = b /\ image' = <<>>
  /\ \/ /\ used /\ pc' = "idle" /\ rc' = NET_ERR
        /\ UNCHANGED <<socket, toS>>
     \/ /\ ~used
        /\ \/ /\ used' = TRUE /\ pc' = "idle" /\ rc' = NET_ERR
              /\ UNCHANGED <<ring, err, toS>>
           \/ Return(NO_BUF) /\ UNCHANGED toS
           \/ SendFailed(Msg("RRQ", dl', 0, <<>>))
           \/ /\ pc' = "poll" /\ used' = TRUE
              /\ ring' = <<>> /\ err' = FALSE
              /\ toS' = toS \cup {Msg("RRQ", dl', 0, <<>>)}
              /\ UNCHANGED rc
  /\ UNCHANGED <<toC, world, server>>

\* Send an ACK, then the loop again: udp_recvfrom polls only when the ring is
\* empty.
Ack(n, rest) ==
  \/ SendFailed(Msg("ACK", dl, n % BlkMod, <<>>))
  \/ /\ toS' = toS \cup {Msg("ACK", dl, n % BlkMod, <<>>)}
     /\ pc' = IF rest = <<>> THEN "poll" ELSE "take"
     /\ ring' = rest
     /\ UNCHANGED <<rc, used, err>>

\* The last ACK, and success.
AckAndDone(n) ==
  \/ SendFailed(Msg("ACK", dl, n % BlkMod, <<>>))
  \/ Return(0) /\ toS' = toS \cup {Msg("ACK", dl, n % BlkMod, <<>>)}

Timely(d) == env.prompt => \A m \in toC \cup toS : m.d # d

TimedOut_NoAck ==
  /\ pc = "poll" /\ ring = <<>> /\ ~err /\ Timely(dl)
  /\ touts' = touts + 1
  /\ IF touts' > TFTP_TIMEOUT_NUM \/ last = 0
     THEN Return(TIMEOUT) /\ UNCHANGED toS
     ELSE UNCHANGED <<rc, pc, socket, toS>>
  /\ UNCHANGED <<dl, flen, blen, last, room, image, toC, world, server>>

TimedOut_NotCounted ==
  /\ pc = "poll" /\ ring = <<>> /\ ~err /\ Timely(dl)
  /\ IF touts > TFTP_TIMEOUT_NUM \/ last = 0
     THEN Return(TIMEOUT) /\ UNCHANGED toS
     ELSE Ack(last, <<>>)
  /\ UNCHANGED <<dl, flen, blen, last, touts, room, image, toC, world, server>>

\* udp_recvfrom returns nothing within its time: the last ACK once more, or
\* the end.
TimedOut ==
  /\ pc = "poll" /\ ring = <<>> /\ ~err /\ Timely(dl)
  /\ touts' = touts + 1
  /\ IF touts' > TFTP_TIMEOUT_NUM \/ last = 0
     THEN Return(TIMEOUT) /\ UNCHANGED toS
     ELSE Ack(last, <<>>)
  /\ UNCHANGED <<dl, flen, blen, last, room, image, toC, world, server>>

\* udp_recvfrom comes back from a poll with error_code set.
Overflowed ==
  /\ pc = "poll" /\ err
  /\ Return(NET_ERR)
  /\ UNCHANGED <<dl, flen, blen, last, touts, room, image, toC, toS, world,
                 server>>

Ends_Full(k, left) == left = 0 \/ k <= TFTP_BUF_SIZE

\* The file ends with a block that is not full, or with the buffer.
Ends(k, left) == left = 0 \/ k < TFTP_BUF_SIZE

IsNext_Any(n) == n > 0

\* ntohs(th_block) == last_good_block + 1, where only one side wraps.
IsNext(n) == n = last + 1

\* DATA with number n and these units after its header.
GotData(n, body, rest) ==
  LET k    == Len(body)
      kept == SubSeq(body, 1, Smaller(k, room))
  IN  \/ /\ IsNext(n) /\ k > room
         /\ image' = image \o kept /\ room' = 0
         /\ Return(TOO_LARGE)
         /\ UNCHANGED <<last, toS>>
      \/ /\ IsNext(n) /\ k <= room
         /\ image' = image \o kept /\ room' = room - k
         /\ last' = last + 1
         /\ IF Ends(k, room') THEN AckAndDone(last') ELSE Ack(last', rest)
      \/ /\ ~IsNext(n)
         /\ Ack(last, rest)
         /\ UNCHANGED <<image, room, last>>

\* What the first unit reads as: a header says so itself, a unit of file data
\* in its place may read as anything.
Readings(u) ==
  IF u[1] \in {"DATA", "ERROR"}
  THEN {u}
  ELSE {<<"DATA", dl, n>> : n \in 0 .. BlkMod - 1}
         \cup {<<"ERROR", dl, c>> : c \in env.errors \cup {0}}
         \cup {<<"?", dl, 0>>}

Taken == SubSeq(ring, 1, Smaller(Len(ring), TFTP_BUF_SIZE + 1))

Rest == SubSeq(ring, Len(Taken) + 1, Len(ring))

\* udp_recvfrom returns up to TFTP_PKT_SIZE of what the ring holds.
Receive ==
  /\ pc = "take" \/ (pc = "poll" /\ ~err)
  /\ ring # <<>>
  /\ \E u \in Readings(Taken[1]) :
       \/ u[1] = "DATA" /\ GotData(u[3], Tail(Taken), Rest)
       \/ u[1] = "ERROR" /\ Return(u[3]) /\ UNCHANGED <<image, room, last, toS>>
       \/ u[1] = "?" /\ Return(UNKNOWN) /\ UNCHANGED <<image, room, last, toS>>
  /\ UNCHANGED <<dl, flen, blen, touts, toC, world, server>>

-----------------------------------------------------------------------------
(* udp_input, called by the poll                                            *)

Accepts_AnyPort(m) == used

Accepts(m) == used /\ m.d = dl

\* data_size + len > buf_size
Overflows(n) == Len(ring) + n > RingSize

\* One datagram more while a poll lasts, udp_recvfrom's or that of the ARP
\* lookup before an ACK; it fits in the ring or is dropped with an error.  For
\* another port, or when no socket is open, it is discarded.
Deliver(m) ==
  /\ m \in toC /\ toC' = toC \ {m}
  /\ IF pc # "idle" /\ Accepts(m)
     THEN LET units == <<Header(m)>> \o m.body IN
          IF Overflows(Len(units))
          THEN err' = TRUE /\ UNCHANGED ring
          ELSE ring' = ring \o units /\ UNCHANGED err
     ELSE UNCHANGED <<ring, err>>
  /\ UNCHANGED <<client, used, toS, world, server>>

-----------------------------------------------------------------------------
(* The server and the network (external)                                    *)

Block(d, b) ==
  Msg("DATA", d, b % BlkMod,
      [i \in 1 .. Smaller(TFTP_BUF_SIZE, flen - (b - 1) * TFTP_BUF_SIZE) |->
         Datum(d, (b - 1) * TFTP_BUF_SIZE + i)])

Last == flen \div TFTP_BUF_SIZE + 1

\* The server answers a request, acknowledged blocks move it on, and it
\* repeats a block a few times, when a timer runs out or for an old ACK.
ServerRequest(m) ==
  /\ m \in toS /\ m.k = "RRQ" /\ toS' = toS \ {m}
  /\ \/ /\ sblk' = [sblk EXCEPT ![m.d] = 1]
        /\ stries' = [stries EXCEPT ![m.d] = env.tries]
        /\ toC' = IF m.d = dl THEN toC \cup {Block(m.d, 1)} ELSE toC
     \/ /\ \E c \in env.errors : toC' = toC \cup {Msg("ERROR", m.d, c, <<>>)}
        /\ UNCHANGED server
  /\ UNCHANGED <<client, socket, world>>

ServerAck(m) ==
  LET b       == sblk[m.d]
      serving == stries[m.d] >= 0 /\ m.d = dl
      current == serving /\ m.n = b % BlkMod
      old     == serving /\ env.resends /\ (m.n + 1) % BlkMod = b % BlkMod
  IN
  /\ m \in toS /\ m.k = "ACK" /\ toS' = toS \ {m}
  /\ \/ /\ current /\ b < Last
        /\ sblk' = [sblk EXCEPT ![m.d] = b + 1]
        /\ stries' = [stries EXCEPT ![m.d] = env.tries]
        /\ toC' = toC \cup {Block(m.d, b + 1)}
     \/ /\ current /\ b = Last
        /\ stries' = [stries EXCEPT ![m.d] = -1]
        /\ UNCHANGED <<sblk, toC>>
     \/ /\ old
        /\ toC' = toC \cup {Block(m.d, b)}
        /\ UNCHANGED server
     \/ ~current /\ ~old /\ UNCHANGED <<server, toC>>
  /\ UNCHANGED <<client, socket, world>>

ServerRepeat(d) ==
  /\ d = dl /\ stries[d] >= 0 /\ Timely(d)
  /\ env.prompt => ring = <<>>
  /\ stries' = [stries EXCEPT ![d] = @ - 1]
  /\ toC' = IF stries[d] > 0 THEN toC \cup {Block(d, sblk[d])} ELSE toC
  /\ UNCHANGED <<client, socket, toS, world, sblk>>

Lose(m) ==
  /\ faults > 0 /\ faults' = faults - 1 /\ m.k \in env.losable
  /\ m \in toC \cup toS /\ toC' = toC \ {m} /\ toS' = toS \ {m}
  /\ UNCHANGED <<client, socket, server, env>>

Get == TimedOut \/ Overflowed \/ Receive

Serve ==
  \/ \E m \in toS : ServerRequest(m) \/ ServerAck(m)
  \/ \E m \in toC : Deliver(m)
  \/ \E d \in 1 .. Downloads : ServerRepeat(d)

\* Nothing left to download.
Over == pc = "idle" /\ dl = env.downloads /\ UNCHANGED vars

Next ==
  \/ \E f \in env.files, b \in env.buffers : Start(f, b)
  \/ Get \/ Serve
  \/ \E m \in toC \cup toS : Lose(m)
  \/ Over

Spec     == Init /\ [][Next]_vars
FairSpec == Spec /\ WF_vars(Get) /\ WF_vars(Serve)

-----------------------------------------------------------------------------
(* Properties                                                               *)

\* Every variable keeps its type.
TypeOK ==
  /\ pc \in {"idle", "poll", "take"} /\ rc \in Int
  /\ dl \in 0 .. Downloads /\ last \in Nat /\ touts \in 0 .. TFTP_TIMEOUT_NUM + 1
  /\ room \in 0 .. blen /\ Len(image) <= blen
  /\ used \in BOOLEAN /\ err \in BOOLEAN /\ Len(ring) <= RingSize
  /\ \A d \in 1 .. Downloads : stries[d] \in -1 .. env.tries

\* tftpc_get returns 0 only with the whole file in the buffer, whatever the
\* network loses or repeats and whatever older downloads left behind.  Three
\* cases are excepted, in which the code does return 0 for less: datagrams
\* that run together in the ring (RetransmitIgnored), an ERROR with code 0
\* (tftp_client.c:206-210), and a file that goes on where full blocks have
\* filled the buffer exactly (tftp_client.c:196).
SuccessIsWhole ==
  /\ pc = "idle" /\ dl > 0 /\ rc = 0
  /\ env.prompt /\ 0 \notin env.errors
  /\ ~(flen > blen /\ blen % TFTP_BUF_SIZE = 0)
  => image = [i \in 1 .. flen |-> Datum(dl, i)]

\* Between downloads the socket is free: each of the ways out closes it.  It
\* stays taken only once udp_socket itself has failed, and then no download
\* gets as far as a block any more.
SocketReleased == pc = "idle" /\ used => rc = NET_ERR /\ last = 0

\* A retransmitted block is not stored again ("maybe re-transmit data block
\* (same seq)", tftp_client.c:182): the buffer holds a prefix of the file.
RetransmitIgnored == \A i \in 1 .. Len(image) : image[i] = Datum(dl, i)

\* Every download comes to an end, except that a server which answers an old
\* ACK with a block keeps a download going for ever once th_block has wrapped
\* and last_good_block has not.
Terminates ==
  pc # "idle" /\ ~(env.resends /\ Last >= BlkMod) ~> pc = "idle"

\* Only DATA and ACK datagrams get lost, no more than there are time-outs on
\* either side.
Recoverable ==
  /\ env.losable \subseteq {"DATA", "ACK"}
  /\ env.faults <= TFTP_TIMEOUT_NUM /\ env.faults <= env.tries
  /\ env.prompt /\ env.resends /\ ~env.sendFails
  /\ flen <= blen /\ Last < BlkMod

\* Such losses are made up for: a download whose first block has arrived
\* succeeds.
SurvivesLoss == last > 0 /\ Recoverable ~> pc = "idle" /\ rc = 0
=============================================================================
