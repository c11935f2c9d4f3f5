-------------------------------- MODULE Web ---------------------------------
(***************************************************************************)
(* The web server of BOARD_SUPPORT_WEB: the sockets of src/net/tcp.c and    *)
(* the upload of src/net/http.c.                                           *)
(*                                                                         *)
(* tcp_input runs inside enet_poll.  Each of its answers goes through       *)
(* tcp_sendto, whose arp_lookup polls again while the peer's address is     *)
(* not cached (tcp.c:905), so that other segments are handled before the    *)
(* statements that follow the send: pend is the stack of those statements.  *)
(* A peer is one remote (address, port).  Segments get lost, repeated,      *)
(* reordered and cut anew: any run of the peer's stream may arrive at any   *)
(* time.  The states that need an active open or close of our own           *)
(* (SYN_SENT, FIN_WAIT_1/2, CLOSING, TIME_WAIT) are never entered, nor is   *)
(* del_timeout ever set.                                                   *)
(***************************************************************************)
EXTENDS Integers, Sequences, FiniteSets

CONSTANTS
  Peer,          \* remote (address, port) pairs
  Poster,        \* the peers that upload; the others only ask for pages
  SockMax,       \* TCP_SOCKET_MAX_NUM
  FileLen,       \* bound: pieces of the uploaded file
  Nesting        \* bound: answers waiting for ARP at one time

NoPeer == "none"

ASSUME WebAssumption ==
  /\ Poster \subseteq Peer /\ NoPeer \notin Peer
  /\ SockMax \in Nat \ {0} /\ FileLen \in Nat \ {0} /\ Nesting \in Nat

Sock == 0 .. SockMax - 1

\* What strstr looks for in an upload: request line, "boundary=",
\* "Content-Length: ", the boundary before and after the file, its pieces.
REQ  == -1
DECL == -2
LEN  == -3
MARK == -4
END  == -5
File   == [i \in 1 .. FileLen |-> i]
Stream == <<REQ, DECL, LEN, MARK>> \o File \o <<END>>
TolLen == FileLen + 2                  \* Content-Length: MARK, file, END

VARIABLES
  sock,     \* tcp_socks
  arpKnown, \* the peers whose hardware address arp_lookup finds at once
  pend,     \* what follows each tcp_sendto in progress, innermost last
  tol,      \* http_t.tol_len
  buf,      \* http_t.post_buf, curr_len pieces
  again     \* history: an upload began while an earlier one waits to be
            \* programmed

http    == <<tol, buf, again>>
webVars == <<sock, arpKnown, pend, http>>

\* tcp_init, and what the memset of tcp_close leaves.  acked: local_seq is
\* past our SYN.  bnd: the boundary string is empty, of this connection, or
\* of an earlier one.  old: old_seq, as a place in the stream.
FreeSock == [used |-> FALSE, peer |-> NoPeer, st |-> "none", acked |-> FALSE,
             post |-> FALSE, old |-> 0, bnd |-> "no"]

\* An answer is being sent after which post_buf is programmed.
Waiting(q) == \E i \in DOMAIN q : q[i].then \in {"program", "program odd"}

WebInit ==
  /\ sock = [k \in Sock |-> FreeSock]
  /\ arpKnown = {} /\ pend = <<>>
  /\ tol = 0 /\ buf = <<>> /\ again = FALSE

-----------------------------------------------------------------------------
\* tcp_close: the loop runs over sock from k on, but compares with the tuple
\* of socket 0, so that only socket 0 is ever freed.
Closed(s, k) ==
  IF k = 0 THEN [s EXCEPT ![0] = IF s[0].used THEN FreeSock ELSE @]
  ELSE [j \in Sock |-> IF j >= k /\ s[j].used /\ s[j].peer = s[0].peer
                       THEN FreeSock ELSE s[j]]

\* The socket of a segment: the one with its tuple, or else the first unused.
Matching(p) == {k \in Sock : sock[k].peer = p}
Unused      == {k \in Sock : ~sock[k].used}

LookUp(p) == IF Matching(p) # {} THEN Matching(p) ELSE Unused

First(S) == CHOOSE k \in S : \A j \in S : k <= j

\* tcp_socket keeps old_seq and the boundary.
Opened(p, k) ==
  IF Matching(p) # {} THEN sock
  ELSE [sock EXCEPT ![k].used = TRUE, ![k].peer = p, ![k].post = FALSE,
                    ![k].st = "LISTEN"]

\* tcp_sendto on socket k of s, after which the statements `then` follow.
SendThen(k, s, then) ==
  /\ sock' = s
  /\ pend' = Append(pend, [sock |-> k, peer |-> s[k].peer, then |-> then,
                           polls |-> s[k].peer \notin arpKnown])

-----------------------------------------------------------------------------
(* rx_http_packet: pieces a .. b of the stream of an uploading peer.        *)

Has(q, x) == \E i \in DOMAIN q : q[i] = x

From(q, x) == SubSeq(q, CHOOSE i \in DOMAIN q : q[i] = x, Len(q))

\* post_buf after a segment: cut before the first boundary once the length
\* and the boundary are known and that boundary has come.
Cut(q, known) == IF known /\ Has(q, MARK) THEN From(q, MARK) ELSE q

\* The end of the segment holds the boundary and curr_len is tol_len; the
\* end does not and there is less: anything else is the unknown case.
Verdict(last, n, t) ==
  IF last \notin {MARK, END} /\ n < t THEN "more"
  ELSE IF last \in {MARK, END} /\ n = t THEN "whole" ELSE "unknown"

\* Acknowledge and wait for more.
TakeMore(k, s, t, q) ==
  /\ tol' = t /\ buf' = q
  /\ SendThen(k, s, "return")

\* image_upgrade: the file moves to the start of post_buf, http_upgrade
\* answers the browser, and only then web_upgrade programs the buffer.
Upgrade(k, s, t, q, odd) ==
  /\ tol' = t
  /\ buf' = SubSeq(q, 2, IF Len(q) < t THEN Len(q) ELSE t - 1)
  /\ SendThen(k, [s EXCEPT ![k].post = FALSE],
              IF odd THEN "program odd" ELSE "program")

\* A file name that is none of the image names: only an error page.
Unsupported(k, s) ==
  /\ tol' = 0 /\ buf' = <<>>
  /\ SendThen(k, [s EXCEPT ![k].post = FALSE, ![k].bnd = "no"], "return")

\* What both paths below do with post_buf q, tol_len t and boundary bd.
Judge(k, s, t, q, last) ==
  IF q = <<>> \/ q[1] # MARK THEN TakeMore(k, s, t, q)
  ELSE LET v == Verdict(last, Len(q), t)
       IN  IF v = "more" THEN TakeMore(k, s, t, q)
           ELSE \/ Upgrade(k, s, t, q, v = "unknown")
                \/ Unsupported(k, s)

\* The request: everything is looked for in this segment alone.
PostFirst(k, a, b) ==
  LET seg   == SubSeq(Stream, a, b)
      decl  == Has(seg, DECL)
      known == decl /\ Has(seg, LEN)
      s     == [sock EXCEPT ![k].post = TRUE, ![k].old = b + 1,
                            ![k].bnd = IF known THEN "cur" ELSE @]
  IN  /\ ~sock[k].post /\ a > sock[k].old
      /\ a = 1
      /\ Judge(k, s, IF known THEN TolLen ELSE 0, Cut(seg, known), Stream[b])
      /\ again' = (again \/ Waiting(pend))

\* A mutant of PostNext: old_seq is not compared.
PostNext_Any(k, a, b) ==
  LET q     == buf \o SubSeq(Stream, a, b)
      begun == tol # 0 /\ sock[k].bnd = "cur" /\ buf # <<>> /\ buf[1] = MARK
      t     == IF tol = 0 /\ Has(q, LEN) THEN TolLen ELSE tol
      bd    == IF begun \/ t = 0 \/ sock[k].bnd # "no" \/ ~Has(q, DECL)
               THEN sock[k].bnd ELSE "cur"
      s     == [sock EXCEPT ![k].old = b + 1, ![k].bnd = bd]
  IN  /\ sock[k].post
      /\ Judge(k, s, t, IF begun THEN q ELSE Cut(q, t # 0 /\ bd = "cur"),
               Stream[b])
      /\ UNCHANGED again

\* The next segment: looked for in all that has been collected.
PostNext(k, a, b) ==
  LET q     == buf \o SubSeq(Stream, a, b)
      begun == tol # 0 /\ sock[k].bnd = "cur" /\ buf # <<>> /\ buf[1] = MARK
      t     == IF tol = 0 /\ Has(q, LEN) THEN TolLen ELSE tol
      bd    == IF begun \/ t = 0 \/ sock[k].bnd # "no" \/ ~Has(q, DECL)
               THEN sock[k].bnd ELSE "cur"
      s     == [sock EXCEPT ![k].old = b + 1, ![k].bnd = bd]
  IN  /\ sock[k].post /\ a = sock[k].old
      /\ Judge(k, s, t, IF begun THEN q ELSE Cut(q, t # 0 /\ bd = "cur"),
               Stream[b])
      /\ UNCHANGED again

\* A segment that is neither the next one nor a new request is not answered.
PostStale(k, a, b) ==
  /\ IF sock[k].post THEN a # sock[k].old ELSE a <= sock[k].old
  /\ UNCHANGED <<sock, pend, http>>

\* In the middle of a file no request can be read: an error page.
PostBad(k, a, b) ==
  /\ ~sock[k].post /\ a > sock[k].old /\ a # 1
  /\ SendThen(k, sock, "return")
  /\ UNCHANGED http

\* No memory for post_buf.
PostNoMemory(k, a, b) ==
  /\ ~sock[k].post /\ a > sock[k].old /\ a = 1
  /\ UNCHANGED <<sock, pend, http>>

\* GET of a page, or of /reboot.html.
GetPage(k) ==
  /\ \/ SendThen(k, sock, "return")
     \/ SendThen(k, sock, "reboot")
  /\ UNCHANGED http

Http(k, a, b) ==
  IF sock[k].peer \in Poster
  THEN \/ PostFirst(k, a, b)
       \/ PostNext(k, a, b)
       \/ PostStale(k, a, b)
       \/ PostBad(k, a, b)
       \/ PostNoMemory(k, a, b)
  ELSE GetPage(k)

-----------------------------------------------------------------------------
(* tcp_input, one action per state of the socket.  f is SYN, ACK (with the  *)
(* acknowledgement of our SYN), FIN (with ACK), RST or a segment without    *)
(* any of SYN, RST and ACK.                                                *)

\* enet_poll runs: nobody waits, or the innermost answer had to ask for the
\* address.  A call of enet_poll handles all that has been received, also
\* after the address has come.
Polling ==
  pend # <<>> => Len(pend) <= Nesting /\ pend[Len(pend)].polls

\* The case CLOSED, and LISTEN without SYN: answer RST and close.
Refuse(k, s) ==
  SendThen(k, [s EXCEPT ![k].st = "LISTEN", ![k].post = FALSE], "close")

InListen(k, s, f) ==
  /\ s[k].st = "LISTEN"
  /\ IF f = "SYN"
     THEN SendThen(k, [s EXCEPT ![k].acked = FALSE, ![k].old = 0,
                                ![k].bnd = IF @ = "cur" THEN "old" ELSE @],
                   "synack")
     ELSE Refuse(k, s)
  /\ UNCHANGED http

InSynRecvd(k, s, f) ==
  /\ s[k].st = "SYN_RECVD"
  /\ CASE f = "RST" -> sock' = Closed(s, k) /\ UNCHANGED pend
       [] f = "SYN" -> SendThen(k, s, "close if failed")
       [] f \in {"ACK", "FIN"} /\ ~s[k].acked ->
            /\ sock' = [s EXCEPT ![k].st = "ESTABLISHED", ![k].acked = TRUE]
            /\ UNCHANGED pend
       [] OTHER -> UNCHANGED <<sock, pend>>
  /\ UNCHANGED http

\* data: a segment with a payload
InEstablished(k, s, f) ==
  /\ s[k].st = "ESTABLISHED"
  /\ \/ /\ f = "FIN"
        /\ SendThen(k, [s EXCEPT ![k].st = "LAST_ACK"], "close if failed")
        /\ UNCHANGED http
     \/ /\ f = "ACK"
        /\ \E a \in DOMAIN Stream : \E b \in a .. Len(Stream) : Http(k, a, b)
     \/ f \in {"SYN", "bare"} /\ UNCHANGED <<sock, pend, http>>

\* The cases fall through: LAST_ACK ends as CLOSED.
InClosing(k, s, f) ==
  /\ s[k].st \in {"LAST_ACK", "CLOSED"}
  /\ IF s[k].st = "LAST_ACK" /\ f = "FIN"
     THEN SendThen(k, s, "refuse") ELSE Refuse(k, s)
  /\ UNCHANGED http

InReset(k, s) ==
  /\ sock' = [s EXCEPT ![k].st = "CLOSED"]
  /\ UNCHANGED <<pend, http>>

TcpInput ==
  /\ Polling
  /\ \E p \in Peer, f \in {"SYN", "ACK", "FIN", "RST", "bare"} :
       /\ LookUp(p) # {}
       /\ LET k == First(LookUp(p))
              s == Opened(p, k)
          IN  IF f = "RST" /\ s[k].st # "SYN_RECVD" THEN InReset(k, s)
              ELSE \/ InListen(k, s, f)
                   \/ InSynRecvd(k, s, f)
                   \/ InEstablished(k, s, f)
                   \/ InClosing(k, s, f)
  /\ UNCHANGED arpKnown

\* arp_reply_listener: an answer to the request that is waiting.
ArpAnswer ==
  /\ pend # <<>> /\ pend[Len(pend)].peer \notin arpKnown
  /\ arpKnown' = arpKnown \cup {pend[Len(pend)].peer}
  /\ UNCHANGED <<sock, pend, http>>

\* tcp_sendto comes back: sent, or (no answer, no buffer) not.  What follows
\* uses the socket and post_buf as they are now.
SendDone ==
  /\ pend # <<>>
  /\ LET top == pend[Len(pend)]
         k   == top.sock
         rest == SubSeq(pend, 1, Len(pend) - 1)
     IN \E sent \in IF top.peer \in arpKnown THEN BOOLEAN ELSE {FALSE} :
          \/ /\ top.then = "return" /\ pend' = rest
             /\ UNCHANGED <<sock, arpKnown, http>>
          \/ /\ \/ top.then = "close"
                \/ ~sent /\ top.then \in {"synack", "refuse", "close if failed"}
             /\ sock' = Closed(sock, k) /\ pend' = rest
             /\ UNCHANGED <<arpKnown, http>>
          \/ /\ top.then = "close if failed" /\ sent /\ pend' = rest
             /\ UNCHANGED <<sock, arpKnown, http>>
          \/ /\ top.then = "synack" /\ sent /\ pend' = rest
             /\ sock' = [sock EXCEPT ![k].st = "SYN_RECVD"]
             /\ UNCHANGED <<arpKnown, http>>
          \/ /\ top.then = "refuse" /\ sent
             /\ sock' = [sock EXCEPT ![k].st = "LISTEN", ![k].post = FALSE]
             /\ pend' = Append(rest, [top EXCEPT !.then = "close", !.polls = FALSE])
             /\ UNCHANGED <<arpKnown, http>>
          \/ /\ top.then \in {"program", "program odd"} /\ pend' = rest
             /\ again' = (again /\ Waiting(rest))
             /\ tol' = 0 /\ buf' = <<>>
             /\ sock' = [sock EXCEPT ![k].bnd = "no"]
             /\ UNCHANGED arpKnown
          \/ /\ top.then = "reboot"
             /\ sock' = [j \in Sock |-> FreeSock] /\ arpKnown' = {}
             /\ pend' = <<>> /\ tol' = 0 /\ buf' = <<>> /\ again' = FALSE

\* icmp_ping flushes the ARP cache.
ArpFlush ==
  /\ pend = <<>> /\ arpKnown # {}
  /\ arpKnown' = {}
  /\ UNCHANGED <<sock, pend, http>>

WebNext == TcpInput \/ ArpAnswer \/ SendDone \/ ArpFlush

WebSpec == WebInit /\ [][WebNext]_webVars

-----------------------------------------------------------------------------
\* What web_upgrade programs at the end of an upload whose end was seen is the
\* file the browser sent, whatever was handled while http_upgrade answered
\* (image_upgrade, and tcp_sendto inside it) and however the segments came.
\* Left out: the unknown case of image_upgrade, which programs what is there,
\* and a new upload that begins while this one waits in http_upgrade.
UploadIsFile ==
  pend # <<>> /\ pend[Len(pend)].then = "program" /\ ~again => buf = File
=============================================================================
