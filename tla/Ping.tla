-------------------------------- MODULE Ping --------------------------------
(***************************************************************************)
(* The ping command (src/ui/ui_ping.c, src/net/icmp.c) and the ARP cache it *)
(* sends through (src/net/arp.c, src/net/ip.c).                            *)
(*                                                                         *)
(* Nothing runs but enet_poll and what enet_poll calls.  arp_request polls, *)
(* and a handler called by that poll may look up another address (tcp_sendto*)
(* does), so that requests nest: req is the stack of them.  Replies get     *)
(* lost, delayed and repeated: what was answered once may arrive at any     *)
(* time.  Hardware addresses are those of their entry's host.              *)
(***************************************************************************)
EXTENDS Integers, Sequences, FiniteSets

CONSTANTS
  Host,        \* IP addresses
  Local,       \* those for which ip_is_local_net holds
  Gateway,     \* sys_get_ip_gateway()
  CacheNum,    \* ARP_MAX_CACHE_NUM
  IdentMod,    \* range of the ident field (65536)
  Tries,       \* times arp_request asks (3)
  Depth,       \* bound: requests waiting at one time
  MaxIdent     \* bound: echoes sent

NoHost == "none"   \* an entry not in use; the NULL that a lookup returns

ASSUME PingAssumption ==
  /\ Local \subseteq Host /\ Gateway \in Local /\ NoHost \notin Host
  /\ {CacheNum, IdentMod, Tries, Depth, MaxIdent} \subseteq Nat \ {0}

Slot == 0 .. CacheNum - 1

VARIABLES
  arpTbl,   \* arp_cache_tbl: the address in each entry in use
  arpNum,   \* arp_cache_num
  listens,  \* arp_listen_handler is set
  req,      \* the calls of arp_request, innermost last
  ping,     \* icmp_ping: where it is, with host, num, count, arg and arp
  ident,    \* icmp_ident
  answered, \* history: the echoes that their host has answered
  onWay,    \* history: the echoes sent to their host
  said      \* the last line icmp_ping printed about an echo

pingVars == <<arpTbl, arpNum, listens, req, ping, ident, answered, onWay, said>>
arp      == <<arpTbl, arpNum, listens, req>>

NoPing == [pc |-> "idle", host |-> NoHost, num |-> 0, count |-> 0, arg |-> 0,
           arp |-> NoHost]

PingInit ==
  /\ arpTbl = [i \in Slot |-> NoHost] /\ arpNum = 0 /\ listens = FALSE
  /\ req = <<>> /\ ping = NoPing /\ ident = 1
  /\ answered = {} /\ onWay = {} /\ said = "nothing"

-----------------------------------------------------------------------------
(* arp.c *)

\* arp_chk_entry
Cached(h) == \E i \in Slot : arpTbl[i] = h

\* A mutant of LearnAt: any entry, also one in use.
LearnAt_Any(h) == IF Cached(h) THEN {} ELSE Slot

\* arp_reply_listener: an address not yet known takes the first free entry;
\* without one the reply is lost.
LearnAt(h) ==
  IF Cached(h) THEN {}
  ELSE {i \in Slot : arpTbl[i] = NoHost /\ \A j \in 0 .. i - 1 : arpTbl[j] # NoHost}

Learn(h) ==
  IF LearnAt(h) = {} THEN UNCHANGED <<arpTbl, arpNum>>
  ELSE \E i \in LearnAt(h) :
         /\ arpTbl' = [arpTbl EXCEPT ![i] = h]
         /\ arpNum' = arpNum + 1

Flush == arpTbl' = [i \in Slot |-> NoHost] /\ arpNum' = 0

NextHop(h) == IF h \in Local THEN h ELSE Gateway

\* arp_request, to the point where it has sent its request, or has no buffer.
Ask(h) ==
  \/ req' = Append(req, [ip |-> h, left |-> Tries - 1]) /\ listens' = TRUE
  \/ req' = Append(req, [ip |-> NoHost, left |-> 0]) /\ UNCHANGED listens

\* arp_lookup of an address that is not in the cache: a full cache is emptied
\* first.  (An address that is in the cache is returned at once.)
LookUpMiss(h) ==
  /\ ~Cached(h)
  /\ IF arpNum = CacheNum THEN Flush ELSE UNCHANGED <<arpTbl, arpNum>>
  /\ Ask(NextHop(h))

\* enet_poll is running: a request waits, or icmp_ping waits for the answer.
Polls == IF req # <<>> THEN req[Len(req)].ip # NoHost ELSE ping.pc = "wait"

\* A reply, to this request or another one, comes in.
ArpReply ==
  /\ Polls
  /\ \E h \in Host : IF listens THEN Learn(h) ELSE UNCHANGED <<arpTbl, arpNum>>
  /\ UNCHANGED <<listens, req, ping, ident, answered, onWay, said>>

\* A handler called by the poll looks up an address of its own.
NestedLookUp ==
  /\ Polls /\ Len(req) < Depth
  /\ \E h \in Host : LookUpMiss(h)
  /\ UNCHANGED <<ping, ident, answered, onWay, said>>

\* What the caller of the request gets: an entry's address or NULL.
Answer(h) ==
  /\ req' = SubSeq(req, 1, Len(req) - 1)
  /\ ping' = IF Len(req) = 1 /\ ping.pc \in {"first", "next"}
             THEN IF ping.pc = "first" /\ h = NoHost THEN NoPing
                  ELSE [ping EXCEPT !.arp = h,
                          !.pc = IF ping.pc = "first" THEN "ready" ELSE "send"]
             ELSE ping

\* The check after each poll finds the entry.
RequestFound ==
  /\ req # <<>> /\ LET top == req[Len(req)] IN
       /\ top.ip # NoHost /\ Cached(top.ip)
       /\ listens' = FALSE /\ Answer(top.ip)
  /\ UNCHANGED <<arpTbl, arpNum, ident, answered, onWay, said>>

\* A second has passed: ask once more, or give up.
RequestTimeout ==
  /\ req # <<>> /\ LET top == req[Len(req)] IN
       /\ top.ip = NoHost \/ ~Cached(top.ip)
       /\ \/ /\ top.ip # NoHost /\ top.left > 0 /\ listens' = TRUE
             /\ req' = [req EXCEPT ![Len(req)].left = @ - 1]
             /\ UNCHANGED ping
          \/ /\ top.ip # NoHost /\ top.left > 0 \* no buffer for the next one
             /\ listens' = FALSE /\ Answer(NoHost)
          \/ /\ top.left = 0 /\ Answer(NoHost)
             /\ listens' = IF top.ip = NoHost THEN listens ELSE FALSE
  /\ UNCHANGED <<arpTbl, arpNum, ident, answered, onWay, said>>

-----------------------------------------------------------------------------
(* icmp_ping *)

\* cli_ping_cmd with legal arguments; the cache is emptied, so that the first
\* lookup asks.
PingStart ==
  /\ ping.pc = "idle" /\ req = <<>>
  /\ \E h \in Host, n \in 1 .. 2 :
       /\ ping' = [NoPing EXCEPT !.pc = "first", !.host = h, !.count = n]
       /\ Flush /\ Ask(NextHop(h))
  /\ UNCHANGED <<ident, answered, onWay, said>>

\* The lookup before each echo; its failure is printed and the echo sent all
\* the same.
PingLookUp ==
  /\ ping.pc = "ready" /\ ping.num < ping.count /\ req = <<>>
  /\ IF Cached(ping.host)
     THEN ping' = [ping EXCEPT !.pc = "send", !.arp = ping.host] /\ UNCHANGED arp
     ELSE LookUpMiss(ping.host) /\ ping' = [ping EXCEPT !.pc = "next"]
  /\ UNCHANGED <<ident, answered, onWay, said>>

\* ESC, or no buffer, ends it; else the echo goes out, to the hardware address
\* the lookup found, or with none to an address read through NULL.
PingSend ==
  /\ ping.pc = "send"
  /\ \/ ping' = NoPing /\ UNCHANGED onWay
     \/ /\ ident <= MaxIdent
        /\ ping' = [ping EXCEPT !.pc = "wait", !.arg = ident]
        /\ onWay' = IF ping.arp = NoHost THEN onWay ELSE onWay \cup {ident}
  /\ UNCHANGED <<arp, ident, answered, said>>

\* The host answers an echo that was sent to it.
HostAnswers ==
  /\ \E e \in onWay \ answered : answered' = answered \cup {e}
  /\ UNCHANGED <<arp, ping, ident, onWay, said>>

\* A mutant of Matches: the 16 bits are compared.
Matches_Field(a, v) == a % IdentMod = v

\* icmp_ping_listener: arg is compared, unreduced, with the field of the
\* reply.
Matches(a, v) == a = v

EchoReply ==
  /\ ping.pc = "wait" /\ Polls
  /\ \E e \in answered :
       ping' = [ping EXCEPT !.arg = IF Matches(ping.arg, e % IdentMod) THEN 0 ELSE -1]
  /\ UNCHANGED <<arp, ident, answered, onWay, said>>

\* After a poll that changed arg, or when the time is over.
PingReport ==
  /\ ping.pc = "wait" /\ req = <<>>
  /\ said' = IF ping.arg = ident THEN "time-out"
             ELSE IF ping.arg # 0 THEN "error" ELSE "reply"
  /\ ident' = ident + 1
  /\ ping' = IF ping.num + 1 = ping.count THEN NoPing
             ELSE [ping EXCEPT !.pc = "ready", !.num = @ + 1]
  /\ UNCHANGED <<arp, answered, onWay>>

PingNext ==
  \/ ArpReply \/ NestedLookUp \/ RequestFound \/ RequestTimeout
  \/ PingStart \/ PingLookUp \/ PingSend \/ HostAnswers \/ EchoReply
  \/ PingReport

PingSpec == PingInit /\ [][PingNext]_pingVars

-----------------------------------------------------------------------------
\* arp_cache_num counts the entries in use (arp_reply_listener, arp_flush), which is what empties a full
\* cache before the next request; no address is there twice; and the listener
\* is set only while some request waits.
ArpSound ==
  /\ arpNum = Cardinality({i \in Slot : arpTbl[i] # NoHost})
  /\ \A i, j \in Slot : i # j /\ arpTbl[i] = arpTbl[j] => arpTbl[i] = NoHost
  /\ listens => req # <<>>

\* A reply is reported only for an echo that the host has received and
\* answered (icmp_ping, icmp_ping_listener), never on account of an answer to an
\* earlier one, also after the 16-bit ident has wrapped.
PingHonest == said = "reply" => ident - 1 \in answered
=============================================================================
