------------------------------ MODULE TftpPut -------------------------------
(***************************************************************************)
(* Sending memory to a server by TFTP: the command of src/ui/ui_tftp.c and  *)
(* tftpc_put of src/net/tftp_client.c.                                     *)
(*                                                                         *)
(* Datagrams are lost, delayed, repeated and reordered: whatever was sent   *)
(* may arrive at any time, any number of times or never.  (The socket's     *)
(* ring may join two ACKs; the second is then read as payload and lost.)    *)
(* The server is the usual one: it stores the block it expects and          *)
(* acknowledges that and every earlier one.                                *)
(***************************************************************************)
EXTENDS Integers, Sequences

CONSTANTS
  PutBlock,     \* TFTP_BUF_SIZE, in units
  PutTimeouts,  \* TFTP_TIMEOUT_NUM
  PutMod,       \* th_block wraps here (65536)
  PutLens,      \* lengths of what is sent, in units
  MaxPort       \* bound: requests, each from a port of its own

ASSUME PutAssumption ==
  /\ {PutBlock, MaxPort} \subseteq Nat \ {0} /\ PutTimeouts \in Nat
  /\ PutMod \in Nat \ {0, 1} /\ PutLens \subseteq Nat \ {0}

VARIABLES
  put,     \* tftpc_put: where it is, with len, total, last_good_block,
           \* total_timeouts and its return value
  port,    \* tftpc_get_sport's last
  toSrv,   \* the datagrams sent, by port
  toPut,   \* what the server sent
  srvHas   \* the server: the units it has of each port's file; -1 before
           \* the request

putVars == <<put, port, toSrv, toPut, srvHas>>

PutIdle == [pc |-> "idle", len |-> 0, total |-> 0, last |-> 0, touts |-> 0,
            rc |-> "none"]

PutInit ==
  /\ put = PutIdle /\ port = 0 /\ toSrv = {} /\ toPut = {}
  /\ srvHas = [p \in 1 .. MaxPort |-> -1]

-----------------------------------------------------------------------------
\* Every way out frees the packet and the copy and closes the socket.
PutReturn(rc) == put' = [put EXCEPT !.pc = "idle", !.rc = rc]

\* The write request, from the next port, or it cannot be sent.
SendWrq(p) ==
  \/ /\ port < MaxPort /\ port' = port + 1
     /\ toSrv' = toSrv \cup {[k |-> "WRQ", p |-> port + 1, n |-> 0, from |-> 0, len |-> 0]}
     /\ put' = [p EXCEPT !.pc = "wrq"]
  \/ put' = [p EXCEPT !.pc = "idle", !.rc = "net"] /\ UNCHANGED <<port, toSrv>>

\* cli_tftp_cmd copies the memory and calls tftpc_put: no memory, no socket
\* (the last download left it taken), no packet; or the request goes out.
PutStart ==
  /\ put.pc = "idle" /\ port < MaxPort
  /\ \E l \in PutLens :
       LET p == [PutIdle EXCEPT !.len = l]
       IN  \/ put' = [p EXCEPT !.rc = "no memory"] /\ UNCHANGED <<port, toSrv>>
           \/ SendWrq(p)
  /\ UNCHANGED <<toPut, srvHas>>

\* The units of the next block.
Size(total, len) == IF len - total < PutBlock THEN len - total ELSE PutBlock

\* DATA; an empty one ends it, without waiting for an answer.
SendData(p) ==
  LET k == Size(p.total, p.len)
  IN  \/ /\ toSrv' = toSrv \cup {[k |-> "DATA", p |-> port, n |-> p.last % PutMod,
                                  from |-> p.total, len |-> k]}
         /\ put' = IF k = 0 THEN [p EXCEPT !.pc = "idle", !.rc = "ok"]
                   ELSE [p EXCEPT !.pc = "data"]
      \/ put' = [p EXCEPT !.pc = "idle", !.rc = "net"] /\ UNCHANGED toSrv

\* Three seconds without an answer: once more, or the end.
PutTimeout ==
  /\ put.pc \in {"wrq", "data"}
  /\ LET p == [put EXCEPT !.touts = @ + 1]
     IN  IF p.touts > PutTimeouts
         THEN PutReturn("timeout") /\ UNCHANGED <<port, toSrv>>
         ELSE \/ put.pc = "wrq" /\ SendWrq(p)
              \/ put.pc = "data" /\ SendData(p) /\ UNCHANGED port
  /\ UNCHANGED <<toPut, srvHas>>

\* A mutant of Acked: th_block is not compared.
Acked_Any(p, n) == TRUE

\* The ACK that counts: th_block against the whole number, not its low half.
Acked(p, n) == n = p.last

AfterAck(p, n) ==
  IF Acked(p, n) THEN [p EXCEPT !.total = @ + Size(p.total, p.len), !.last = @ + 1]
  ELSE p

\* An answer to this port.  Any ACK answers the request; an ERROR ends the
\* call with its code, one of which is the 0 of success.
PutReceive ==
  /\ put.pc \in {"wrq", "data"}
  /\ \E m \in toPut :
       /\ m.p = port
       /\ LET p == [put EXCEPT !.touts = 0]
          IN  \/ m.k = "ACK" /\ put.pc = "wrq" /\ SendData([p EXCEPT !.last = 1])
              \/ m.k = "ACK" /\ put.pc = "data" /\ SendData(AfterAck(p, m.n))
              \/ m.k = "ERROR" /\ PutReturn("error") /\ UNCHANGED toSrv
  /\ UNCHANGED <<port, toPut, srvHas>>

\* udp_recvfrom fails, or the datagram is of no known kind.
PutFails ==
  /\ put.pc \in {"wrq", "data"}
  /\ PutReturn("net") \/ PutReturn("unknown")
  /\ UNCHANGED <<port, toSrv, toPut, srvHas>>

-----------------------------------------------------------------------------
\* The server.
ServerTakes ==
  /\ \E m \in toSrv :
       LET had  == srvHas[m.p]
           want == had \div PutBlock + 1
           good == m.k = "DATA" /\ had >= 0 /\ m.n = want % PutMod
                   /\ had % PutBlock = 0
       IN  /\ m.k = "WRQ" \/ had >= 0
           /\ srvHas' = IF m.k = "WRQ" THEN [srvHas EXCEPT ![m.p] = IF had < 0 THEN 0 ELSE had]
                        ELSE IF good THEN [srvHas EXCEPT ![m.p] = had + m.len] ELSE srvHas
           /\ \/ toPut' = toPut \cup {[k |-> "ACK", p |-> m.p, n |-> m.n]}
              \/ toPut' = toPut \cup {[k |-> "ERROR", p |-> m.p, n |-> 0]}
  /\ UNCHANGED <<put, port, toSrv>>

PutNext == PutStart \/ PutTimeout \/ PutReceive \/ PutFails \/ ServerTakes

PutSpec == PutInit /\ [][PutNext]_putVars

-----------------------------------------------------------------------------
\* tftpc_put returns 0 only when the server has stored all units of the file:
\* lost, repeated and late ACKs, and those of an earlier request, never make
\* it count a block the server does not have.  (That the server knows the file
\* to be complete is not promised: the last, empty block is sent once.)
PutWhole == put.rc = "ok" => srvHas[port] = put.len
=============================================================================
