--------------------------- MODULE TftpGetProof ----------------------------
(***************************************************************************)
(* A TFTP download that reports success has stored the whole file, for      *)
(* every length of file and buffer and every width of the block number.     *)
(***************************************************************************)
EXTENDS TftpGet, TLAPS

-----------------------------------------------------------------------------
(* What keeps client and server in step                                     *)

\* Datagrams belong to downloads begun; those to come are untouched.
GetTypeOK ==
  /\ pc \in {"idle", "poll", "take"} /\ env \in Settings
  /\ dl \in 0 .. Downloads /\ flen \in Nat /\ blen \in Nat /\ last \in Nat
  /\ sblk \in [1 .. Downloads -> Nat] /\ stries \in [1 .. Downloads -> Int]
  /\ \A m \in toC : m.d \in 1 .. dl /\ m.k \in {"DATA", "ERROR"}
  /\ \A m \in toS : m.d \in 1 .. dl /\ m.k \in {"RRQ", "ACK"}
  /\ \A d \in 1 .. Downloads : d > dl => sblk[d] = 0 /\ stries[d] = -1
  /\ pc # "idle" => dl > 0
  /\ pc = "idle" => ring = <<>>

\* Of the present download one datagram is under way at most, or in the ring.
OneUnderWay ==
  /\ \A m, n \in toC \cup toS : m.d = dl /\ n.d = dl => m = n
  /\ ring # <<>> => \A m \in toC \cup toS : m.d # dl

\* What the server may have sent last.
Reply(m) ==
  \/ sblk[dl] > 0 /\ m = Block(dl, sblk[dl])
  \/ \E c \in env.errors : m = Msg("ERROR", dl, c, <<>>)

\* What a datagram to the client says is what the server sent last; an ACK is
\* of the last block stored.
UpToDate ==
  /\ \A m \in toC : m.d = dl => Reply(m)
  /\ ring # <<>> => \E m : Reply(m) /\ ring = <<Header(m)>> \o m.body
  /\ \A m \in toS : m.d = dl => \/ m.k = "RRQ" /\ sblk[dl] = 0
                                \/ m.k = "ACK" /\ m.n = last % BlkMod

\* The server is at the block stored last, or at the next one.
InStep ==
  dl > 0 => /\ sblk[dl] \in {last, last + 1}
            /\ stries[dl] >= 0 => sblk[dl] > 0

\* What n full blocks amount to, and the first units of the file.
Full(n) == n * TFTP_BUF_SIZE

Units(d, n) == [i \in 1 .. n |-> Datum(d, i)]

\* While a download goes on, all blocks stored were full ones.
Stored ==
  pc # "idle" => /\ Full(last) <= flen
                 /\ image = Units(dl, Full(last))
                 /\ room = blen - Full(last)

GetInv ==
  /\ GetTypeOK /\ SocketReleased /\ SuccessIsWhole
  /\ env.prompt => OneUnderWay /\ UpToDate /\ InStep /\ Stored

-----------------------------------------------------------------------------
(* The operators                                                            *)

\* Adding a full block.
LEMMA FullNext ==
  ASSUME NEW n \in Nat
  PROVE  /\ Full(0) = 0 /\ Full(n) \in Nat
         /\ Full(n + 1) = Full(n) + TFTP_BUF_SIZE
         /\ Full(n) % TFTP_BUF_SIZE = 0
<1>1. TFTP_BUF_SIZE \in Nat \ {0}
  BY TftpAssumption
<1>2. PICK b \in Nat \ {0} : b = TFTP_BUF_SIZE
  BY <1>1
<1>3. n * b \in Nat /\ (n + 1) * b = n * b + b /\ 0 * b = 0 /\ (n * b) % b = 0
  BY <1>2
<1> QED
  BY <1>2, <1>3 DEF Full

\* What the ring holds is returned whole when it is one datagram.
LEMMA TakenWhole ==
  ASSUME NEW S, NEW h \in S, NEW b \in Seq(S), Len(b) <= TFTP_BUF_SIZE,
         ring = <<h>> \o b
  PROVE  /\ Taken = ring /\ Rest = <<>> /\ Taken[1] = h /\ Tail(Taken) = b
<1>1. TFTP_BUF_SIZE \in Nat
  BY TftpAssumption
<1>2. ring \in Seq(S) /\ Len(ring) = Len(b) + 1 /\ ring[1] = h
  BY SMT
<1>3. Smaller(Len(ring), TFTP_BUF_SIZE + 1) = Len(ring)
  BY <1>1, <1>2 DEF Smaller
<1>4. SubSeq(ring, 1, Len(ring)) = ring
  BY <1>2
<1>5. Taken = ring
  BY <1>3, <1>4 DEF Taken
<1>6. Rest = <<>>
  BY <1>2, <1>5 DEF Rest
<1>7. Tail(ring) = b
  BY <1>2
<1> QED
  BY <1>2, <1>5, <1>6, <1>7

\* The body of block n, whose predecessors were full: the units that follow
\* them, fewer than fill a block only at the end of the file.
LEMMA BlockBody ==
  ASSUME NEW d, NEW n \in Nat, flen \in Nat, Full(n) <= flen
  PROVE  LET b == Block(d, n + 1).body
         IN  /\ b \in Seq({Datum(d, i) : i \in Nat}) /\ Len(b) \in 0 .. TFTP_BUF_SIZE
             /\ Units(d, Full(n)) \o b = Units(d, Full(n) + Len(b))
             /\ Len(b) < TFTP_BUF_SIZE => Full(n) + Len(b) = flen
             /\ Full(n) + Len(b) <= flen
<1> DEFINE S == {Datum(d, i) : i \in Nat}
           k == Smaller(TFTP_BUF_SIZE, flen - Full(n))
           b == [i \in 1 .. k |-> Datum(d, Full(n) + i)]
<1>1. TFTP_BUF_SIZE \in Nat \ {0}
  BY TftpAssumption
<1>2. Full(n) \in Nat
  BY FullNext
<1>3. n + 1 - 1 = n
  OBVIOUS
<1>4. Block(d, n + 1).body = b
  BY <1>3 DEF Block, Msg, Full
<1>5. /\ k \in 0 .. TFTP_BUF_SIZE /\ Full(n) + k <= flen
      /\ k < TFTP_BUF_SIZE => Full(n) + k = flen
  BY <1>1, <1>2 DEF Smaller
<1>6. /\ b \in Seq(S) /\ Len(b) = k
  <2>1. \A i \in 1 .. k : Datum(d, Full(n) + i) \in S
    BY <1>2, <1>5
  <2>2. k \in Nat
    BY <1>5, <1>1
  <2> HIDE DEF S, k
  <2> QED
    BY <2>1, <2>2
<1>7. Units(d, Full(n)) \o b = Units(d, Full(n) + k)
  <2>1. PICK f \in Nat : f = Full(n)
    BY <1>2
  <2>2. PICK j \in Nat : j = k
    BY <1>5, <1>1
  <2>3. \A x \in 1 .. f + j : Datum(d, x) \in S
    BY <2>1, <2>2
  <2>4. [i \in 1 .. f |-> Datum(d, i)] \in Seq(S)
    BY <2>1, <2>2, <2>3
  <2>5. [i \in 1 .. f + j |-> Datum(d, i)] \in Seq(S)
    BY <2>1, <2>2, <2>3
  <2>6. [i \in 1 .. j |-> Datum(d, f + i)] \in Seq(S)
    BY <2>1, <2>2, <2>3
  <2> HIDE DEF S
  <2>7. [i \in 1 .. f |-> Datum(d, i)] \o [i \in 1 .. j |-> Datum(d, f + i)]
          = [i \in 1 .. f + j |-> Datum(d, i)]
    BY <2>4, <2>5, <2>6
  <2> QED
    BY <2>1, <2>2, <2>7 DEF Units
<1> QED
  BY <1>4, <1>5, <1>6, <1>7

-----------------------------------------------------------------------------
(* The client's steps                                                       *)

LEMMA StartKeeps ==
  ASSUME GetInv, NEW f \in env.files, NEW b \in env.buffers, Start(f, b)
  PROVE  GetInv'
<1>0. /\ f \in Nat /\ b \in Nat /\ dl' = dl + 1 /\ dl' \in 1 .. Downloads /\ dl \in Nat
      /\ NET_ERR # 0 /\ NO_BUF # 0 /\ env' = env
  BY TftpAssumption DEF GetInv, GetTypeOK, Start, world, NET_ERR, NO_BUF
<1> DEFINE q == Msg("RRQ", dl', 0, <<>>)
<1>1. /\ toC' = toC /\ toS' \in {toS, toS \cup {q}} /\ sblk' = sblk /\ stries' = stries
      /\ flen' = f /\ blen' = b /\ last' = 0 /\ room' = b /\ image' = <<>>
      /\ ring' = <<>> /\ pc' \in {"idle", "poll"}
      /\ pc' = "idle" => rc' \in {NET_ERR, NO_BUF}
      /\ pc' = "idle" /\ used' => rc' = NET_ERR
  BY DEF Start, GetInv, GetTypeOK, SendFailed, Return, server, socket
<1>2. q.d = dl' /\ q.k = "RRQ"
  BY DEF Msg
<1>3. sblk[dl'] = 0 /\ stries[dl'] = -1
  BY <1>0 DEF GetInv, GetTypeOK
<1> HIDE DEF q
<1>4. \A m \in toC \cup toS : m.d \in 1 .. dl
  BY DEF GetInv, GetTypeOK
<1>5. GetTypeOK'
  BY <1>0, <1>1, <1>2, <1>3, <1>4 DEF GetInv, GetTypeOK
<1>6. SocketReleased'
  BY <1>1 DEF SocketReleased
<1>7. SuccessIsWhole'
  BY <1>0, <1>1 DEF SuccessIsWhole
<1>8. \A m \in toC' \cup toS' : m.d = dl' => m = q /\ m \in toS' /\ m \notin toC'
  BY <1>0, <1>1, <1>2, <1>4
<1>9. OneUnderWay'
  BY <1>1, <1>8 DEF OneUnderWay
<1>10. UpToDate'
  <2>1. \A m \in toC' : m.d # dl'
    BY <1>8
  <2>2. \A m \in toS' : m.d = dl' => m.k = "RRQ" /\ sblk'[dl'] = 0
    BY <1>1, <1>2, <1>3, <1>8
  <2> QED
    BY <1>1, <2>1, <2>2 DEF UpToDate
<1>11. InStep'
  BY <1>0, <1>1, <1>3 DEF InStep
<1>12. Stored'
  <2>1. Full(0) = 0
    BY FullNext
  <2>2. Units(dl', 0) = <<>>
    BY DEF Units
  <2> QED
    BY <1>0, <1>1, <2>1, <2>2 DEF Stored
<1> QED
  BY <1>5, <1>6, <1>7, <1>9, <1>10, <1>11, <1>12 DEF GetInv

\* A step of the client that sends nothing or the ACK that is due: what it
\* leaves alone, and what remains to be shown of it.
LEMMA ClientSends ==
  ASSUME GetInv, pc # "idle", NEW n \in Nat, n = last',
         UNCHANGED <<dl, flen, blen, toC, world, server>>,
         toS' \in {toS, toS \cup {Msg("ACK", dl, n % BlkMod, <<>>)}},
         pc' \in {"idle", "poll", "take"},
         pc' = "idle" => ring' = <<>>,
         SocketReleased', SuccessIsWhole',
         env.prompt => /\ \A m \in toC \cup toS : m.d # dl
                       /\ ring' = <<>> /\ sblk[dl] \in {n, n + 1} /\ Stored'
  PROVE  GetInv'
<1> DEFINE q == Msg("ACK", dl, n % BlkMod, <<>>)
<1>1. q.d = dl /\ q.k = "ACK" /\ q.n = n % BlkMod
  BY DEF Msg
<1> HIDE DEF q
<1>2. toS' \in {toS, toS \cup {q}}
  BY DEF q
<1>0. /\ dl' = dl /\ flen' = flen /\ blen' = blen /\ toC' = toC /\ env' = env /\ sblk' = sblk
      /\ stries' = stries /\ dl \in 1 .. Downloads
  BY DEF world, server, GetInv, GetTypeOK
<1>3. GetTypeOK'
  BY <1>0, <1>1, <1>2 DEF GetInv, GetTypeOK
<1>4. ASSUME env.prompt PROVE OneUnderWay' /\ UpToDate' /\ InStep'
  <2>1. \A m \in toC' \cup toS' : m.d = dl => m = q /\ m \in toS' /\ m \notin toC'
    BY <1>0, <1>1, <1>2, <1>4
  <2>2. OneUnderWay'
    BY <1>0, <2>1, <1>4 DEF OneUnderWay
  <2>3. UpToDate'
    <3>1. \A m \in toS' : m.d = dl' => m.k = "ACK" /\ m.n = last' % BlkMod
      BY <1>0, <1>1, <2>1
    <3>2. \A m \in toC' : m.d # dl'
      BY <1>0, <2>1
    <3> QED
      BY <3>1, <3>2, <1>4 DEF UpToDate
  <2>4. InStep'
    BY <1>0, <1>4 DEF GetInv, InStep
  <2> QED
    BY <2>2, <2>3, <2>4
<1> QED
  BY <1>0, <1>3, <1>4 DEF GetInv

\* Nothing is under way when a timer runs out.
LEMMA TimedOutKeeps ==
  ASSUME GetInv, TimedOut
  PROVE  GetInv'
<1>1. /\ pc = "poll" /\ ring = <<>> /\ last' = last /\ last \in Nat /\ env \in Settings
      /\ TIMEOUT # 0 /\ NET_ERR # 0
  BY DEF TimedOut, GetInv, GetTypeOK, TIMEOUT, NET_ERR
<1>2. UNCHANGED <<dl, flen, blen, image, room, toC, world, server>>
  BY DEF TimedOut
<1>3. /\ toS' \in {toS, toS \cup {Msg("ACK", dl, last % BlkMod, <<>>)}}
      /\ ring' = <<>> /\ pc' \in {"idle", "poll"}
      /\ pc' = "idle" => rc' \in {TIMEOUT, NET_ERR} /\ used' = FALSE
  BY <1>1 DEF TimedOut, Ack, Return, SendFailed
<1>4. SocketReleased' /\ SuccessIsWhole'
  BY <1>1, <1>3 DEF SocketReleased, SuccessIsWhole
<1>5. ASSUME env.prompt
      PROVE  /\ \A m \in toC \cup toS : m.d # dl
             /\ sblk[dl] \in {last, last + 1} /\ Stored'
  <2>1. Timely(dl) /\ dl > 0
    BY <1>1 DEF TimedOut, GetInv, GetTypeOK
  <2> QED
    BY <1>1, <1>2, <1>5, <2>1 DEF Timely, GetInv, InStep, Stored
<1> QED
  BY <1>1, <1>2, <1>3, <1>4, <1>5, ClientSends

\* The ring ran over: the download fails.
LEMMA OverflowedKeeps ==
  ASSUME GetInv, Overflowed
  PROVE  GetInv'
<1>1. /\ pc' = "idle" /\ ring' = <<>> /\ rc' # 0 /\ used' = FALSE /\ pc = "poll"
      /\ UNCHANGED <<dl, flen, blen, last, image, room, toC, toS, world, server>>
  BY DEF Overflowed, Return, NET_ERR
<1>2. /\ dl' = dl /\ flen' = flen /\ blen' = blen /\ last' = last /\ toC' = toC /\ toS' = toS
      /\ env' = env /\ sblk' = sblk /\ stries' = stries
  BY <1>1 DEF world, server
<1>3. GetTypeOK'
  BY <1>1, <1>2 DEF GetInv, GetTypeOK
<1>4. SocketReleased' /\ SuccessIsWhole' /\ Stored'
  BY <1>1 DEF SocketReleased, SuccessIsWhole, Stored
<1>5. env.prompt => OneUnderWay' /\ InStep'
  BY <1>1, <1>2 DEF GetInv, OneUnderWay, InStep
<1>6. env.prompt => UpToDate'
  BY <1>1, <1>2 DEF GetInv, UpToDate, Reply, Block, Msg, Datum
<1> QED
  BY <1>2, <1>3, <1>4, <1>5, <1>6 DEF GetInv

\* What reception may do at all.
LEMMA ReceiveFrame ==
  ASSUME GetInv, Receive
  PROVE  /\ pc # "idle" /\ ring # <<>>
         /\ UNCHANGED <<dl, flen, blen, toC, world, server>>
         /\ last' \in {last, last + 1}
         /\ toS' \in {toS, toS \cup {Msg("ACK", dl, last' % BlkMod, <<>>)}}
         /\ pc' \in {"idle", "poll", "take"}
         /\ pc' = "idle" => ring' = <<>> /\ used' = FALSE
<1>1. PICK u \in Readings(Taken[1]) :
        \/ u[1] = "DATA" /\ GotData(u[3], Tail(Taken), Rest)
        \/ u[1] = "ERROR" /\ Return(u[3]) /\ UNCHANGED <<image, room, last, toS>>
        \/ u[1] = "?" /\ Return(UNKNOWN) /\ UNCHANGED <<image, room, last, toS>>
  BY DEF Receive
<1>2. /\ pc # "idle" /\ ring # <<>> /\ UNCHANGED <<dl, flen, blen, toC, world, server>>
  BY DEF Receive
<1>3. CASE u[1] = "DATA" /\ GotData(u[3], Tail(Taken), Rest)
  <2>1. CASE Return(TOO_LARGE) /\ UNCHANGED <<last, toS>>
    BY <1>2, <2>1 DEF Return
  <2>2. CASE /\ last' \in {last, last + 1}
             /\ AckAndDone(last') \/ Ack(last', Rest)
    BY <1>2, <2>2 DEF AckAndDone, Ack, SendFailed, Return
  <2> QED
    BY <1>3, <2>1, <2>2 DEF GotData
<1>4. CASE \E c : Return(c) /\ UNCHANGED <<image, room, last, toS>>
  BY <1>2, <1>4 DEF Return
<1> QED
  BY <1>1, <1>3, <1>4

\* The number of the block in the ring says whether it is the next one, though
\* it wraps.
LEMMA NextIsNext ==
  ASSUME NEW b, last \in Nat, b \in {last, last + 1}, IsNext(b % BlkMod)
  PROVE  b = last + 1
<1>1. BlkMod \in Nat \ {0}
  BY TftpAssumption
<1>2. last % BlkMod <= last
  BY <1>1
<1> QED
  BY <1>2 DEF IsNext

\* With timers that wait, one datagram is in the ring: a block of the file, or
\* an error.
LEMMA ReceivePrompt ==
  ASSUME GetInv, Receive, env.prompt
  PROVE  \/ \E c \in env.errors : Return(c) /\ UNCHANGED <<image, room, last, toS>>
         \/ sblk[dl] > 0 /\ GotData(sblk[dl] % BlkMod, Block(dl, sblk[dl]).body, <<>>)
<1>1. PICK m : Reply(m) /\ ring = <<Header(m)>> \o m.body
  BY ReceiveFrame DEF GetInv, UpToDate
<1>2. PICK u \in Readings(Taken[1]) :
        \/ u[1] = "DATA" /\ GotData(u[3], Tail(Taken), Rest)
        \/ u[1] = "ERROR" /\ Return(u[3]) /\ UNCHANGED <<image, room, last, toS>>
        \/ u[1] = "?" /\ Return(UNKNOWN) /\ UNCHANGED <<image, room, last, toS>>
  BY DEF Receive
<1>3. CASE \E c \in env.errors : m = Msg("ERROR", dl, c, <<>>)
  <2>1. PICK c \in env.errors : m = Msg("ERROR", dl, c, <<>>)
    BY <1>3
  <2>2. Header(m) = <<"ERROR", dl, c>> /\ m.body = <<>>
    BY <2>1 DEF Header, Msg
  <2>3. PICK h : h = Header(m)
    OBVIOUS
  <2>4. <<>> \in Seq({h}) /\ Len(<<>>) = 0 /\ TFTP_BUF_SIZE >= 0 /\ TFTP_BUF_SIZE \in Nat
    BY TftpAssumption
  <2>5. Taken[1] = h
    BY <1>1, <2>2, <2>3, <2>4, TakenWhole
  <2>6. u = <<"ERROR", dl, c>>
    BY <1>2, <2>2, <2>3, <2>5 DEF Readings
  <2> QED
    BY <1>2, <2>6
<1>4. CASE sblk[dl] > 0 /\ m = Block(dl, sblk[dl])
  <2>0. dl \in 1 .. Downloads /\ sblk[dl] \in Nat /\ flen \in Nat /\ last \in Nat
    <3>1. pc # "idle"
      BY ReceiveFrame
    <3> QED
      BY <3>1 DEF GetInv, GetTypeOK
  <2>1. PICK n \in Nat : sblk[dl] = n + 1
    <3>1. sblk[dl] - 1 \in Nat /\ sblk[dl] = (sblk[dl] - 1) + 1
      BY <1>4, <2>0
    <3> QED
      BY <3>1
  <2>2. n \in {last, last - 1}
    BY <2>0, <2>1 DEF GetInv, InStep
  <2>3. Full(n) <= flen
    <3>1. Full(last) <= flen /\ Full(last) \in Nat /\ Full(n) \in Nat
      BY ReceiveFrame, FullNext, <2>0 DEF GetInv, Stored
    <3>2. Full(n + 1) = Full(n) + TFTP_BUF_SIZE /\ TFTP_BUF_SIZE \in Nat
      BY FullNext, TftpAssumption
    <3>3. n = last \/ n + 1 = last
      BY <2>0, <2>2
    <3> QED
      BY <3>1, <3>2, <3>3, <2>0
  <2>4. PICK b : b = Block(dl, n + 1).body
    OBVIOUS
  <2>5. b \in Seq({Datum(dl, i) : i \in Nat}) /\ Len(b) <= TFTP_BUF_SIZE
    <3>1. /\ b \in Seq({Datum(dl, i) : i \in Nat})
          /\ Len(b) \in 0 .. TFTP_BUF_SIZE
      BY <2>0, <2>3, <2>4, BlockBody, Zenon
    <3> QED
      BY <3>1
  <2>6. PICK h, S : h = Header(m) /\ S = {Datum(dl, i) : i \in Nat} \cup {h}
    OBVIOUS
  <2>7. h \in S /\ b \in Seq(S)
    BY <2>5, <2>6
  <2>8. ring = <<h>> \o b
    BY <1>1, <1>4, <2>1, <2>4, <2>6
  <2>9. Rest = <<>> /\ Taken[1] = h /\ Tail(Taken) = b
    BY <2>5, <2>7, <2>8, TakenWhole
  <2>10. h = <<"DATA", dl, sblk[dl] % BlkMod>>
    BY <1>4, <2>6 DEF Header, Block, Msg
  <2>11. u = <<"DATA", dl, sblk[dl] % BlkMod>>
    BY <1>2, <2>9, <2>10 DEF Readings
  <2> QED
    BY <1>2, <1>4, <2>1, <2>4, <2>9, <2>11
<1> QED
  BY <1>1, <1>3, <1>4 DEF Reply

\* The next block of the file is stored behind the others; a download ends
\* with it when it is short, or when it fills the buffer.
LEMMA NextStored ==
  ASSUME GetInv, env.prompt, pc # "idle", NEW b, b = Block(dl, last + 1).body,
         Len(b) <= room, image' = image \o SubSeq(b, 1, Smaller(Len(b), room))
  PROVE  /\ Len(b) \in Nat
         /\ image' = Units(dl, Full(last) + Len(b))
         /\ Full(last) + Len(b) <= flen
         /\ ~Ends(Len(b), room - Len(b)) =>
              /\ Full(last + 1) = Full(last) + Len(b)
              /\ room - Len(b) = blen - Full(last + 1)
         /\ /\ Ends(Len(b), room - Len(b))
            /\ ~(flen > blen /\ blen % TFTP_BUF_SIZE = 0)
            => Full(last) + Len(b) = flen
<1>0. /\ last \in Nat /\ flen \in Nat /\ blen \in Nat /\ Full(last) <= flen
      /\ image = Units(dl, Full(last)) /\ room = blen - Full(last)
      /\ TFTP_BUF_SIZE \in Nat /\ Full(last) \in Nat
  BY FullNext, TftpAssumption DEF GetInv, GetTypeOK, Stored
<1>1. /\ b \in Seq({Datum(dl, i) : i \in Nat}) /\ Len(b) \in 0 .. TFTP_BUF_SIZE
      /\ Units(dl, Full(last)) \o b = Units(dl, Full(last) + Len(b))
      /\ Len(b) < TFTP_BUF_SIZE => Full(last) + Len(b) = flen
      /\ Full(last) + Len(b) <= flen
  BY <1>0, BlockBody, Zenon
<1>2. PICK S : b \in Seq(S)
  BY <1>1
<1>3. SubSeq(b, 1, Smaller(Len(b), room)) = b
  <2>1. Len(b) \in Int /\ room \in Int
    BY <1>0, <1>1
  <2>2. Smaller(Len(b), room) = Len(b)
    BY <2>1 DEF Smaller
  <2> QED
    BY <1>2, <2>2
<1>4. Full(last + 1) = Full(last) + TFTP_BUF_SIZE
  BY <1>0, FullNext
<1>5. Full(last + 1) % TFTP_BUF_SIZE = 0
  <2>1. last + 1 \in Nat
    BY <1>0
  <2> QED
    BY <2>1, FullNext
<1>6. /\ Len(b) \in 0 .. TFTP_BUF_SIZE /\ Full(last) + Len(b) <= flen
      /\ Len(b) < TFTP_BUF_SIZE => Full(last) + Len(b) = flen
  BY <1>1
<1>7. ~Ends(Len(b), room - Len(b)) => Len(b) = TFTP_BUF_SIZE
  BY <1>0, <1>6 DEF Ends
<1>8. ASSUME Ends(Len(b), room - Len(b)),
             ~(flen > blen /\ blen % TFTP_BUF_SIZE = 0)
      PROVE  Full(last) + Len(b) = flen
  <2>1. CASE Len(b) < TFTP_BUF_SIZE
    BY <1>6, <2>1
  <2>2. CASE ~(Len(b) < TFTP_BUF_SIZE)
    <3>1. Len(b) = TFTP_BUF_SIZE /\ room - Len(b) = 0
      BY <1>0, <1>6, <1>8, <2>2 DEF Ends
    <3>2. blen = Full(last + 1)
      BY <1>0, <1>4, <3>1
    <3>3. ~(flen > blen)
      BY <1>5, <1>8, <3>2
    <3> QED
      BY <1>0, <1>4, <1>6, <3>1, <3>2, <3>3
  <2> QED
    BY <2>1, <2>2
<1>9. image' = Units(dl, Full(last) + Len(b))
  BY <1>0, <1>1, <1>3
<1>10. ~Ends(Len(b), room - Len(b)) =>
         /\ Full(last + 1) = Full(last) + Len(b)
         /\ room - Len(b) = blen - Full(last + 1)
  BY <1>0, <1>4, <1>6, <1>7
<1>11. Len(b) \in Nat
  BY <1>0, <1>6
<1> QED
  BY <1>6, <1>8, <1>9, <1>10, <1>11

LEMMA ReceiveKeeps ==
  ASSUME GetInv, Receive
  PROVE  GetInv'
<1>0. /\ pc # "idle" /\ ring # <<>>
      /\ UNCHANGED <<dl, flen, blen, toC, world, server>>
      /\ last' \in {last, last + 1} /\ last \in Nat
      /\ toS' \in {toS, toS \cup {Msg("ACK", dl, last' % BlkMod, <<>>)}}
      /\ pc' \in {"idle", "poll", "take"}
      /\ pc' = "idle" => ring' = <<>> /\ used' = FALSE
  BY ReceiveFrame DEF GetInv, GetTypeOK
<1>1. SocketReleased' /\ last' \in Nat /\ env' = env
  BY <1>0 DEF SocketReleased, world
<1>2. ASSUME env.prompt
      PROVE  /\ \A m \in toC \cup toS : m.d # dl
             /\ ring' = <<>> /\ sblk[dl] \in {last', last' + 1}
             /\ Stored' /\ SuccessIsWhole'
  <2> DEFINE B == Block(dl, sblk[dl]).body
  <2>1. \A m \in toC \cup toS : m.d # dl
    BY <1>0, <1>2 DEF GetInv, OneUnderWay
  <2>2. sblk[dl] \in {last, last + 1} /\ TOO_LARGE # 0 /\ NET_ERR # 0
    BY <1>0, <1>2 DEF GetInv, GetTypeOK, InStep, TOO_LARGE, NET_ERR
  <2>3. CASE \E c \in env.errors : Return(c) /\ UNCHANGED <<image, room, last, toS>>
    <3>1. PICK c \in env.errors : Return(c) /\ last' = last
      BY <2>3
    <3>2. pc' = "idle" /\ ring' = <<>> /\ rc' = c
      BY <3>1 DEF Return
    <3> QED
      BY <1>1, <2>1, <2>2, <3>1, <3>2 DEF Stored, SuccessIsWhole
  <2>4. CASE sblk[dl] > 0 /\ GotData(sblk[dl] % BlkMod, B, <<>>)
    <3>1. CASE Return(TOO_LARGE) /\ last' = last
      BY <2>1, <2>2, <3>1 DEF Return, Stored, SuccessIsWhole
    <3>2. CASE Ack(last, <<>>) /\ UNCHANGED <<image, room, last>>
      <4>1. ring' = <<>> /\ (pc' = "idle" => rc' = NET_ERR)
        BY <3>2 DEF Ack, SendFailed, Return
      <4>2. Stored'
        BY <1>0, <1>2, <3>2 DEF GetInv, Stored
      <4> QED
        BY <2>1, <2>2, <3>2, <4>1, <4>2 DEF SuccessIsWhole
    <3>3. CASE /\ IsNext(sblk[dl] % BlkMod) /\ Len(B) <= room
               /\ image' = image \o SubSeq(B, 1, Smaller(Len(B), room))
               /\ room' = room - Len(B) /\ last' = last + 1
               /\ IF Ends(Len(B), room') THEN AckAndDone(last') ELSE Ack(last', <<>>)
      <4>1. sblk[dl] = last + 1
        BY <1>0, <2>2, <3>3, NextIsNext
      <4>2. PICK b : b = B
        OBVIOUS
      <4>3. b = Block(dl, last + 1).body
        BY <4>1, <4>2
      <4> HIDE DEF B
      <4>4. /\ Len(b) \in Nat
            /\ image' = Units(dl, Full(last) + Len(b))
            /\ Full(last) + Len(b) <= flen
            /\ ~Ends(Len(b), room') =>
                 /\ Full(last + 1) = Full(last) + Len(b)
                 /\ room' = blen - Full(last + 1)
            /\ /\ Ends(Len(b), room')
               /\ ~(flen > blen /\ blen % TFTP_BUF_SIZE = 0)
               => Full(last) + Len(b) = flen
        BY <1>0, <1>2, <3>3, <4>2, <4>3, NextStored
      <4>5. CASE Ends(Len(b), room')
        <5>1. pc' = "idle" /\ ring' = <<>>
          BY <3>3, <4>2, <4>5 DEF AckAndDone, SendFailed, Return
        <5>2. Stored'
          BY <5>1 DEF Stored
        <5>3. dl' = dl /\ flen' = flen /\ blen' = blen
          BY <1>0
        <5>4. SuccessIsWhole'
          BY <4>4, <4>5, <5>3 DEF SuccessIsWhole, Units
        <5> QED
          BY <2>1, <3>3, <4>1, <5>1, <5>2, <5>4
      <4>6. CASE ~Ends(Len(b), room')
        <5>1. ring' = <<>> /\ (pc' = "idle" => rc' = NET_ERR)
          BY <3>3, <4>2, <4>6 DEF Ack, SendFailed, Return
        <5>2. Stored'
          BY <1>0, <3>3, <4>4, <4>6 DEF Stored
        <5>3. SuccessIsWhole'
          BY <2>2, <5>1 DEF SuccessIsWhole
        <5> QED
          BY <2>1, <3>3, <4>1, <5>1, <5>2, <5>3
      <4> QED
        BY <4>5, <4>6
    <3> HIDE DEF B
    <3> QED
      BY <2>4, <3>1, <3>2, <3>3 DEF GotData
  <2> QED
    BY <1>2, <2>3, <2>4, ReceivePrompt
<1>3. SuccessIsWhole'
  BY <1>1, <1>2 DEF SuccessIsWhole
<1> QED
  BY <1>0, <1>1, <1>2, <1>3, ClientSends

-----------------------------------------------------------------------------
(* The server, the network and the poll                                     *)

\* What a step does not need to show when the client's variables stay.
LEMMA ClientIdle ==
  ASSUME GetInv, UNCHANGED <<client, used, env>>
  PROVE  /\ SocketReleased' /\ SuccessIsWhole'
         /\ dl' = dl /\ flen' = flen /\ blen' = blen /\ last' = last /\ pc' = pc /\ env' = env
         /\ env.prompt => Stored'
BY DEF GetInv, client, SocketReleased, SuccessIsWhole, Stored

LEMMA DeliverKeeps ==
  ASSUME GetInv, NEW m \in toC, Deliver(m)
  PROVE  GetInv'
<1>0. /\ SocketReleased' /\ SuccessIsWhole'
      /\ dl' = dl /\ flen' = flen /\ blen' = blen /\ last' = last /\ pc' = pc /\ env' = env
      /\ env.prompt => Stored'
  BY ClientIdle DEF Deliver, world
<1>1. toC' = toC \ {m} /\ toS' = toS /\ sblk' = sblk /\ stries' = stries
  BY DEF Deliver, server
<1>2. /\ ring' = ring \/ (pc # "idle" /\ m.d = dl /\ ring' = ring \o (<<Header(m)>> \o m.body))
  BY DEF Deliver, Accepts
<1>3. GetTypeOK'
  BY <1>0, <1>1, <1>2 DEF GetInv, GetTypeOK
<1>4. InStep' = InStep
  BY <1>0, <1>1 DEF InStep
<1>5. \A x : Reply(x)' = Reply(x)
  BY <1>0, <1>1 DEF Reply, Block, Msg, Datum
<1>6. ASSUME env.prompt PROVE OneUnderWay' /\ UpToDate'
  <2>1. CASE ring' = ring
    BY <1>0, <1>1, <1>5, <1>6, <2>1 DEF GetInv, OneUnderWay, UpToDate
  <2>2. CASE m.d = dl /\ ring' = ring \o (<<Header(m)>> \o m.body)
    <3>1. ring = <<>> /\ \A x \in toC \cup toS : x.d = dl => x = m
      BY <1>6, <2>2 DEF GetInv, OneUnderWay
    <3>2. Reply(m) /\ m.k # "RRQ" /\ m.k # "ACK"
      BY <1>6, <2>2 DEF GetInv, GetTypeOK, UpToDate
    <3>3. \A x \in toC' \cup toS' : x.d # dl
      BY <1>1, <3>1, <3>2 DEF GetInv, GetTypeOK
    <3>4. ring' = <<Header(m)>> \o m.body
      BY <2>2, <3>1
    <3> QED
      BY <1>0, <1>5, <3>2, <3>3, <3>4 DEF OneUnderWay, UpToDate
  <2> QED
    BY <1>2, <2>1, <2>2
<1> QED
  BY <1>0, <1>3, <1>4, <1>6 DEF GetInv

\* The server of download d answers, or falls silent.  Under way was nothing
\* of the present download but what it answers.
LEMMA ServerAnswers ==
  ASSUME GetInv, UNCHANGED <<client, socket, env>>, NEW d \in 1 .. dl,
         toS' \subseteq toS,
         \A x \in toC' \ toC : x.d = d /\ x.k \in {"DATA", "ERROR"},
         \A x, y \in toC' \ toC : x = y,
         sblk' \in [1 .. Downloads -> Nat], stries' \in [1 .. Downloads -> Int],
         \A e \in 1 .. Downloads : e # d => sblk'[e] = sblk[e] /\ stries'[e] = stries[e],
         env.prompt /\ d = dl =>
           /\ ring = <<>> /\ \A x \in toC \cup toS' : x.d # dl
           /\ sblk'[dl] \in {last, last + 1} /\ (stries'[dl] >= 0 => sblk'[dl] > 0)
           /\ \A x \in toC' : x.d = dl => Reply(x)'
  PROVE  GetInv'
<1>0. /\ SocketReleased' /\ SuccessIsWhole'
      /\ dl' = dl /\ flen' = flen /\ blen' = blen /\ last' = last /\ pc' = pc /\ env' = env
      /\ env.prompt => Stored'
  BY ClientIdle DEF socket
<1>1. ring' = ring /\ dl \in 1 .. Downloads
  BY DEF socket, GetInv, GetTypeOK
<1>2. GetTypeOK'
  BY <1>0, <1>1 DEF GetInv, GetTypeOK
<1>3. ASSUME env.prompt, d = dl PROVE OneUnderWay' /\ UpToDate' /\ InStep'
  <2>1. \A x \in toS' : x.d # dl
    BY <1>3
  <2>2. \A x \in toC' : x.d = dl => x \in toC' \ toC
    BY <1>3
  <2>3. OneUnderWay'
    BY <1>0, <1>1, <1>3, <2>1, <2>2 DEF OneUnderWay
  <2>4. UpToDate'
    BY <1>0, <1>1, <1>3, <2>1 DEF UpToDate
  <2>5. InStep'
    BY <1>0, <1>3 DEF InStep
  <2> QED
    BY <2>3, <2>4, <2>5
<1>4. ASSUME env.prompt, d # dl PROVE OneUnderWay' /\ UpToDate' /\ InStep'
  <2>1. sblk'[dl] = sblk[dl] /\ stries'[dl] = stries[dl]
    BY <1>1, <1>4
  <2>2. \A x \in toC' : x.d = dl => x \in toC
    BY <1>4
  <2>3. \A x : Reply(x)' = Reply(x)
    BY <1>0, <2>1 DEF Reply, Block, Msg, Datum
  <2>4. OneUnderWay'
    BY <1>0, <1>1, <1>4, <2>2 DEF GetInv, OneUnderWay
  <2>5. UpToDate'
    BY <1>0, <1>1, <1>4, <2>1, <2>2, <2>3 DEF GetInv, UpToDate
  <2>6. InStep'
    BY <1>0, <1>4, <2>1 DEF GetInv, InStep
  <2> QED
    BY <2>4, <2>5, <2>6
<1> QED
  BY <1>0, <1>2, <1>3, <1>4 DEF GetInv

\* A datagram to the server is the only one of the present download.
LEMMA Alone ==
  ASSUME GetInv, env.prompt, NEW m \in toS, m.d = dl
  PROVE  /\ ring = <<>> /\ \A x \in toC \cup (toS \ {m}) : x.d # dl
         /\ \/ m.k = "RRQ" /\ sblk[dl] = 0
            \/ m.k = "ACK" /\ m.n = last % BlkMod
<1>1. m \notin toC
  BY DEF GetInv, GetTypeOK
<1> QED
  BY <1>1 DEF GetInv, OneUnderWay, UpToDate

LEMMA RequestKeeps ==
  ASSUME GetInv, NEW m \in toS, ServerRequest(m)
  PROVE  GetInv'
<1>0. /\ UNCHANGED <<client, socket, env>> /\ toS' = toS \ {m} /\ m.d \in 1 .. dl
      /\ dl' = dl /\ flen' = flen /\ m.d \in 1 .. Downloads /\ env.tries \in Int /\ m.k = "RRQ"
      /\ dl \in 1 .. Downloads /\ last \in Nat /\ env' = env /\ dl' = dl
  BY TftpAssumption DEF ServerRequest, world, client, GetInv, GetTypeOK
<1>1. CASE /\ sblk' = [sblk EXCEPT ![m.d] = 1]
           /\ stries' = [stries EXCEPT ![m.d] = env.tries]
           /\ toC' = IF m.d = dl THEN toC \cup {Block(m.d, 1)} ELSE toC
  <2>1. /\ sblk' \in [1 .. Downloads -> Nat] /\ stries' \in [1 .. Downloads -> Int]
        /\ \A e \in 1 .. Downloads : e # m.d => sblk'[e] = sblk[e] /\ stries'[e] = stries[e]
        /\ sblk'[m.d] = 1
    BY <1>0, <1>1 DEF GetInv, GetTypeOK
  <2>2. \A x \in toC' \ toC : x = Block(m.d, 1) /\ x.d = m.d /\ x.k \in {"DATA", "ERROR"}
    BY <1>1 DEF Block, Msg
  <2>3. ASSUME env.prompt, m.d = dl
        PROVE  /\ ring = <<>> /\ \A x \in toC \cup toS' : x.d # dl
               /\ sblk'[dl] \in {last, last + 1}
               /\ \A x \in toC' : x.d = dl => Reply(x)'
    <3>1. /\ ring = <<>> /\ \A x \in toC \cup toS' : x.d # dl
          /\ sblk[dl] = 0
      BY <1>0, <2>3, Alone
    <3>2. last = 0
      BY <1>0, <2>3, <3>1 DEF GetInv, InStep
    <3>3. ASSUME NEW x \in toC', x.d = dl PROVE Reply(x)'
      <4>1. x = Block(dl, 1)
        BY <2>2, <2>3, <3>1, <3>3
      <4>2. x = Block(dl, 1)'
        BY <1>0, <4>1 DEF Block, Msg, Datum
      <4> QED
        BY <1>0, <2>1, <2>3, <4>2 DEF Reply
    <3> QED
      BY <2>1, <2>3, <3>1, <3>2, <3>3
  <2> QED
    BY <1>0, <2>1, <2>2, <2>3, ServerAnswers
<1>2. CASE /\ \E c \in env.errors : toC' = toC \cup {Msg("ERROR", m.d, c, <<>>)}
           /\ UNCHANGED server
  <2>1. PICK c \in env.errors : toC' = toC \cup {Msg("ERROR", m.d, c, <<>>)}
    BY <1>2
  <2>2. PICK q : q = Msg("ERROR", m.d, c, <<>>)
    OBVIOUS
  <2>3. q.d = m.d /\ q.k = "ERROR"
    BY <2>2 DEF Msg
  <2>4. /\ sblk' = sblk /\ stries' = stries
        /\ sblk \in [1 .. Downloads -> Nat] /\ stries \in [1 .. Downloads -> Int]
    BY <1>2 DEF server, GetInv, GetTypeOK
  <2>5. \A x \in toC' \ toC : x = q
    BY <2>1, <2>2
  <2>6. ASSUME env.prompt, m.d = dl
        PROVE  /\ ring = <<>> /\ \A x \in toC \cup toS' : x.d # dl
               /\ sblk'[dl] \in {last, last + 1} /\ (stries'[dl] >= 0 => sblk'[dl] > 0)
               /\ \A x \in toC' : x.d = dl => Reply(x)'
    <3>1. /\ ring = <<>> /\ \A x \in toC \cup toS' : x.d # dl
      BY <1>0, <2>6, Alone
    <3>2. sblk'[dl] \in {last, last + 1} /\ (stries'[dl] >= 0 => sblk'[dl] > 0)
      BY <1>0, <2>4, <2>6 DEF GetInv, InStep
    <3>3. ASSUME NEW x \in toC', x.d = dl PROVE Reply(x)'
      <4>1. x = Msg("ERROR", dl, c, <<>>)
        BY <2>2, <2>5, <2>6, <3>1, <3>3
      <4>2. x = Msg("ERROR", dl', c, <<>>) /\ c \in env'.errors
        BY <1>0, <2>1, <4>1
      <4> QED
        BY <4>2 DEF Reply, Msg
    <3> QED
      BY <3>1, <3>2, <3>3
  <2> QED
    BY <1>0, <2>3, <2>4, <2>5, <2>6, ServerAnswers
<1> QED
  BY <1>1, <1>2 DEF ServerRequest

\* Successive blocks have different numbers.
LEMMA NumbersDiffer ==
  ASSUME NEW n \in Nat
  PROVE  n % BlkMod # (n + 1) % BlkMod
<1>1. PICK m \in Nat \ {0} : m = BlkMod /\ m > 1
  BY TftpAssumption
<1>2. PICK q \in Int, r \in 0 .. m - 1 : n = m * q + r /\ r = n % m
  BY <1>1
<1>3. PICK p \in Int, t \in 0 .. m - 1 : n + 1 = m * p + t /\ t = (n + 1) % m
  <2>1. PICK w \in Nat : w = n + 1
    OBVIOUS
  <2>2. PICK p \in Int, t \in 0 .. m - 1 : w = m * p + t /\ t = w % m
    BY <1>1
  <2> QED
    BY <2>1, <2>2
<1>4. ASSUME r = t PROVE FALSE
  <2>1. m * p - m * q = 1 /\ m * (p - q) = m * p - m * q
    BY <1>1, <1>2, <1>3, <1>4
  <2>2. PICK z \in Int : z = p - q
    BY <1>2, <1>3
  <2>3. m * z = 1
    BY <2>1, <2>2
  <2>4. m * z >= m \/ m * z <= 0
    BY <1>1
  <2> QED
    BY <1>1, <2>3, <2>4
<1> QED
  BY <1>1, <1>2, <1>3, <1>4

LEMMA AckKeeps ==
  ASSUME GetInv, NEW m \in toS, ServerAck(m)
  PROVE  GetInv'
<1> DEFINE b == sblk[m.d]
           serving == stries[m.d] >= 0 /\ m.d = dl
           current == serving /\ m.n = b % BlkMod
<1>0. /\ UNCHANGED <<client, socket, env>> /\ toS' = toS \ {m} /\ m.d \in 1 .. dl
      /\ dl' = dl /\ flen' = flen /\ m.d \in 1 .. Downloads /\ env.tries \in Int /\ m.k = "ACK"
      /\ dl \in 1 .. Downloads /\ last \in Nat /\ env' = env
      /\ sblk \in [1 .. Downloads -> Nat] /\ stries \in [1 .. Downloads -> Int] /\ b \in Nat
  BY TftpAssumption DEF ServerAck, world, client, GetInv, GetTypeOK
<1>1. ASSUME env.prompt, m.d = dl
      PROVE  /\ ring = <<>> /\ \A x \in toC \cup toS' : x.d # dl
             /\ b \in {last, last + 1} /\ (serving => b > 0)
             /\ current => b = last
  <2>1. ring = <<>> /\ (\A x \in toC \cup toS' : x.d # dl) /\ m.n = last % BlkMod
    BY <1>0, <1>1, Alone
  <2>2. b \in {last, last + 1} /\ (serving => b > 0)
    BY <1>0, <1>1 DEF GetInv, InStep
  <2>3. last % BlkMod # (last + 1) % BlkMod
    BY <1>0, NumbersDiffer
  <2> QED
    BY <2>1, <2>2, <2>3
<1>2. CASE /\ current
           /\ sblk' = [sblk EXCEPT ![m.d] = b + 1]
           /\ stries' = [stries EXCEPT ![m.d] = env.tries]
           /\ toC' = toC \cup {Block(m.d, b + 1)}
  <2>1. /\ sblk' \in [1 .. Downloads -> Nat] /\ stries' \in [1 .. Downloads -> Int]
        /\ \A e \in 1 .. Downloads : e # m.d => sblk'[e] = sblk[e] /\ stries'[e] = stries[e]
        /\ sblk'[m.d] = b + 1 /\ m.d = dl /\ b + 1 > 0
    BY <1>0, <1>2
  <2>2. \A x \in toC' \ toC : x = Block(m.d, b + 1) /\ x.d = m.d /\ x.k \in {"DATA", "ERROR"}
    BY <1>2 DEF Block, Msg
  <2> HIDE DEF b
  <2>4. ASSUME env.prompt
        PROVE  /\ ring = <<>> /\ \A x \in toC \cup toS' : x.d # dl
               /\ sblk'[dl] \in {last, last + 1} /\ sblk'[dl] > 0
               /\ \A x \in toC' : x.d = dl => Reply(x)'
    <3>1. ring = <<>> /\ (\A x \in toC \cup toS' : x.d # dl) /\ b = last
      BY <1>1, <1>2, <2>1, <2>4
    <3>2. ASSUME NEW x \in toC', x.d = dl PROVE Reply(x)'
      <4>1. x = Block(dl, b + 1)
        BY <2>1, <2>2, <3>1, <3>2
      <4>2. sblk[dl]' = b + 1
        BY <1>0, <2>1
      <4>3. x = Block(dl, sblk[dl])'
        BY <1>0, <4>1, <4>2 DEF Block, Msg, Datum
      <4>4. (sblk[dl] > 0)'
        BY <2>1, <4>2
      <4> QED
        BY <4>3, <4>4 DEF Reply
    <3> QED
      BY <2>1, <3>1, <3>2
  <2> QED
    BY <1>0, <2>1, <2>2, <2>4, ServerAnswers
<1>3. CASE /\ sblk' = sblk
           /\ stries' = stries \/ stries' = [stries EXCEPT ![m.d] = -1]
           /\ toC' = toC \/ (serving /\ toC' = toC \cup {Block(m.d, b)})
  <2>1. /\ stries' \in [1 .. Downloads -> Int]
        /\ \A e \in 1 .. Downloads : e # m.d => stries'[e] = stries[e]
        /\ stries'[m.d] \in {stries[m.d], -1}
    <3>1. CASE stries' = stries
      BY <1>0, <3>1
    <3>2. CASE stries' = [stries EXCEPT ![m.d] = -1]
      <4>1. -1 \in Int /\ m.d \in 1 .. Downloads /\ stries \in [1 .. Downloads -> Int]
        BY <1>0
      <4> QED
        BY <3>2, <4>1
    <3> QED
      BY <1>3, <3>1, <3>2
  <2>2. /\ \A x \in toC' \ toC : x = Block(m.d, b) /\ x.d = m.d /\ x.k \in {"DATA", "ERROR"}
        /\ toC' # toC => serving
    BY <1>3 DEF Block, Msg
  <2>3. ASSUME env.prompt, m.d = dl
        PROVE  /\ ring = <<>> /\ \A x \in toC \cup toS' : x.d # dl
               /\ sblk'[dl] \in {last, last + 1} /\ (stries'[dl] >= 0 => sblk'[dl] > 0)
               /\ \A x \in toC' : x.d = dl => Reply(x)'
    <3>1. \A x : x = Block(dl, sblk[dl]) => x = Block(dl, sblk[dl])'
      BY <1>0, <1>3 DEF Block, Msg, Datum
    <3>2. ASSUME NEW x \in toC', x.d = dl PROVE Reply(x)'
      <4>1. x = Block(dl, sblk[dl]) /\ serving
        BY <1>1, <2>2, <2>3, <3>2
      <4>2. sblk[dl] > 0
        BY <1>1, <2>3, <4>1
      <4> QED
        BY <1>0, <1>3, <3>1, <4>1, <4>2 DEF Reply
    <3> QED
      BY <1>0, <1>1, <1>3, <2>1, <2>3, <3>2
  <2> QED
    BY <1>0, <1>3, <2>1, <2>2, <2>3, ServerAnswers
<1> QED
  BY <1>2, <1>3 DEF ServerAck, server

LEMMA RepeatKeeps ==
  ASSUME GetInv, NEW d \in 1 .. Downloads, ServerRepeat(d)
  PROVE  GetInv'
<1>0. /\ UNCHANGED <<client, socket, env>> /\ toS' = toS /\ d = dl /\ d \in 1 .. dl
      /\ dl' = dl /\ flen' = flen /\ env' = env /\ sblk' = sblk
      /\ sblk \in [1 .. Downloads -> Nat] /\ stries \in [1 .. Downloads -> Int]
      /\ stries[d] >= 0 /\ stries' = [stries EXCEPT ![d] = stries[d] - 1]
      /\ toC' = toC \/ toC' = toC \cup {Block(d, sblk[d])}
  BY DEF ServerRepeat, world, client, GetInv, GetTypeOK
<1>1. /\ stries' \in [1 .. Downloads -> Int]
      /\ \A e \in 1 .. Downloads : e # d => stries'[e] = stries[e]
  BY <1>0
<1>2. \A x \in toC' \ toC : x = Block(d, sblk[d]) /\ x.d = d /\ x.k \in {"DATA", "ERROR"}
  BY <1>0 DEF Block, Msg
<1>3. ASSUME env.prompt
      PROVE  /\ ring = <<>> /\ \A x \in toC \cup toS' : x.d # dl
             /\ sblk'[dl] \in {last, last + 1} /\ sblk'[dl] > 0
             /\ \A x \in toC' : x.d = dl => Reply(x)'
  <2>1. ring = <<>> /\ \A x \in toC \cup toS' : x.d # dl
    BY <1>0, <1>3 DEF ServerRepeat, Timely
  <2>2. sblk'[dl] \in {last, last + 1} /\ sblk[dl] > 0
    BY <1>0, <1>3 DEF GetInv, InStep
  <2>3. \A x : x = Block(dl, sblk[dl]) => x = Block(dl, sblk[dl])'
    BY <1>0 DEF Block, Msg, Datum
  <2> QED
    BY <1>0, <1>2, <2>1, <2>2, <2>3 DEF Reply
<1> QED
  BY <1>0, <1>1, <1>2, <1>3, ServerAnswers

\* A loss takes a datagram away.
LEMMA LoseKeeps ==
  ASSUME GetInv, NEW m, Lose(m)
  PROVE  GetInv'
<1>0. /\ SocketReleased' /\ SuccessIsWhole'
      /\ dl' = dl /\ flen' = flen /\ blen' = blen /\ last' = last /\ pc' = pc /\ env' = env
      /\ env.prompt => Stored'
  BY ClientIdle DEF Lose, socket
<1>1. /\ toC' \subseteq toC /\ toS' \subseteq toS /\ sblk' = sblk
      /\ stries' = stries /\ ring' = ring
  BY DEF Lose, server, socket
<1>2. GetTypeOK'
  BY <1>0, <1>1 DEF GetInv, GetTypeOK
<1>3. \A x : Reply(x)' = Reply(x)
  BY <1>0, <1>1 DEF Reply, Block, Msg, Datum
<1>4. env.prompt => OneUnderWay' /\ InStep'
  BY <1>0, <1>1 DEF GetInv, OneUnderWay, InStep
<1>5. env.prompt => UpToDate'
  BY <1>0, <1>1, <1>3 DEF GetInv, UpToDate
<1> QED
  BY <1>0, <1>2, <1>4, <1>5 DEF GetInv

-----------------------------------------------------------------------------
(* The theorems                                                             *)

LEMMA GetInitOK == Init => GetInv
<1>1. SUFFICES ASSUME Init PROVE GetInv
  OBVIOUS
<1>2. GetTypeOK
  BY <1>1, TftpAssumption DEF Init, GetTypeOK
<1> QED
  BY <1>1, <1>2 DEF Init, GetInv, SocketReleased, SuccessIsWhole, OneUnderWay,
            UpToDate, InStep, Stored

LEMMA GetStepOK == GetInv /\ [Next]_vars => GetInv'
<1>1. SUFFICES ASSUME GetInv, [Next]_vars PROVE GetInv'
  OBVIOUS
<1>2. CASE \E f \in env.files, b \in env.buffers : Start(f, b)
  BY <1>1, <1>2, StartKeeps
<1>3. CASE TimedOut
  BY <1>1, <1>3, TimedOutKeeps
<1>4. CASE Overflowed
  BY <1>1, <1>4, OverflowedKeeps
<1>5. CASE Receive
  BY <1>1, <1>5, ReceiveKeeps
<1>6. CASE \E m \in toS : ServerRequest(m) \/ ServerAck(m)
  BY <1>1, <1>6, RequestKeeps, AckKeeps
<1>7. CASE \E m \in toC : Deliver(m)
  BY <1>1, <1>7, DeliverKeeps
<1>8. CASE \E d \in 1 .. Downloads : ServerRepeat(d)
  BY <1>1, <1>8, RepeatKeeps
<1>9. CASE \E m \in toC \cup toS : Lose(m)
  BY <1>1, <1>9, LoseKeeps
<1>10. CASE UNCHANGED vars
  <2>1. /\ SocketReleased' /\ SuccessIsWhole' /\ (env.prompt => Stored')
        /\ dl' = dl /\ flen' = flen /\ blen' = blen /\ last' = last /\ pc' = pc /\ env' = env
    BY <1>1, <1>10, ClientIdle DEF vars, socket, world
  <2>2. toC' = toC /\ toS' = toS /\ sblk' = sblk /\ stries' = stries /\ ring' = ring
    BY <1>10 DEF vars, socket, server
  <2>3. \A x : Reply(x)' = Reply(x)
    BY <2>1, <2>2 DEF Reply, Block, Msg, Datum
  <2> QED
    BY <1>1, <2>1, <2>2, <2>3 DEF GetInv, GetTypeOK, OneUnderWay, UpToDate, InStep
<1> QED
  BY <1>1, <1>2, <1>3, <1>4, <1>5, <1>6, <1>7, <1>8, <1>9, <1>10 DEF Next, Get, Serve, Over

\* tftpc_get reports success only with the whole file in the buffer, for files
\* and buffers of every length, every block size, any number of downloads one
\* after the other and of losses, and although th_block wraps where
\* last_good_block does not.
THEOREM SuccessAlwaysWhole == Spec => []SuccessIsWhole
<1>1. GetInv => SuccessIsWhole
  BY DEF GetInv
<1> QED
  BY <1>1, GetInitOK, GetStepOK, PTL DEF Spec

\* Every way out of tftpc_get but a failed udp_socket leaves the socket free,
\* whether timers race answers or not.
THEOREM SocketAlwaysReleased == Spec => []SocketReleased
<1>1. GetInv => SocketReleased
  BY DEF GetInv
<1> QED
  BY <1>1, GetInitOK, GetStepOK, PTL DEF Spec
=============================================================================
