------------------------------- MODULE Xmodem -------------------------------
(***************************************************************************)
(* The XMODEM receiver, src/Xmodem/Xmodem.c, as do_xmodem_download uses it  *)
(* (ui_upgrade.c:131-169), against a sender at the other end of a serial    *)
(* line that may lose, garble and add characters in both directions.        *)
(*                                                                         *)
(* The line carries whole items: a block, EOT, CAN or a stray character one *)
(* way, ACK, NAK, C or CAN the other way.  Block i carries the number       *)
(* i % BlkMod; its payload is the index i.  Time-outs are long compared     *)
(* with the line: a party's timer runs out only when nothing is under way.  *)
(* The sender is external: stop and wait, as XMODEM terminals are.          *)
(***************************************************************************)
EXTENDS Integers, Sequences

CONSTANTS
  Blocks,       \* length of the file, in blocks
  BlkMod,       \* block numbers wrap here (256: blk is an unsigned char)
  Retries,      \* retries in Xmodem_read (5)
  OpenRetries,  \* XMODEM_MAX_RETRIES
  CrcRetries,   \* XMODEM_MAX_RETRIES_WITH_CRC
  SendTries,    \* times the sender repeats an item
  BufBlocks,    \* buf_size, in blocks
  CtrlZ,        \* the blocks whose last three bytes are ^Z
  Settings      \* what the other end and the line may be like

ASSUME XmodemAssumption ==
  /\ {Blocks, Retries, OpenRetries, CrcRetries, BufBlocks} \subseteq Nat \ {0}
  /\ SendTries \in Nat
  /\ BlkMod \in Nat /\ BlkMod > 2
  /\ CtrlZ \subseteq 1 .. Blocks
  /\ \A e \in Settings : /\ e.deaf \in BOOLEAN /\ e.faults \in Nat
                         /\ e.kinds \subseteq {"ack", "lose", "garble", "noise"}

CAN_COUNT == 3               \* XMODEM_CAN_COUNT

VARIABLES
  \* the receiver
  pc,        \* "open", "read", or how do_xmodem_download ended: "ok", "failed"
  hdr,       \* "enter" or "scan" Xmodem_get_header, or "copy" in Xmodem_read
  retries,   \* iterations left of the retry loop
  crcLeft,   \* crc_retries in Xmodem_open
  crcMode,   \* xmodem->crc_mode
  nextBlk,   \* xmodem->next_blk
  txAck,     \* xmodem->tx_ack
  pkt,       \* xmodem->pkt: the block received last
  seen,      \* hdr_chars # 0 in Xmodem_get_header
  cans,      \* can_total in Xmodem_get_header
  got,       \* what Xmodem_read has copied to the caller's buffer
  cut,       \* the blocks it took without the ^Z at their end
  \* the line
  env,       \* deaf: the sender may ignore a C once the transfer has begun;
             \* faults: bound on how often the line misbehaves; kinds: how
  line,      \* items on their way to the receiver
  back,      \* characters on their way to the sender
  faults,    \* how many times the line may still misbehave
  \* the sender
  spc,       \* "start", "wait" (for an answer), "done" or "quit"
  sent,      \* the block it is sending; Blocks + 1 stands for EOT
  tries      \* times it may repeat it

receiver == <<pc, hdr, retries, crcLeft, crcMode, nextBlk, txAck, pkt, seen,
              cans, got, cut>>
sender   == <<spc, sent, tries>>
world    == <<env, faults>>
vars     == <<receiver, line, back, world, sender>>

Item(t, n, q) == [t |-> t, n |-> n, q |-> q]

\* What the sender puts on the line: a block, or EOT after the last one.
Out(n) == IF n <= Blocks THEN Item("blk", n, "ok") ELSE Item("eot", 0, "ok")

Init ==
  /\ pc = "open" /\ hdr = "enter" /\ retries = OpenRetries
  /\ crcLeft = CrcRetries /\ crcMode = TRUE
  /\ nextBlk = 0 /\ txAck = FALSE /\ pkt = 0
  /\ seen = FALSE /\ cans = 0 /\ got = <<>> /\ cut = {}
  /\ line = <<>> /\ back = <<>> /\ env \in Settings /\ faults = env.faults
  /\ spc = "start" /\ sent = 1 /\ tries = SendTries

-----------------------------------------------------------------------------
(* The receiver                                                             *)

Receiving == pc \in {"open", "read"}

HdrEnter_AlwaysAck ==
  /\ Receiving /\ hdr = "enter"
  /\ hdr' = "scan" /\ seen' = FALSE /\ cans' = 0 /\ txAck' = FALSE
  /\ back' = Append(back, "ACK")
  /\ UNCHANGED <<pc, retries, crcLeft, crcMode, nextBlk, pkt, got, cut, line,
                 world, sender>>

\* Entry of Xmodem_get_header: a block copied since is acknowledged now.
HdrEnter ==
  /\ Receiving /\ hdr = "enter"
  /\ hdr' = "scan" /\ seen' = FALSE /\ cans' = 0 /\ txAck' = FALSE
  /\ back' = IF txAck THEN Append(back, "ACK") ELSE back
  /\ UNCHANGED <<pc, retries, crcLeft, crcMode, nextBlk, pkt, got, cut, line,
                 world, sender>>

\* Characters that do not end the search for a header.
Skipped(item) ==
  \/ item.t = "noise"
  \/ item.t = "can" /\ cans + 1 < CAN_COUNT
  \/ item.t = "eot" /\ seen

HdrSkip ==
  /\ Receiving /\ hdr = "scan" /\ line # <<>> /\ Skipped(Head(line))
  /\ line' = Tail(line)
  /\ seen' = TRUE
  /\ cans' = IF Head(line).t = "can" THEN cans + 1 ELSE cans
  /\ UNCHANGED <<pc, hdr, retries, crcLeft, crcMode, nextBlk, txAck, pkt, got,
                 cut, back, world, sender>>

\* Xmodem_terminate and the end of do_xmodem_download.  An abort sends CAN
\* and tosses the input.
Finish(how, answers) ==
  /\ pc' = how
  /\ hdr' = "enter" /\ txAck' = FALSE /\ seen' = FALSE /\ cans' = 0
  /\ back' = back \o (IF how = "failed" THEN Append(answers, "CAN") ELSE answers)
  /\ line' = <<>>

Poke == IF crcMode' THEN "C" ELSE "NAK"

Again_NoError(answers, rest) ==
  /\ retries' = retries - 1
  /\ IF retries > 1
     THEN /\ hdr' = "enter" /\ line' = rest /\ back' = back \o answers
          /\ UNCHANGED <<pc, txAck, seen, cans>>
     ELSE Finish("ok", answers)

\* Once more round the retry loop, if an iteration is left.
Again(answers, rest) ==
  /\ retries' = retries - 1
  /\ IF retries > 1
     THEN /\ hdr' = "enter" /\ line' = rest /\ back' = back \o answers
          /\ UNCHANGED <<pc, txAck, seen, cans>>
     ELSE Finish("failed", answers)

Succ(n) == (n + 1) % BlkMod

\* What Xmodem_open does with the status of Xmodem_get_header.
OpenStat(stat, n, rest) ==
  /\ pc = "open"
  /\ \/ /\ stat = "block"
        /\ pc' = "read" /\ hdr' = "copy" /\ txAck' = TRUE /\ pkt' = n
        /\ nextBlk' = Succ(n)
        /\ line' = rest
        /\ UNCHANGED <<retries, crcLeft, crcMode, seen, cans, back>>
     \/ /\ stat = "timeout"
        /\ crcLeft' = crcLeft - 1
        /\ crcMode' = (crcMode /\ crcLeft' > 0)
        /\ Again(<<Poke>>, rest)
        /\ UNCHANGED <<nextBlk, pkt>>
     \/ /\ stat \in {"eof", "cancel", "frame", "chksum"}
        /\ Finish("failed", IF stat = "eof" THEN <<"ACK">> ELSE <<>>)
        /\ UNCHANGED <<retries, crcLeft, crcMode, nextBlk, pkt>>
  /\ UNCHANGED <<got, cut>>

Duplicate_NoAck(n, rest) ==
  /\ retries' = retries - 1
  /\ hdr' = IF retries > 1 THEN "enter" ELSE "copy"
  /\ pkt' = n
  /\ line' = rest
  /\ UNCHANGED <<pc, txAck, seen, cans, nextBlk, back>>

\* A block that was there before is acknowledged again.  After the last
\* iteration of the loop stat is still 0, and Xmodem_read goes on to copy it.
Duplicate(n, rest) ==
  /\ retries' = retries - 1
  /\ hdr' = IF retries > 1 THEN "enter" ELSE "copy"
  /\ pkt' = n
  /\ line' = rest
  /\ back' = Append(back, "ACK")
  /\ UNCHANGED <<pc, txAck, seen, cans, nextBlk>>

Expected(n) == n % BlkMod = nextBlk

Repeated(n) == n % BlkMod = (nextBlk - 1) % BlkMod

\* What the retry loop of Xmodem_read does with the status.
ReadStat(stat, n, rest) ==
  /\ pc = "read"
  /\ \/ /\ stat = "block" /\ Expected(n)
        /\ hdr' = "copy" /\ txAck' = TRUE /\ pkt' = n
        /\ nextBlk' = Succ(nextBlk)
        /\ cut' = cut \cup ({n} \cap CtrlZ)
        /\ line' = rest
        /\ UNCHANGED <<pc, retries, seen, cans, back>>
     \/ /\ stat = "block" /\ ~Expected(n) /\ Repeated(n)
        /\ Duplicate(n, rest)
        /\ UNCHANGED cut
     \/ /\ \/ stat = "timeout"
           \/ stat = "block" /\ ~Expected(n) /\ ~Repeated(n)
        /\ crcMode' = crcMode
        /\ Again(<<Poke>>, rest)
        /\ UNCHANGED <<nextBlk, pkt, cut>>
     \/ /\ stat = "eof"            \* acknowledged in both functions
        /\ Finish("ok", <<"ACK", "ACK">>)
        /\ UNCHANGED <<retries, nextBlk, pkt, cut>>
     \/ /\ stat \in {"cancel", "frame", "chksum"}
        /\ Finish("failed", <<>>)
        /\ UNCHANGED <<retries, nextBlk, pkt, cut>>
  /\ UNCHANGED <<crcLeft, crcMode, got>>

Stat(stat, n, rest) == OpenStat(stat, n, rest) \/ ReadStat(stat, n, rest)

\* The status an item gives, and what it leaves of the input: a framing error
\* flushes the line, as a time-out does.
Status(item) ==
  CASE item.t = "eot" -> "eof"
    [] item.t = "can" -> "cancel"
    [] item.t = "blk" /\ item.q = "ok" -> "block"
    [] item.t = "blk" /\ item.q = "cut" -> "timeout"
    [] OTHER -> item.q

HdrItem ==
  /\ Receiving /\ hdr = "scan" /\ line # <<>> /\ ~Skipped(Head(line))
  /\ LET item == Head(line) IN
       Stat(Status(item), item.n, IF item.q = "frame" THEN <<>> ELSE Tail(line))
  /\ UNCHANGED <<world, sender>>

\* Nothing under way: whoever waits will run into a time-out.
Quiet == line = <<>> /\ back = <<>>

HdrTimeout_KeepWaiting ==
  /\ Receiving /\ hdr = "scan" /\ Quiet
  /\ UNCHANGED vars

HdrTimeout ==
  /\ Receiving /\ hdr = "scan" /\ Quiet
  /\ Stat("timeout", 0, <<>>)
  /\ UNCHANGED <<world, sender>>

Copied_InPlace(i) == Append(SubSeq(got, 1, Len(got) - 1), i)

Copied(i) == Append(got, i)

\* The memcpy of Xmodem_read.  With the buffer full it returns without a
\* value in err, which do_xmodem_download tests all the same.
Copy ==
  /\ pc = "read" /\ hdr = "copy"
  /\ got' = Copied(pkt)
  /\ IF Len(got') < BufBlocks
     THEN /\ hdr' = "enter" /\ retries' = Retries
          /\ UNCHANGED <<pc, txAck, seen, cans, line, back>>
     ELSE /\ \E how \in {"ok", "failed"} : Finish(how, <<>>)
          /\ UNCHANGED retries
  /\ UNCHANGED <<crcLeft, crcMode, nextBlk, pkt, cut, world, sender>>

-----------------------------------------------------------------------------
(* The sender (external)                                                    *)

Transmit(n) ==
  /\ sent' = n
  /\ line' = Append(line, Out(n))
  /\ spc' = "wait"

\* It starts on the receiver's first C or NAK, moves on with every ACK, and
\* stops when told to.
SenderMove ==
  /\ back # <<>> /\ back' = Tail(back)
  /\ \/ spc = "start" /\ Head(back) \in {"C", "NAK"}
        /\ Transmit(1) /\ UNCHANGED tries
     \/ spc = "wait" /\ Head(back) = "ACK" /\ sent <= Blocks
        /\ Transmit(sent + 1) /\ tries' = SendTries
     \/ spc = "wait" /\ Head(back) = "ACK" /\ sent > Blocks
        /\ spc' = "done" /\ UNCHANGED <<sent, tries, line>>
     \/ Head(back) = "CAN" /\ spc # "done"
        /\ spc' = "quit" /\ UNCHANGED <<sent, tries, line>>
     \/ \/ spc = "start"                          \* nobody at the terminal
        \/ env.deaf /\ spc = "wait" /\ Head(back) = "C"
        \/ spc \in {"done", "quit"}
        /\ UNCHANGED <<sender, line>>
  /\ UNCHANGED <<receiver, world>>

\* It repeats itself when asked to or when no answer comes, and cancels when
\* that has not helped.
SenderRepeat ==
  /\ spc = "wait"
  /\ \/ back # <<>> /\ Head(back) \in {"C", "NAK"} /\ back' = Tail(back)
     \/ Quiet /\ (Receiving => hdr = "scan") /\ back' = back
  /\ IF tries > 0
     THEN Transmit(sent) /\ tries' = tries - 1
     ELSE /\ spc' = "quit"
          /\ line' = line \o [i \in 1 .. CAN_COUNT |-> Item("can", 0, "ok")]
          /\ UNCHANGED <<sent, tries>>
  /\ UNCHANGED <<receiver, world>>

-----------------------------------------------------------------------------
(* The line (external)                                                      *)

Misbehave(kind) ==
  /\ Receiving /\ kind \in env.kinds /\ faults > 0 /\ faults' = faults - 1
  /\ UNCHANGED <<receiver, sender, env>>

LoseAnswer ==
  /\ Misbehave("ack")
  /\ back # <<>> /\ back' = Tail(back) /\ UNCHANGED line

LoseItem ==
  /\ Misbehave("lose")
  /\ line # <<>> /\ line' = Tail(line) /\ UNCHANGED back

Garble ==
  /\ Misbehave("garble")
  /\ line # <<>> /\ Head(line).t = "blk" /\ Head(line).q = "ok"
  /\ \E q \in {"chksum", "frame", "cut"} : line' = [line EXCEPT ![1].q = q]
  /\ UNCHANGED back

Noise ==
  /\ Misbehave("noise")
  /\ line' = <<Item("noise", 0, "ok")>> \o line /\ UNCHANGED back

Receive == HdrEnter \/ HdrSkip \/ HdrItem \/ HdrTimeout \/ Copy

\* The download is over; the console reads what is left on the line.
Over == ~Receiving /\ UNCHANGED vars

Next ==
  \/ Receive \/ SenderMove \/ SenderRepeat
  \/ LoseAnswer \/ LoseItem \/ Garble \/ Noise
  \/ Over

Spec     == Init /\ [][Next]_vars
FairSpec == Spec /\ WF_vars(Receive) /\ WF_vars(SenderMove \/ SenderRepeat)

-----------------------------------------------------------------------------
(* Properties                                                               *)

\* Every variable keeps its type.
TypeOK ==
  /\ pc \in {"open", "read", "ok", "failed"}
  /\ hdr \in {"enter", "scan", "copy"}
  /\ retries \in 0 .. OpenRetries + Retries
  /\ crcLeft \in CrcRetries - OpenRetries .. CrcRetries
  /\ crcMode \in BOOLEAN /\ txAck \in BOOLEAN /\ seen \in BOOLEAN
  /\ nextBlk \in 0 .. BlkMod - 1 /\ pkt \in 0 .. Blocks
  /\ cans \in 0 .. CAN_COUNT
  /\ got \in Seq(1 .. Blocks)
  /\ spc \in {"start", "wait", "done", "quit"}
  /\ sent \in 1 .. Blocks + 1 /\ tries \in 0 .. SendTries

\* The blocks in the caller's buffer start with the first one and skip none,
\* whatever is lost, repeated or garbled: a block may at most come twice.
NoneSkipped ==
  /\ got # <<>> => got[1] = 1
  /\ \A i \in 1 .. Len(got) - 1 : got[i + 1] \in {got[i], got[i] + 1}

\* A download that Xmodem_read ends with EOT has the last block of the file.
Complete ==
  pc = "ok" /\ Len(got) < BufBlocks =>
    got # <<>> /\ got[Len(got)] = Blocks

\* Both: what has arrived is the start of the file without a gap, and all of
\* it when the download succeeds (Xmodem_read, do_xmodem_download).
DeliveredWhole == NoneSkipped /\ Complete

\* The sender never believes a block delivered that the receiver has not
\* taken: an ACK is for the block it waits for.
AckedIsTaken ==
  pc = "read" /\ spc = "wait" /\ sent > 1 =>
    \/ hdr = "copy" /\ pkt = sent - 1
    \/ \E i \in 1 .. Len(got) : got[i] = sent - 1

\* The buffer holds the file's blocks, each once and whole: a block that was
\* there before is only acknowledged again ("Just re-ACK this so sender will
\* get on with it", "Need new header", Xmodem.c:308-311), and only padding,
\* which the last block may have, is removed (Xmodem.c:293-294).
ImageFaithful ==
  /\ \A i \in 1 .. Len(got) : got[i] = i
  /\ cut \subseteq {Blocks}

\* Every download ends, well or badly.
Terminates == <>(pc \in {"ok", "failed"})

OneLostAnswer == ~env.deaf /\ env.faults <= 1 /\ env.kinds = {"ack"}

\* The time-outs and the repeated ACK make up for one lost answer: such a
\* download succeeds once it has begun.
SurvivesLostAck == OneLostAnswer /\ spc = "wait" /\ Receiving ~> pc = "ok"
=============================================================================
