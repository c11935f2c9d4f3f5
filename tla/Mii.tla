-------------------------------- MODULE Mii ---------------------------------
(***************************************************************************)
(* The registers of the PHYs, read and written bit by bit over two pins,    *)
(* MDC (clock) and MDIO (data): mii_read and mii_write of the three drivers *)
(* src/bsp/emac/lepus_gmac_phy.c, gmac_phy.c and emac_phy.c.  A frame is    *)
(* preamble, start, operation, PHY address, register address, turn-around   *)
(* and data.  In the first two drivers the giga PHY may have pins of its    *)
(* own (FPGA boards) or share those of the others.                          *)
(*                                                                         *)
(* Each bit the driver clocks is a step.  The PHYs (external) sample MDIO   *)
(* on the rising edge of MDC and drive their next bit after it; a line      *)
(* nobody drives is 1.                                                     *)
(*                                                                         *)
(* A number is the sequence of its bits, the highest first: the loops take  *)
(* (phyad >> (4 - i)) & 1 and add bit << (15 - i).                          *)
(***************************************************************************)
EXTENDS Integers, Sequences

CONSTANTS
  PreLen,    \* length of the preamble: 32
  AddrBits,  \* width of an address: 5
  DataBits,  \* width of a register: 16
  Phy,       \* addresses of the PHYs on the board
  GPhy,      \* GPHY_ADDR
  RegAd,     \* bound: register addresses used
  MiiCalls   \* bound: calls made

\* Numbers of n bits.
Word(n) == [1 .. n -> {0, 1}]

ASSUME MiiAssumption ==
  /\ PreLen \in Nat \ {0} /\ AddrBits \in Nat \ {0} /\ DataBits \in Nat \ {0}
  /\ Phy \subseteq Word(AddrBits) /\ RegAd \subseteq Word(AddrBits)
  /\ GPhy \in Phy /\ MiiCalls \in Nat

VARIABLES
  phyDrv,   \* the driver compiled in: "lepus", "gmac" or "emac"
  gpins,    \* the pins of the giga PHY
  miiCall,  \* the call under way, and what it was asked; "none" between calls
  bus,      \* the pins in use: "G" those of the giga PHY, "H" the others
  todo,     \* what is still to be clocked: bits to write, or Z
  value,    \* value in mii_read
  isOut,    \* the MDIO pin of each bus is an output
  mdio,     \* the level the driver gives the MDIO pin of each bus
  ones,     \* external: ones in a row seen by the PHYs of a bus (up to PreLen)
  heard,    \* external: the bits of the frame they are in; <<>> outside one
  reg,      \* external: the registers
  asked,    \* history: the registers as the completed writes want them
  miiLeft   \* calls that may still be made

phyVars == <<ones, heard, reg>>
miiVars == <<phyDrv, gpins, miiCall, bus, todo, value, isOut, mdio, phyVars, asked, miiLeft>>

Bus == {"G", "H"}
Z   == 2        \* a bit that is read

Zero(n) == [i \in 1 .. n |-> 0]

MiiInit ==
  /\ phyDrv \in {"lepus", "gmac", "emac"}
  /\ gpins \in Bus /\ (phyDrv = "emac" => gpins = "H")
  /\ miiCall = [op |-> "none", phyad |-> GPhy, regad |-> Zero(AddrBits), data |-> Zero(DataBits)]
  /\ bus = "H" /\ todo = <<>> /\ value = <<>>
  /\ isOut = [b \in Bus |-> FALSE] /\ mdio = [b \in Bus |-> 0]
  /\ ones = [b \in Bus |-> 0] /\ heard = [b \in Bus |-> <<>>]
  /\ reg \in [Phy -> [RegAd -> Word(DataBits)]]
  /\ asked = reg /\ miiLeft = MiiCalls

-----------------------------------------------------------------------------
(* External: the PHYs. *)

\* The pins a PHY is connected to, and the PHYs on the pins b.
WiredTo(p) == IF p = GPhy THEN gpins ELSE "H"
OnBus(b)   == {p \in Phy : WiredTo(p) = b}

HeadLen  == 4 + 2 * AddrBits           \* start, operation, two addresses
FrameLen == HeadLen + 2 + DataBits

OpOf(f)    == SubSeq(f, 3, 4)
PhyAdOf(f) == SubSeq(f, 5, 4 + AddrBits)
RegAdOf(f) == SubSeq(f, 5 + AddrBits, HeadLen)
DataOf(f)  == SubSeq(f, HeadLen + 3, FrameLen)

\* The frame is one that some PHY of the bus answers to.
Ours(b, f) == PhyAdOf(f) \in OnBus(b) /\ RegAdOf(f) \in RegAd

\* What the PHYs put on the line of b after an edge: nothing, the 0 of the
\* turn-around, or a bit of the register read.
PhyAnswer(b) ==
  LET f == heard[b]
      n == Len(f) - HeadLen IN
  IF n < 1 \/ OpOf(f) # <<1, 0>> \/ ~ Ours(b, f) THEN {}
  ELSE IF n = 1 THEN {0}
  ELSE {reg[PhyAdOf(f)][RegAdOf(f)][n - 1]}

\* A rising edge of MDC on the bus in use, with bit on its MDIO: a frame begins
\* with a 0 after a whole preamble, and a write takes effect at its end.
Edge(bit) ==
  LET f == Append(heard[bus], bit) IN
  /\ ones' = [ones EXCEPT ![bus] =
                IF bit = 0 \/ heard[bus] # <<>> THEN 0
                ELSE IF @ < PreLen THEN @ + 1 ELSE @]
  /\ heard' = [heard EXCEPT ![bus] =
                 IF Len(f) = FrameLen \/ (@ = <<>> /\ (bit = 1 \/ ones[bus] < PreLen))
                 THEN <<>> ELSE f]
  /\ reg' = IF Len(f) = FrameLen /\ OpOf(f) = <<0, 1>> /\ Ours(bus, f)
            THEN [reg EXCEPT ![PhyAdOf(f)][RegAdOf(f)] = DataOf(f)] ELSE reg

-----------------------------------------------------------------------------
(* The driver. *)

\* mii_serial_write: MDIO is made an output and set, then one pulse of MDC.
SerialWrite ==
  /\ todo # <<>> /\ Head(todo) \in {0, 1}
  /\ isOut' = [isOut EXCEPT ![bus] = TRUE]
  /\ mdio' = [mdio EXCEPT ![bus] = Head(todo)]
  /\ Edge(Head(todo))
  /\ todo' = Tail(todo)
  /\ UNCHANGED <<phyDrv, gpins, miiCall, bus, value, asked, miiLeft>>

\* The levels an MDIO line may have when drives are those it is given.
Line(drives) == IF drives = {} THEN {1} ELSE drives

\* A pulse, after which the pin is sampled; own is the level the driver gives
\* the line meanwhile, if any.
Sample(own) ==
  /\ todo # <<>> /\ Head(todo) = Z
  /\ UNCHANGED <<phyDrv, gpins, miiCall, bus, mdio, asked, miiLeft>>
  /\ \E bit \in Line(PhyAnswer(bus) \union own) : Edge(bit)
  /\ \E bit \in Line(PhyAnswer(bus)' \union own) : value' = Append(value, bit)
  /\ todo' = Tail(todo)

\* mii_serial_read: MDIO is made an input.
SerialRead ==
  /\ phyDrv # "emac"
  /\ isOut' = [isOut EXCEPT ![bus] = FALSE]
  /\ Sample({})

\* The same in emac_phy.c, where "| GPIO_MDC & (~GPIO_MDIO)" leaves MDIO as it
\* is, an output: the driver and the PHY both give the line a level.
EmacSerialRead ==
  /\ phyDrv = "emac"
  /\ UNCHANGED isOut
  /\ Sample(IF isOut[bus] THEN {mdio[bus]} ELSE {})

\* mii_pre_st
PreSt == [i \in 1 .. PreLen |-> 1] \o <<0, 1>>

Dummy == <<0, 0>>      \* two clocks after the frame

\* A mutant of ReadFrame: both bits of the turn-around are read.
ReadFrame_Turn(phyad, regad) ==
  PreSt \o <<1, 0>> \o phyad \o regad
    \o [i \in 1 .. 2 + DataBits |-> Z] \o Dummy

\* mii_read: what it clocks.  One bit of the turn-around is read, as the
\* sample is taken after the edge.
ReadFrame(phyad, regad) ==
  PreSt \o <<1, 0>> \o phyad \o regad
    \o [i \in 1 .. 1 + DataBits |-> Z] \o Dummy

\* mii_write: what it clocks.
WriteFrame(phyad, regad, data) ==
  PreSt \o <<0, 1>> \o phyad \o regad
    \o <<1, 0>> \o data \o Dummy

\* A call begins: c is what is asked, frame what will be clocked.
Begin(c, frame, pins) ==
  /\ todo = <<>> /\ miiCall.op = "none" /\ miiLeft > 0
  /\ miiCall' = c /\ todo' = frame /\ bus' = pins /\ value' = <<>>
  /\ miiLeft' = miiLeft - 1
  /\ UNCHANGED <<phyDrv, gpins, isOut, mdio, phyVars, asked>>

\* The pins: GPIO_MDC_PIN and GPIO_MDIO_PIN.
PinsOf(phyad) == IF phyad = GPhy THEN gpins ELSE "H"

ReadCall(phyad, regad) ==
  [op |-> "read", phyad |-> phyad, regad |-> regad, data |-> Zero(DataBits)]

WriteCall(phyad, regad, data) ==
  [op |-> "write", phyad |-> phyad, regad |-> regad, data |-> data]

\* mii_read and mii_write of each driver; emac_phy.c has one pair of pins.
LepusRead(p, r) ==
  phyDrv = "lepus" /\ Begin(ReadCall(p, r), ReadFrame(p, r), PinsOf(p))

LepusWrite(p, r, d) ==
  phyDrv = "lepus" /\ Begin(WriteCall(p, r, d), WriteFrame(p, r, d), PinsOf(p))

GmacRead(p, r) ==
  phyDrv = "gmac" /\ Begin(ReadCall(p, r), ReadFrame(p, r), PinsOf(p))

GmacWrite(p, r, d) ==
  phyDrv = "gmac" /\ Begin(WriteCall(p, r, d), WriteFrame(p, r, d), PinsOf(p))

EmacRead(p, r) ==
  phyDrv = "emac" /\ Begin(ReadCall(p, r), ReadFrame(p, r), "H")

EmacWrite(p, r, d) ==
  phyDrv = "emac" /\ Begin(WriteCall(p, r, d), WriteFrame(p, r, d), "H")

\* The call returns.
MiiReturn ==
  /\ todo = <<>> /\ miiCall.op # "none"
  /\ asked' = IF miiCall.op = "write"
              THEN [asked EXCEPT ![miiCall.phyad][miiCall.regad] = miiCall.data]
              ELSE asked
  /\ miiCall' = [miiCall EXCEPT !.op = "none"]
  /\ UNCHANGED <<phyDrv, gpins, bus, todo, value, isOut, mdio, phyVars, miiLeft>>

MiiNext ==
  \/ SerialWrite \/ SerialRead \/ EmacSerialRead \/ MiiReturn
  \/ \E p \in Phy, r \in RegAd :
       \/ LepusRead(p, r) \/ GmacRead(p, r) \/ EmacRead(p, r)
       \/ \E d \in Word(DataBits) :
            LepusWrite(p, r, d) \/ GmacWrite(p, r, d) \/ EmacWrite(p, r, d)

MiiSpec == MiiInit /\ [][MiiNext]_miiVars

-----------------------------------------------------------------------------
\* Every completed write has changed the register it names and no other, on
\* whichever bus, and a read about to return has the register's value: the
\* frames and the turn-around line up with the PHY's bits, also after earlier
\* calls on the same or the other bus (mii_read, mii_write; a read of emac_phy.c
\* samples a line it drives itself and is left out).
MiiExact ==
  /\ miiCall.op = "none" => reg = asked
  /\ todo = <<>> /\ miiCall.op = "read" /\ phyDrv # "emac"
       => Tail(value) = reg[miiCall.phyad][miiCall.regad]
=============================================================================
