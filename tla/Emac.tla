-------------------------------- MODULE Emac --------------------------------
(***************************************************************************)
(* The Ethernet drivers of the older chips, src/bsp/emac/emac_sl2312.c and  *)
(* src/bsp/emac/gmac_sl2312.c: one ring of descriptors for each direction,  *)
(* each descriptor owned by the processor or by the DMA engine.            *)
(*                                                                         *)
(* An engine goes round its ring as long as it finds descriptors it owns,   *)
(* stops at the first one it does not own, and goes on from there when      *)
(* started again.  It runs between any two accesses of the driver.  The     *)
(* chain of next_descriptor makes slot + 1 of each slot.  Frames are        *)
(* numbered modulo FrameMod, in the order they are stored in memory.        *)
(***************************************************************************)
EXTENDS Integers

CONSTANTS
  RxDesc,   \* RX_DESC_NUM
  TxDesc,   \* TX_DESC_NUM
  FrameMod  \* bound: frame numbers

ASSUME EmacAssumption ==
  /\ RxDesc \in Nat \ {0} /\ TxDesc \in Nat \ {0}
  /\ FrameMod \in Nat /\ FrameMod > RxDesc + 1 /\ FrameMod > TxDesc + 1

VARIABLES
  chip,      \* "emac" or "gmac": the driver
  macOn,     \* dis_rx and dis_tx of CONFIG0 are 0
  rxOwn,     \* frame_ctrl.bits_rx.own of each receive descriptor
  rxData,    \* the frame in each receive buffer
  rxCur,     \* tp->rx_cur_desc
  rxDma,     \* the descriptor the receiving engine has come to
  rxBusy,    \* rd_busy
  stored,    \* history: the last frame the engine stored
  taken,     \* history: the last frame the driver took out of the ring
  txOwn, txData, txCur, txDma, txBusy,
  queued,    \* history: the last frame given to the transmitting engine
  gone,      \* history: the last frame on the wire
  at         \* what the driver does next

rxVars   == <<rxOwn, rxData, rxCur, rxDma, rxBusy, stored, taken>>
txVars   == <<txOwn, txData, txCur, txDma, txBusy, queued, gone>>
emacVars == <<chip, macOn, rxVars, txVars, at>>

Plus1(f) == (f + 1) % FrameMod
After(d, n) == (d + 1) % n

\* gmac_init_desc_buf: the transmit ring is the driver's, the receive ring the
\* engine's.
TxRing == [d \in 0 .. TxDesc - 1 |-> "CPU"]
RxRing == [d \in 0 .. RxDesc - 1 |-> "DMA"]

\* emac_init_desc_buf and gmac_init_desc_buf.
EmacInit ==
  /\ chip \in {"emac", "gmac"}
  /\ rxOwn = RxRing /\ txOwn = TxRing
  /\ rxData = [d \in 0 .. RxDesc - 1 |-> 0]
  /\ txData = [d \in 0 .. TxDesc - 1 |-> 0]
  /\ rxCur = 0 /\ rxDma = 0 /\ rxBusy = FALSE
  /\ txCur = 0 /\ txDma = 0 /\ txBusy = FALSE
  /\ stored = 0 /\ taken = 0 /\ queued = 0 /\ gone = 0
  /\ macOn \in BOOLEAN /\ at = "start"

\* emac_init_chip and gmac_init_chip: both directions disabled, whatever was
\* left of them; the PHY has been told to negotiate and is not waited for.
InitMac(c) ==
  /\ chip = c /\ at = "start" /\ at' = "enable"
  /\ macOn' = FALSE
  /\ UNCHANGED <<chip, rxVars, txVars>>

EmacInitChip == InitMac("emac")
GmacInitChip == InitMac("gmac")

\* emac_enable_tx_rx and gmac_enable_tx_rx
EmacEnableTxRx ==
  /\ at = "enable" /\ at' = "dma"
  /\ macOn' = TRUE
  /\ UNCHANGED <<chip, rxVars, txVars>>

\* emac_hw_start and gmac_hw_start point both engines at the first descriptor
\* and start the receiving one only.
HwStart(c) ==
  /\ chip = c /\ at = "dma" /\ at' = "idle"
  /\ rxBusy' = TRUE
  /\ UNCHANGED <<chip, macOn, rxOwn, rxData, rxCur, rxDma, stored, taken, txVars>>

EmacHwStart == HwStart("emac")
GmacHwStart == HwStart("gmac")

-----------------------------------------------------------------------------
(* The engines. *)

RxStore ==
  /\ macOn /\ rxBusy /\ rxOwn[rxDma] = "DMA"
  /\ rxData' = [rxData EXCEPT ![rxDma] = Plus1(stored)]
  /\ rxOwn' = [rxOwn EXCEPT ![rxDma] = "CPU"]
  /\ stored' = Plus1(stored) /\ rxDma' = After(rxDma, RxDesc)
  /\ UNCHANGED <<chip, macOn, rxCur, rxBusy, taken, txVars, at>>

RxStop ==
  /\ rxBusy /\ rxOwn[rxDma] = "CPU"
  /\ rxBusy' = FALSE
  /\ UNCHANGED <<chip, macOn, rxOwn, rxData, rxCur, rxDma, stored, taken, txVars, at>>

TxTake ==
  /\ macOn /\ txBusy /\ txOwn[txDma] = "DMA"
  /\ gone' = txData[txDma]
  /\ txOwn' = [txOwn EXCEPT ![txDma] = "CPU"]
  /\ txDma' = After(txDma, TxDesc)
  /\ UNCHANGED <<chip, macOn, rxVars, txData, txCur, txBusy, queued, at>>

TxStop ==
  /\ txBusy /\ txOwn[txDma] = "CPU"
  /\ txBusy' = FALSE
  /\ UNCHANGED <<chip, macOn, rxVars, txOwn, txData, txCur, txDma, queued, gone, at>>

-----------------------------------------------------------------------------
(* sl2312_emac_deliver and sl2312_gmac_deliver, from enet_poll. *)

DeliverStart ==
  /\ at = "idle" /\ at' = "look"
  /\ UNCHANGED <<chip, macOn, rxVars, txVars>>

\* The owner bit; enet_input copies a good frame to a network buffer.
Look ==
  /\ at = "look"
  /\ IF rxOwn[rxCur] = "CPU" THEN at' = "release" /\ taken' = rxData[rxCur]
     ELSE at' = "restart" /\ UNCHANGED taken
  /\ UNCHANGED <<chip, macOn, rxOwn, rxData, rxCur, rxDma, rxBusy, stored, txVars>>

\* The descriptor goes back; what the driver does next.
Release(c, next) ==
  /\ chip = c /\ at = "release" /\ at' = next
  /\ rxOwn' = [rxOwn EXCEPT ![rxCur] = "DMA"]
  /\ rxCur' = After(rxCur, RxDesc)
  /\ UNCHANGED <<chip, macOn, rxData, rxDma, rxBusy, stored, taken, txVars>>

\* The gmac driver looks for more; the other one takes a single frame.
GmacRelease == Release("gmac", "look")
EmacRelease == Release("emac", "restart")

\* A stopped engine is started again.  The register is stored to the address
\* field of rxdma_busy, so that the rd_busy tested is never set: any value.
Restart(c) ==
  /\ chip = c /\ at = "restart" /\ at' = "idle"
  /\ \E busy \in BOOLEAN : rxBusy' = (IF busy THEN rxBusy ELSE TRUE)
  /\ UNCHANGED <<chip, macOn, rxOwn, rxData, rxCur, rxDma, stored, taken, txVars>>

GmacRestart == Restart("gmac")
EmacRestart == Restart("emac")

-----------------------------------------------------------------------------
(* enet_send *)

\* A mutant of Fill: the owner bit is not looked at.
Fill_Any(c) ==
  /\ chip = c /\ at = "idle"
  /\ txData' = [txData EXCEPT ![txCur] = Plus1(queued)]
  /\ txOwn' = [txOwn EXCEPT ![txCur] = "DMA"]
  /\ queued' = Plus1(queued) /\ txCur' = After(txCur, TxDesc)
  /\ at' = "kick"
  /\ UNCHANGED <<chip, macOn, rxVars, txDma, txBusy, gone>>

\* can_send: the owner bit; a frame that cannot be sent is dropped.
Fill(c) ==
  /\ chip = c /\ at = "idle" /\ txOwn[txCur] = "CPU"
  /\ txData' = [txData EXCEPT ![txCur] = Plus1(queued)]
  /\ txOwn' = [txOwn EXCEPT ![txCur] = "DMA"]
  /\ queued' = Plus1(queued) /\ txCur' = After(txCur, TxDesc)
  /\ at' = "kick"
  /\ UNCHANGED <<chip, macOn, rxVars, txDma, txBusy, gone>>

GmacFill == Fill("gmac")
EmacFill == Fill("emac")

\* A stopped engine is started again.
Kick ==
  /\ at = "kick" /\ at' = "idle"
  /\ txBusy' = TRUE
  /\ UNCHANGED <<chip, macOn, rxVars, txOwn, txData, txCur, txDma, queued, gone>>

EmacNext ==
  \/ EmacInitChip \/ GmacInitChip \/ EmacEnableTxRx \/ EmacHwStart \/ GmacHwStart
  \/ RxStore \/ RxStop \/ TxTake \/ TxStop
  \/ DeliverStart \/ Look \/ GmacRelease \/ EmacRelease
  \/ GmacRestart \/ EmacRestart
  \/ GmacFill \/ EmacFill \/ Kick

EmacSpec == EmacInit /\ [][EmacNext]_emacVars

-----------------------------------------------------------------------------
\* The driver takes received frames in order, each once and before the engine
\* may overwrite it; frames go out in the order they were queued, each once;
\* and a frame that is queued is never left to a stopped engine once the
\* driver's send has returned (sl2312_gmac_deliver, gmac_sl2312_send).
RingsInOrder ==
  /\ at \in {"idle", "look", "restart", "kick"} /\ rxOwn[rxCur] = "CPU"
       => rxData[rxCur] = Plus1(taken)
  /\ at = "release" => rxOwn[rxCur] = "CPU" /\ rxData[rxCur] = taken
  /\ txOwn[txDma] = "DMA" => txData[txDma] = Plus1(gone)
  /\ at # "kick" /\ txOwn[txDma] = "DMA" => txBusy
=============================================================================
