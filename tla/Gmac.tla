-------------------------------- MODULE Gmac --------------------------------
(***************************************************************************)
(* The Ethernet driver of the LEPUS build, src/bsp/emac/sl_lepus_gmac.c,    *)
(* and the PHY of lepus_gmac_phy.c.                                        *)
(*                                                                         *)
(* Three rings are shared with the DMA engine.  The engine takes a buffer   *)
(* from the free queue, fills it and puts it on the default receive queue;  *)
(* toe_gmac_deliver hands it on and gives a buffer back; toe_gmac_send      *)
(* fills a slot of the transmit queue.  The driver never writes a free      *)
(* queue descriptor after toe_init_free_queue: giving back is only          *)
(* advancing the write pointer, so slot and buffer are one.  The engine     *)
(* runs between any two register accesses of the driver.  gmac_num is 0     *)
(* and GMAC_STATUS keeps its link bit (0x5b) in this build.                 *)
(***************************************************************************)
EXTENDS Integers, FiniteSets

CONSTANTS
  FreeNum,     \* TOE_SW_FREEQ_DESC_NUM
  RxNum,       \* TOE_DEFAULT_Q0_DESC_NUM
  TxNum,       \* TOE_GMAC0_SWTXQ_DESC_NUM
  Batch        \* frames one call of toe_gmac_deliver hands on

ASSUME GmacAssumption ==
  /\ FreeNum \in Nat \ {0, 1} /\ RxNum \in Nat \ {0, 1}
  /\ TxNum \in Nat \ {0, 1} /\ Batch \in Nat \ {0}

VARIABLES
  free,    \* GLOBAL_SWFQ_RWPTR_REG: read and write pointer
  rx,      \* default_qhdr->word1: read and write pointer
  rxDesc,  \* the buffer in each descriptor of the default queue
  tx,      \* GMAC_SW_TX_QUEUE0_PTR_REG: read and write pointer
  drv,     \* toe_gmac_deliver: where it is, with rwptr and counter
  swRead,  \* tp->rx_rwptr.rptr
  swWrite, \* toe->fq_rx_rwptr.wptr
  cable,   \* what the PHY reports: the link is up
  believed,\* tp->pre_phy_status = LINK_UP
  enabled  \* dis_rx = dis_tx = 0 in GMAC_CONFIG0

rings    == <<free, rx, rxDesc, swRead, swWrite>>
phy      == <<cable, believed, enabled>>
gmacVars == <<rings, tx, drv, phy>>

Next1(x, max) == IF x = max - 1 THEN 0 ELSE x + 1      \* RWPTR_ADVANCE_ONE

\* The slots from the read to the write pointer of a ring of n.
Between(p, n) ==
  {i \in 0 .. n - 1 : IF p.r <= p.w THEN p.r <= i /\ i < p.w
                      ELSE p.r <= i \/ i < p.w}

Idle == [at |-> "idle", r |-> 0, w |-> 0, n |-> 0]

\* A mutant of FreeInit: every buffer, the pointer one past the last.
FreeInit_All == [r |-> 0, w |-> FreeNum]

\* toe_init_free_queue: all buffers but the last belong to the engine.
FreeInit == [r |-> 0, w |-> FreeNum - 1]

\* toe_init_swtx_queue and toe_init_default_queue: both empty.
SwTxInit    == [r |-> 0, w |-> 0]
DefaultInit == [r |-> 0, w |-> 0]

\* toe_gmac_sl2312_init, up to toe_init_gmac.
GmacInit ==
  /\ free = FreeInit /\ swRead = 0 /\ swWrite = FreeNum - 1
  /\ tx = SwTxInit
  /\ rx = DefaultInit /\ rxDesc = [i \in 0 .. RxNum - 1 |-> 0]
  /\ drv = [Idle EXCEPT !.at = "phy"]
  /\ cable \in BOOLEAN /\ believed = FALSE /\ enabled = TRUE

-----------------------------------------------------------------------------
(* toe_init_gmac *)

\* dis_rx and dis_tx of GMAC_CONFIG0.
EnableTxRx  == enabled' = TRUE
DisableTxRx == enabled' = FALSE

\* gmac_set_phy_status restarts the negotiation and asks for the link.
SetPhyStatus ==
  /\ drv.at = "phy" /\ drv' = [drv EXCEPT !.at = "chip"]
  /\ believed' = cable
  /\ UNCHANGED <<rings, tx, cable, enabled>>

\* toe_gmac_init_chip: the registers, with both directions disabled.
InitChip ==
  /\ drv.at = "chip" /\ drv' = [drv EXCEPT !.at = "enable"]
  /\ DisableTxRx
  /\ UNCHANGED <<rings, tx, cable, believed>>

\* Enabled whatever the PHY has said; toe_gmac_hw_start starts the engines.
ToeInitGmac ==
  /\ drv.at = "enable" /\ drv' = Idle
  /\ EnableTxRx
  /\ UNCHANGED <<rings, tx, cable, believed>>

Started == drv.at \notin {"phy", "chip", "enable"}

-----------------------------------------------------------------------------
(* The DMA engine. *)

\* A frame comes in.
Receive ==
  /\ Started /\ enabled /\ cable
  /\ free.r # free.w /\ Next1(rx.w, RxNum) # rx.r
  /\ rxDesc' = [rxDesc EXCEPT ![rx.w] = free.r]
  /\ rx' = [rx EXCEPT !.w = Next1(@, RxNum)]
  /\ free' = [free EXCEPT !.r = Next1(@, FreeNum)]
  /\ UNCHANGED <<tx, drv, swRead, swWrite, phy>>

\* A frame goes out.
Transmit ==
  /\ Started /\ enabled /\ cable /\ tx.r # tx.w
  /\ tx' = [tx EXCEPT !.r = Next1(@, TxNum)]
  /\ UNCHANGED <<rings, drv, phy>>

Plug ==
  /\ cable' = ~cable
  /\ UNCHANGED <<rings, tx, drv, believed, enabled>>

-----------------------------------------------------------------------------
(* toe_gmac_deliver. *)

\* Every three seconds gmac_get_phy_status compares the link with what it
\* was.
GetPhyStatus ==
  /\ believed' = cable
  /\ IF cable = believed THEN UNCHANGED enabled
     ELSE IF cable THEN EnableTxRx ELSE DisableTxRx
  /\ UNCHANGED cable

\* toe_gmac_handle_default_rxq reads both pointers once; the read pointer
\* must be the one it left, else it stops for good.
Deliver ==
  /\ drv.at = "idle"
  /\ GetPhyStatus \/ UNCHANGED phy
  /\ drv' = [at |-> IF rx.r # swRead THEN "hang"
                    ELSE IF rx.r # rx.w THEN "copy" ELSE "idle",
             r |-> rx.r, w |-> rx.w, n |-> 1]
  /\ UNCHANGED <<rings, tx>>

\* enet_input copies the frame of the descriptor (or it is a bad frame).
Copy ==
  /\ drv.at = "copy"
  /\ drv' = [drv EXCEPT !.at = IF free.w # swWrite THEN "hang" ELSE "read"]
  /\ UNCHANGED <<rings, tx, phy>>

\* The read pointer of the default queue, then the write pointer of the free
\* queue, each in the register and in the driver's copy.
SetRptr ==
  /\ drv.at = "read"
  /\ rx' = [rx EXCEPT !.r = Next1(drv.r, RxNum)]
  /\ swRead' = Next1(drv.r, RxNum)
  /\ drv' = [drv EXCEPT !.at = "free", !.r = Next1(drv.r, RxNum)]
  /\ UNCHANGED <<free, rxDesc, swWrite, tx, phy>>

SetWptr ==
  /\ drv.at = "free"
  /\ free' = [free EXCEPT !.w = Next1(@, FreeNum)]
  /\ swWrite' = Next1(free.w, FreeNum)
  /\ drv' = IF drv.r # drv.w /\ drv.n < Batch
            THEN [drv EXCEPT !.at = "copy", !.n = @ + 1] ELSE Idle
  /\ UNCHANGED <<rx, rxDesc, swRead, tx, phy>>

\* toe_gmac_can_send looks at the link bit and at a register that is not the
\* queue's (base_addr for dma_base_addr): it may say yes to a full queue.
CanSend == {TRUE, FALSE}

\* enet_send drops a frame that cannot be sent, toe_gmac_send one that is too
\* long; with a full queue toe_gmac_send stops for good.
Send ==
  /\ drv.at = "idle" /\ TRUE \in CanSend
  /\ IF Next1(tx.w, TxNum) = tx.r
     THEN drv' = [Idle EXCEPT !.at = "hang"] /\ UNCHANGED tx
     ELSE tx' = [tx EXCEPT !.w = Next1(@, TxNum)] /\ UNCHANGED drv
  /\ UNCHANGED <<rings, phy>>

GmacNext ==
  \/ SetPhyStatus \/ InitChip \/ ToeInitGmac
  \/ Receive \/ Transmit \/ Plug \/ Deliver \/ Copy \/ SetRptr \/ SetWptr \/ Send

GmacSpec == GmacInit /\ [][GmacNext]_gmacVars

-----------------------------------------------------------------------------
\* Frames received and not yet copied lie in different buffers, and the
\* engine owns none of these buffers (toe_gmac_handle_default_rxq gives a
\* buffer back only by the order of the two pointers it advances).
RxIntact ==
  LET used == {rxDesc[i] : i \in Between(rx, RxNum)}
  IN  /\ Cardinality(used) = Cardinality(Between(rx, RxNum))
      /\ used \cap Between(free, FreeNum) = {}
=============================================================================
