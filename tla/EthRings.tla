------------------------------- MODULE EthRings -------------------------------
(***************************************************************************)
(* The descriptor rings of drivers/net/rt2880_eth.c.  The CPU and the DMA  *)
(* engine of the Ethernet controller share a transmit and a receive ring   *)
(* and tell each other how far they are with four index registers.  The    *)
(* CPU's code is one thread; the engine runs between any two accesses to a *)
(* descriptor or a register.                                               *)
(*                                                                         *)
(*    transmit:  TX_DTX_IDX0 (engine) chases TX_CTX_IDX0 (CPU)             *)
(*    receive:   RX_DRX_IDX0 (engine) chases RX_CALC_IDX0 (CPU)            *)
(***************************************************************************)
EXTENDS Naturals

CONSTANTS
  NumRxDesc,     \* NUM_RX_DESC, 24 on the boards
  NumTxDesc,     \* NUM_TX_DESC, 24 on the boards
  MaxRetry,      \* rt2880_eth_send gives up after 10 retries
  Lengths        \* of the frames that arrive

ASSUME Rings ==
  /\ NumRxDesc \in Nat \ {0, 1}
  /\ NumTxDesc \in Nat \ {0, 1}
  /\ MaxRetry \in Nat

RxIdx == 0 .. NumRxDesc - 1
TxIdx == 0 .. NumTxDesc - 1

\* Faulty variant of RxNext: the index runs off the end of the ring.
RxNextUnwrapped(i) == i + 1

RxNext(i) == (i + 1) % NumRxDesc
TxNext(i) == (i + 1) % NumTxDesc

\* The buffers of the network stack.  The driver takes buffer i of PktBuf for
\* receive descriptor i; net.c lets NetTxPacket point to the first of PktBuf.
RxBuffer(i) == i
NetTxPacket == 0
ArpTxPacket == NumRxDesc + 1     \* a buffer of its own
TxPackets   == {NetTxPacket, ArpTxPacket}

VARIABLES
  rx_ring,             \* DDONE_bit, PLEN0 and SP of each descriptor
  tx_ring0,            \* DDONE_bit and SDP0 of each descriptor
  rx_dma_owner_idx0, tx_cpu_owner_idx0,
  RX_CALC_IDX0, RX_DRX_IDX0, TX_CTX_IDX0, TX_DTX_IDX0,
  dma_en,              \* RX_DMA_EN and TX_DMA_EN of PDMA_GLO_CFG
  written_back,        \* sent descriptors whose DDONE_bit is still to come
  pc,                  \* where the stack, or rt2880_eth_recv, is
  send_pc, packet, retry_count,     \* rt2880_eth_send
  tx_content,          \* who wrote NetTxPacket last: the stack or the engine
  on_wire, delivered   \* the last packet sent, the last frame NetReceive got

rings  == <<rx_ring, tx_ring0>>
rx     == <<rx_dma_owner_idx0, RX_CALC_IDX0>>
tx     == <<tx_cpu_owner_idx0, TX_CTX_IDX0>>
engine == <<RX_DRX_IDX0, TX_DTX_IDX0, written_back>>
send   == <<send_pc, packet, retry_count>>
seen   == <<on_wire, delivered>>
vars   == <<rings, rx, tx, engine, send, seen, dma_en, pc, tx_content>>

Frame  == [len : Lengths, cpu_port : BOOLEAN]       \* cpu_port: SP is 6
NoFrame == [len |-> 0, cpu_port |-> FALSE]
-----------------------------------------------------------------------------
(* rt2880_eth_init, rt2880_eth_halt.                                       *)

\* rt2880_eth_setup, with START_ETH at its end.
Setup ==
  /\ pc = "off"
  /\ rx_ring' = [i \in RxIdx |-> [DDONE |-> FALSE, frame |-> NoFrame]]
  /\ tx_ring0' = [i \in TxIdx |-> [DDONE |-> TRUE, SDP0 |-> NetTxPacket]]
  /\ rx_dma_owner_idx0' = 0 /\ tx_cpu_owner_idx0' = 0
  /\ TX_CTX_IDX0' = 0 /\ TX_DTX_IDX0' = 0
  /\ RX_CALC_IDX0' = NumRxDesc - 1 /\ RX_DRX_IDX0' = 0
  /\ dma_en' = TRUE
  /\ pc' = "idle"
  /\ UNCHANGED <<written_back, send, seen, tx_content>>

\* The stack halts the driver between two calls, or from within NetReceive.
Halt == /\ pc \in {"idle", "receive"} /\ send_pc = "none"
        /\ dma_en
        /\ dma_en' = FALSE
        /\ UNCHANGED <<rings, rx, tx, engine, send, seen, pc, tx_content>>

\* The second and later calls of rt2880_eth_init only start the engine again.
Restart == /\ pc = "idle"
           /\ ~dma_en
           /\ dma_en' = TRUE
           /\ UNCHANGED <<rings, rx, tx, engine, send, seen, pc, tx_content>>
-----------------------------------------------------------------------------
(* rt2880_eth_send.                                                        *)

\* The stack writes a packet and sends it, on its own account or as the reply
\* to the frame NetReceive is looking at.
Send(b) ==
  /\ pc \in {"idle", "receive"} /\ send_pc = "none"
  /\ dma_en
  /\ send_pc' = "wait" /\ packet' = b /\ retry_count' = 0
  /\ pc' = IF pc = "receive" THEN "clear" ELSE pc
  /\ tx_content' = IF b = NetTxPacket THEN "stack" ELSE tx_content
  /\ UNCHANGED <<rings, rx, tx, engine, seen, dma_en>>

\* Faulty variant of Retry: the label Retry before the variable is set to 0.
RetryUncounted == /\ send_pc' = "wait"
                  /\ UNCHANGED <<packet, retry_count>>

Retry == /\ retry_count' = retry_count + 1
         /\ send_pc' = "wait"
         /\ UNCHANGED packet

\* The descriptor is free, or TOUT_LOOP polls have not seen it become free.
Wait ==
  /\ send_pc = "wait"
  /\ retry_count <= MaxRetry
  /\ IF tx_ring0[tx_cpu_owner_idx0].DDONE
     THEN send_pc' = "check" /\ UNCHANGED <<packet, retry_count>>
     ELSE Retry
  /\ UNCHANGED <<rings, rx, tx, engine, seen, dma_en, pc, tx_content>>

\* Faulty variant of Full: the last free descriptor is used as well.
FullIfNone == FALSE

\* The engine is one ahead of the CPU: one more packet would look like none.
Full == TX_DTX_IDX0 = TxNext(tx_cpu_owner_idx0)

Check ==
  /\ send_pc = "check"
  /\ IF Full THEN Retry ELSE send_pc' = "fill" /\ UNCHANGED <<packet, retry_count>>
  /\ UNCHANGED <<rings, rx, tx, engine, seen, dma_en, pc, tx_content>>

Fill ==
  /\ send_pc = "fill"
  /\ tx_ring0' = [tx_ring0 EXCEPT ![tx_cpu_owner_idx0] = [DDONE |-> FALSE, SDP0 |-> packet]]
  /\ send_pc' = "kick"
  /\ UNCHANGED <<rx_ring, rx, tx, engine, packet, retry_count, seen, dma_en, pc, tx_content>>

\* The call is over and its locals are gone.
Return == send_pc' = "none" /\ packet' = NetTxPacket /\ retry_count' = 0

Kick ==
  /\ send_pc = "kick"
  /\ tx_cpu_owner_idx0' = TxNext(tx_cpu_owner_idx0)
  /\ TX_CTX_IDX0' = TxNext(tx_cpu_owner_idx0)
  /\ Return
  /\ UNCHANGED <<rings, rx, engine, seen, dma_en, pc, tx_content>>

GiveUp ==
  /\ send_pc = "wait"
  /\ retry_count > MaxRetry
  /\ Return
  /\ UNCHANGED <<rings, rx, tx, engine, seen, dma_en, pc, tx_content>>
-----------------------------------------------------------------------------
(* rt2880_eth_recv: frames until there is none.                            *)

\* NetLoop calls eth_rx between eth_init and eth_halt.
Recv ==
  /\ pc = "idle" /\ send_pc = "none"
  /\ dma_en
  /\ pc' = "poll"
  /\ UNCHANGED <<rings, rx, tx, engine, send, seen, dma_en, tx_content>>

Poll ==
  /\ pc = "poll"
  /\ IF ~rx_ring[rx_dma_owner_idx0].DDONE
     THEN pc' = "idle" /\ UNCHANGED delivered
     ELSE LET frame == rx_ring[rx_dma_owner_idx0].frame
          IN  IF frame.cpu_port
              THEN pc' = "clear" /\ UNCHANGED delivered
              ELSE pc' = "receive" /\ delivered' = frame      \* NetReceive
  /\ UNCHANGED <<rings, rx, tx, engine, send, on_wire, dma_en, tx_content>>

\* NetReceive returns without a reply.
NoReply ==
  /\ pc = "receive"
  /\ pc' = "clear"
  /\ UNCHANGED <<rings, rx, tx, engine, send, seen, dma_en, tx_content>>

\* Faulty variant of Given: the descriptor behind the one just read.
GivenNext == RxNext(rx_dma_owner_idx0)

\* What RX_CALC_IDX0 is set to: the descriptor just read.
Given == rx_dma_owner_idx0

Clear ==
  /\ pc = "clear" /\ send_pc = "none"
  /\ rx_ring' = [rx_ring EXCEPT ![rx_dma_owner_idx0].DDONE = FALSE]
  /\ pc' = "give"
  /\ UNCHANGED <<tx_ring0, rx, tx, engine, send, seen, dma_en, tx_content>>

\* Faulty variant of Give: the descriptor is given back and looked at again.
GiveAndStay ==
  /\ pc = "give"
  /\ RX_CALC_IDX0' = Given
  /\ pc' = "poll"
  /\ UNCHANGED <<rings, rx_dma_owner_idx0, tx, engine, send, seen, dma_en, tx_content>>

Give ==
  /\ pc = "give"
  /\ RX_CALC_IDX0' = Given
  /\ rx_dma_owner_idx0' = RxNext(rx_dma_owner_idx0)
  /\ pc' = "poll"
  /\ UNCHANGED <<rings, tx, engine, send, seen, dma_en, tx_content>>
-----------------------------------------------------------------------------
(* The engine.                                                             *)

\* A frame arrives and there is room: the engine stops at RX_CALC_IDX0.
Arrive(f) ==
  /\ dma_en
  /\ RX_DRX_IDX0 # RX_CALC_IDX0
  /\ rx_ring' = [rx_ring EXCEPT ![RX_DRX_IDX0] = [DDONE |-> TRUE, frame |-> f]]
  /\ RX_DRX_IDX0' = RxNext(RX_DRX_IDX0)
  /\ tx_content' = IF RxBuffer(RX_DRX_IDX0) = NetTxPacket THEN "engine" ELSE tx_content
  /\ UNCHANGED <<tx_ring0, rx, tx, TX_DTX_IDX0, written_back, send, seen, dma_en, pc>>

Transmit ==
  /\ dma_en
  /\ TX_DTX_IDX0 # TX_CTX_IDX0
  /\ on_wire' = tx_ring0[TX_DTX_IDX0].SDP0
  /\ TX_DTX_IDX0' = TxNext(TX_DTX_IDX0)
  /\ written_back' = written_back \cup {TX_DTX_IDX0}
  /\ UNCHANGED <<rings, rx, tx, RX_DRX_IDX0, send, delivered, dma_en, pc, tx_content>>

\* TX_WB_DDONE: the DDONE_bit follows, in the order of the packets or not.
WriteBack(i) ==
  /\ i \in written_back
  /\ tx_ring0' = [tx_ring0 EXCEPT ![i].DDONE = TRUE]
  /\ written_back' = written_back \ {i}
  /\ UNCHANGED <<rx_ring, rx, tx, RX_DRX_IDX0, TX_DTX_IDX0, send, seen, dma_en, pc,
                 tx_content>>
-----------------------------------------------------------------------------
Init ==
  /\ rx_ring = [i \in RxIdx |-> [DDONE |-> FALSE, frame |-> NoFrame]]
  /\ tx_ring0 = [i \in TxIdx |-> [DDONE |-> FALSE, SDP0 |-> NetTxPacket]]
  /\ rx_dma_owner_idx0 = 0 /\ tx_cpu_owner_idx0 = 0
  /\ RX_CALC_IDX0 = 0 /\ RX_DRX_IDX0 = 0 /\ TX_CTX_IDX0 = 0 /\ TX_DTX_IDX0 = 0
  /\ dma_en = FALSE /\ written_back = {}
  /\ pc = "off"
  /\ send_pc = "none" /\ packet = NetTxPacket /\ retry_count = 0
  /\ tx_content = "stack"
  /\ on_wire = NetTxPacket /\ delivered = NoFrame

Sending   == Wait \/ Check \/ Fill \/ Kick \/ GiveUp
Receiving == Poll \/ NoReply \/ Clear \/ Give
Stack     == Setup \/ Halt \/ Restart \/ \E b \in TxPackets : Send(b)
Engine    == \/ \E f \in Frame : Arrive(f)
             \/ Transmit
             \/ \E i \in TxIdx : WriteBack(i)

Next == Sending \/ Recv \/ Receiving \/ Stack \/ Engine

Spec == Init /\ [][Next]_vars

\* The CPU's code runs on.  NetLoop calls eth_rx in each of its iterations, so
\* a stack that sends over and over still receives: strong fairness of Recv.
FairSpec == Spec /\ WF_vars(Sending) /\ WF_vars(Receiving) /\ SF_vars(Recv)
==============================================================================
