---------------------------- MODULE EthProperties ----------------------------
(***************************************************************************)
(* What the rings of module EthRings must keep true.                       *)
(***************************************************************************)
EXTENDS EthRings, Sequences

\* Every register and descriptor holds a value it can have.
TypeOK ==
  /\ rx_ring \in [RxIdx -> [DDONE : BOOLEAN, frame : Frame \cup {NoFrame}]]
  /\ tx_ring0 \in [TxIdx -> [DDONE : BOOLEAN, SDP0 : TxPackets]]
  /\ rx_dma_owner_idx0 \in RxIdx /\ RX_CALC_IDX0 \in RxIdx /\ RX_DRX_IDX0 \in RxIdx
  /\ tx_cpu_owner_idx0 \in TxIdx /\ TX_CTX_IDX0 \in TxIdx /\ TX_DTX_IDX0 \in TxIdx
  /\ dma_en \in BOOLEAN
  /\ written_back \subseteq TxIdx
  /\ pc \in {"off", "idle", "poll", "receive", "clear", "give"}
  /\ send_pc \in {"none", "wait", "check", "fill", "kick"}
  /\ packet \in TxPackets
  /\ retry_count \in 0 .. MaxRetry + 1
  /\ tx_content \in {"stack", "engine"}
  /\ on_wire \in TxPackets /\ delivered \in Frame \cup {NoFrame}
-----------------------------------------------------------------------------
\* Whether i lies in the part of a ring that begins at a and ends before b.
Between(a, i, b) == IF a <= b THEN a <= i /\ i < b ELSE a <= i \/ i < b

Filled(i) == Between(rx_dma_owner_idx0, i, RX_DRX_IDX0)
Queued(i) == Between(TX_DTX_IDX0, i, TX_CTX_IDX0)

\* The receive ring's two owners agree: the engine has filled exactly the
\* descriptors from rx_dma_owner_idx0 up to RX_DRX_IDX0, it is stopped one
\* short of the CPU, and a frame stays in its descriptor until it is read.
RxOwnership ==
  pc # "off" =>
    /\ RxNext(RX_CALC_IDX0) = rx_dma_owner_idx0
    /\ pc \in {"receive", "clear", "give"} => RX_DRX_IDX0 # rx_dma_owner_idx0
    /\ \A i \in RxIdx :
         rx_ring[i].DDONE <=> Filled(i) /\ ~(pc = "give" /\ i = rx_dma_owner_idx0)

\* The transmit ring's owners agree: the engine owns the descriptors that are
\* queued or not written back, and the CPU fills none of them.
TxOwnership ==
  pc # "off" =>
    /\ TX_CTX_IDX0 = tx_cpu_owner_idx0
    /\ send_pc \in {"fill", "kick"} => ~Full
    /\ send_pc \in {"fill", "kick"} => tx_cpu_owner_idx0 \notin written_back
    /\ \A i \in TxIdx :
         tx_ring0[i].DDONE <=> ~Queued(i) /\ i \notin written_back
                               /\ ~(send_pc = "kick" /\ i = tx_cpu_owner_idx0)
    /\ \A i \in written_back : ~Queued(i)
-----------------------------------------------------------------------------
(* The rings as queues.                                                    *)

Distance(a, b, n) == IF a <= b THEN b - a ELSE b + n - a

TxQueue == [k \in 1 .. Distance(TX_DTX_IDX0, TX_CTX_IDX0, NumTxDesc) |->
              tx_ring0[(TX_DTX_IDX0 + k - 1) % NumTxDesc].SDP0]

\* The frame NetReceive has got is not waiting any more.
RxFirst == IF pc \in {"receive", "clear", "give"} THEN RxNext(rx_dma_owner_idx0)
                                                  ELSE rx_dma_owner_idx0

RxQueue == [k \in 1 .. Distance(RxFirst, RX_DRX_IDX0, NumRxDesc) |->
              rx_ring[(RxFirst + k - 1) % NumRxDesc].frame]

\* The driver is a pair of bounded queues (module EthFifo): nothing accepted or
\* received is lost, repeated or overtaken, also when the rings are full, when
\* the engine is stopped and started, and when NetReceive sends a reply.
Fifo == INSTANCE EthFifo WITH txq <- TxQueue, rxq <- RxQueue,
                              Packets <- TxPackets, Frames <- Frame,
                              TxCapacity <- NumTxDesc - 1, RxCapacity <- NumRxDesc - 1
FifoSpec == Fifo!Spec
-----------------------------------------------------------------------------
\* "THE transmit packet": what goes out of NetTxPacket is what the stack put
\* there, not a frame the engine received into the same buffer.
TransmitsTheStacksPacket ==
  [][TX_DTX_IDX0' # TX_DTX_IDX0 /\ on_wire' = NetTxPacket /\ pc # "off" =>
       tx_content = "stack"]_vars

\* rt2880_eth_send returns even if the engine has stopped sending: it gives up
\* after MaxRetry retries.
SendReturns == send_pc # "none" ~> send_pc = "none"

\* A frame that has arrived is read sooner or later, whatever else arrives or is
\* sent, unless the stack stops the driver.
FramesAreRead ==
  \A i \in RxIdx : rx_ring[i].DDONE ~> ~rx_ring[i].DDONE \/ ~dma_en
==============================================================================
