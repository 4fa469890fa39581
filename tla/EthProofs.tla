------------------------------ MODULE EthProofs ------------------------------
(***************************************************************************)
(* The two owners of each ring of the Ethernet driver agree, and the two    *)
(* rings implement a pair of bounded queues, for rings of any size          *)
(* (module EthProperties states what is proved).                            *)
(***************************************************************************)
EXTENDS EthProperties, DivisionLemmas, SequenceTheorems, TLAPS

(* The part of a ring between two indices.                                 *)

\* The next index of a ring is one more, and 0 after the last one.
LEMMA Step ==
  ASSUME NEW n \in Nat \ {0, 1}, NEW i \in 0 .. n - 1
  PROVE  (i + 1) % n = IF i = n - 1 THEN 0 ELSE i + 1
<1>1. CASE i = n - 1
  <2>1. n % n = 0
    BY SMT
  <2> QED BY <1>1, <2>1, SMT
<1>2. CASE i # n - 1
  BY <1>2, SMT
<1> QED BY <1>1, <1>2

\* The next index is an index, and different indices have different next ones.
LEMMA RxIndices ==
  /\ 0 \in RxIdx /\ NumRxDesc - 1 \in RxIdx
  /\ RxNext(NumRxDesc - 1) = 0
  /\ \A i \in RxIdx : RxNext(i) \in RxIdx
  /\ \A i, j \in RxIdx : RxNext(i) = RxNext(j) => i = j
<1>1. NumRxDesc \in Nat \ {0, 1}
  BY Rings
<1>2. \A i \in RxIdx : RxNext(i) = IF i = NumRxDesc - 1 THEN 0 ELSE i + 1
  BY <1>1, Step DEF RxIdx, RxNext
<1>3. 0 \in RxIdx /\ NumRxDesc - 1 \in RxIdx
  BY <1>1 DEF RxIdx
<1> QED BY <1>1, <1>2, <1>3 DEF RxIdx

\* The same for the transmit ring.
LEMMA TxIndices ==
  /\ 0 \in TxIdx
  /\ \A i \in TxIdx : TxNext(i) \in TxIdx
  /\ \A i, j \in TxIdx : TxNext(i) = TxNext(j) => i = j
<1>1. NumTxDesc \in Nat \ {0, 1}
  BY Rings
<1>2. \A i \in TxIdx : TxNext(i) = IF i = NumTxDesc - 1 THEN 0 ELSE i + 1
  BY <1>1, Step DEF TxIdx, TxNext
<1>3. 0 \in TxIdx
  BY <1>1 DEF TxIdx
<1> QED BY <1>1, <1>2, <1>3 DEF TxIdx

\* Nothing lies between an index and itself.
LEMMA NothingBetween ==
  ASSUME NEW n \in Nat, NEW a \in 0 .. n - 1, NEW i \in 0 .. n - 1
  PROVE  ~Between(a, i, a)
BY DEF Between

\* The first index of a part that is not empty belongs to it, the end does not.
LEMMA FirstBetween ==
  ASSUME NEW n \in Nat, NEW a \in 0 .. n - 1, NEW b \in 0 .. n - 1
  PROVE  /\ Between(a, a, b) <=> a # b
         /\ ~Between(a, b, b)
BY DEF Between

\* The end moves by one: the part gains the old end, unless it closes the ring.
LEMMA EndMoves ==
  ASSUME NEW n \in Nat \ {0, 1}, NEW a \in 0 .. n - 1, NEW b \in 0 .. n - 1,
         NEW i \in 0 .. n - 1, (b + 1) % n # a
  PROVE  Between(a, i, (b + 1) % n) <=> Between(a, i, b) \/ i = b
BY Step DEF Between

\* The beginning moves by one: the part loses its first index.
LEMMA BeginningMoves ==
  ASSUME NEW n \in Nat \ {0, 1}, NEW a \in 0 .. n - 1, NEW b \in 0 .. n - 1,
         NEW i \in 0 .. n - 1, a # b
  PROVE  Between((a + 1) % n, i, b) <=> Between(a, i, b) /\ i # a
BY Step DEF Between
-----------------------------------------------------------------------------
(* The types.                                                              *)

RxSlot == [DDONE : BOOLEAN, frame : Frame \cup {NoFrame}]
TxSlot == [DDONE : BOOLEAN, SDP0 : TxPackets]

\* rt2880_eth_send comes to look at the ring with a retry left.
TypeInv == TypeOK /\ (send_pc = "check" => retry_count <= MaxRetry)

\* Every step of the program and of the engine keeps every type.
LEMMA TypeStep == TypeInv /\ [Next]_vars => TypeInv'
<1> SUFFICES ASSUME TypeInv, [Next]_vars
             PROVE  TypeInv'
  OBVIOUS
<1> USE Rings, RxIndices, TxIndices DEF TypeOK, TypeInv
<1>1. CASE Setup
  BY <1>1 DEF Setup, NoFrame, TxPackets, engine, send, seen
<1>2. CASE Halt \/ Restart
  BY <1>2 DEF Halt, Restart, rings, rx, tx, engine, send, seen
<1>3. ASSUME NEW b \in TxPackets, Send(b)
      PROVE  TypeInv'
  BY <1>3 DEF Send, rings, rx, tx, engine, seen
<1>4. CASE Wait \/ Check
  <2>1. retry_count <= MaxRetry => retry_count + 1 \in 0 .. MaxRetry + 1
    OBVIOUS
  <2>2. CASE Wait
    BY <2>1, <2>2 DEF Wait, Retry, rings, rx, tx, engine, seen
  <2>3. CASE Check
    BY <2>1, <2>3 DEF Check, Retry, rings, rx, tx, engine, seen
  <2> QED BY <1>4, <2>2, <2>3
<1>5. CASE Fill
  <2>1. [DDONE |-> FALSE, SDP0 |-> packet] \in TxSlot
    BY DEF TxSlot
  <2>2. tx_ring0' \in [TxIdx -> TxSlot]
    BY <1>5, <2>1 DEF Fill, TxSlot
  <2> QED BY <1>5, <2>2 DEF Fill, TxSlot, rx, tx, engine, seen
<1>6. CASE Kick \/ GiveUp
  BY <1>6 DEF Kick, GiveUp, Return, TxPackets, rings, rx, tx, engine, seen
<1>7. CASE Recv \/ NoReply
  BY <1>7 DEF Recv, NoReply, rings, rx, tx, engine, send, seen
<1>8. CASE Poll
  BY <1>8 DEF Poll, rings, rx, tx, engine, send
<1>9. CASE Clear
  <2>1. rx_ring' \in [RxIdx -> RxSlot]
    <3> DEFINE old == rx_ring[rx_dma_owner_idx0]
               new == [old EXCEPT !.DDONE = FALSE]
    <3>1. rx_ring \in [RxIdx -> RxSlot]
      BY DEF RxSlot
    <3>2. new \in RxSlot
      BY <3>1 DEF RxSlot
    <3>3. rx_ring' = [rx_ring EXCEPT ![rx_dma_owner_idx0] = new]
      BY <1>9 DEF Clear
    <3> QED BY <3>1, <3>2, <3>3
  <2> QED BY <1>9, <2>1 DEF Clear, RxSlot, rx, tx, engine, send, seen
<1>10. CASE Give
  BY <1>10 DEF Give, Given, rings, tx, engine, send, seen
<1>11. ASSUME NEW f \in Frame, Arrive(f)
       PROVE  TypeInv'
  <2>1. [DDONE |-> TRUE, frame |-> f] \in RxSlot
    BY DEF RxSlot
  <2>2. rx_ring' \in [RxIdx -> RxSlot]
    BY <1>11, <2>1 DEF Arrive, RxSlot
  <2> QED BY <1>11, <2>2 DEF Arrive, RxSlot, rx, tx, send, seen
<1>12. CASE Transmit
  <2>1. tx_ring0[TX_DTX_IDX0].SDP0 \in TxPackets
    OBVIOUS
  <2> QED BY <1>12, <2>1 DEF Transmit, rings, rx, tx, send
<1>13. ASSUME NEW i \in TxIdx, WriteBack(i)
       PROVE  TypeInv'
  <2>1. tx_ring0' \in [TxIdx -> TxSlot]
    <3> DEFINE old == tx_ring0[i]
               new == [old EXCEPT !.DDONE = TRUE]
    <3>1. tx_ring0 \in [TxIdx -> TxSlot]
      BY DEF TxSlot
    <3>2. new \in TxSlot
      BY <3>1 DEF TxSlot
    <3>3. tx_ring0' = [tx_ring0 EXCEPT ![i] = new]
      BY <1>13 DEF WriteBack
    <3> QED BY <3>1, <3>2, <3>3
  <2> QED BY <1>13, <2>1 DEF WriteBack, TxSlot, rx, tx, send, seen
<1>14. CASE UNCHANGED vars
  BY <1>14 DEF vars, rings, rx, tx, engine, send, seen
<1> QED
  BY <1>1, <1>2, <1>3, <1>4, <1>5, <1>6, <1>7, <1>8, <1>9, <1>10, <1>11, <1>12,
     <1>13, <1>14
  DEF Next, Sending, Receiving, Stack, Engine

\* When the board starts every type is right.
LEMMA InitTypeInv == Init => TypeInv
<1>1. [DDONE |-> FALSE, frame |-> NoFrame] \in RxSlot
  BY DEF RxSlot
<1>2. [DDONE |-> FALSE, SDP0 |-> NetTxPacket] \in TxSlot
  BY DEF TxSlot, TxPackets
<1> SUFFICES ASSUME Init PROVE TypeInv
  OBVIOUS
<1>3. rx_ring \in [RxIdx -> RxSlot] /\ tx_ring0 \in [TxIdx -> TxSlot]
  BY <1>1, <1>2 DEF Init
<1>4. /\ rx_dma_owner_idx0 \in RxIdx /\ RX_CALC_IDX0 \in RxIdx /\ RX_DRX_IDX0 \in RxIdx
      /\ tx_cpu_owner_idx0 \in TxIdx /\ TX_CTX_IDX0 \in TxIdx /\ TX_DTX_IDX0 \in TxIdx
  BY RxIndices, TxIndices DEF Init
<1>5. /\ packet \in TxPackets /\ on_wire \in TxPackets
      /\ delivered \in Frame \cup {NoFrame}
      /\ retry_count \in 0 .. MaxRetry + 1
  BY Rings DEF Init, TxPackets
<1> QED BY <1>3, <1>4, <1>5 DEF Init, TypeOK, TypeInv, RxSlot, TxSlot

\* The indices and descriptors of rt2880_eth.c always have values they can have.
THEOREM TypeCorrect == Spec => []TypeOK
<1>1. TypeInv => TypeOK
  BY DEF TypeInv
<1> QED BY <1>1, InitTypeInv, TypeStep, PTL DEF Spec
-----------------------------------------------------------------------------
(* The receive ring.                                                       *)

\* rx_dma_owner_idx0 and RX_DRX_IDX0 move; which descriptors are filled follows.
LEMMA FilledMoves ==
  ASSUME TypeOK, NEW i \in RxIdx
  PROVE  /\ ~Between(rx_dma_owner_idx0, i, rx_dma_owner_idx0)
         /\ Filled(rx_dma_owner_idx0) <=> rx_dma_owner_idx0 # RX_DRX_IDX0
         /\ ~Filled(RX_DRX_IDX0)
         /\ RxNext(RX_DRX_IDX0) # rx_dma_owner_idx0 =>
              (Between(rx_dma_owner_idx0, i, RxNext(RX_DRX_IDX0))
                 <=> Filled(i) \/ i = RX_DRX_IDX0)
         /\ rx_dma_owner_idx0 # RX_DRX_IDX0 =>
              (Between(RxNext(rx_dma_owner_idx0), i, RX_DRX_IDX0)
                 <=> Filled(i) /\ i # rx_dma_owner_idx0)
<1>1. NumRxDesc \in Nat \ {0, 1} /\ NumRxDesc \in Nat
  BY Rings
<1>2. /\ rx_dma_owner_idx0 \in 0 .. NumRxDesc - 1
      /\ RX_DRX_IDX0 \in 0 .. NumRxDesc - 1
      /\ i \in 0 .. NumRxDesc - 1
  BY DEF TypeOK, RxIdx
<1>3. ~Between(rx_dma_owner_idx0, i, rx_dma_owner_idx0)
  BY <1>1, <1>2, NothingBetween
<1>4. /\ Filled(rx_dma_owner_idx0) <=> rx_dma_owner_idx0 # RX_DRX_IDX0
      /\ ~Filled(RX_DRX_IDX0)
  BY <1>1, <1>2, FirstBetween DEF Filled
<1>5. RxNext(RX_DRX_IDX0) # rx_dma_owner_idx0 =>
        (Between(rx_dma_owner_idx0, i, RxNext(RX_DRX_IDX0))
           <=> Filled(i) \/ i = RX_DRX_IDX0)
  BY <1>1, <1>2, EndMoves DEF Filled, RxNext
<1>6. rx_dma_owner_idx0 # RX_DRX_IDX0 =>
        (Between(RxNext(rx_dma_owner_idx0), i, RX_DRX_IDX0)
           <=> Filled(i) /\ i # rx_dma_owner_idx0)
  BY <1>1, <1>2, BeginningMoves DEF Filled, RxNext
<1> QED BY <1>3, <1>4, <1>5, <1>6

\* Before rt2880_eth_setup the engine does not run and owns nothing.
OffInv == pc = "off" => ~dma_en /\ written_back = {} /\ send_pc = "none"

RxInv == TypeInv /\ OffInv /\ RxOwnership

\* Every step keeps the agreement about the receive ring.
LEMMA RxStep == RxInv /\ [Next]_vars => RxInv'
<1> SUFFICES ASSUME RxInv, [Next]_vars
             PROVE  OffInv' /\ RxOwnership'
  BY TypeStep DEF RxInv
<1>t. TypeOK /\ TypeOK'
  BY TypeStep DEF RxInv, TypeInv
<1>o. OffInv /\ RxOwnership
  BY DEF RxInv
<1>r. \A i \in RxIdx : rx_ring[i].DDONE \in BOOLEAN
  BY <1>t DEF TypeOK
<1>1. CASE Setup
  <2>1. OffInv'
    BY <1>1 DEF Setup, OffInv
  <2>2. \A i \in RxIdx : ~Between(0, i, 0)
    BY Rings, RxIndices, NothingBetween DEF RxIdx
  <2>3. \A i \in RxIdx : rx_ring'[i].DDONE = FALSE
    BY <1>1 DEF Setup
  <2> QED BY <1>1, <2>1, <2>2, <2>3, RxIndices DEF Setup, RxOwnership, Filled
\* The steps that touch neither the receive ring nor pc.
<1>2. ASSUME UNCHANGED <<rx_ring, rx, RX_DRX_IDX0, pc>>,
             pc = "off" => UNCHANGED <<dma_en, written_back, send_pc>>
      PROVE  OffInv' /\ RxOwnership'
  BY <1>2, <1>o DEF OffInv, RxOwnership, Filled, rx
\* The steps that move pc only, between the reads of the ring.
<1>3. ASSUME UNCHANGED <<rx_ring, rx, RX_DRX_IDX0>>, pc # "off", pc' # "off", pc # "give",
             pc' # "give",
             pc' \in {"receive", "clear"} =>
               pc = "receive" \/ rx_ring[rx_dma_owner_idx0].DDONE
      PROVE  OffInv' /\ RxOwnership'
  <2>1. pc' \in {"receive", "clear"} => RX_DRX_IDX0 # rx_dma_owner_idx0
    BY <1>3, <1>o, <1>t, FilledMoves DEF RxOwnership, TypeOK
  <2> QED BY <1>3, <1>o, <2>1 DEF OffInv, RxOwnership, Filled, rx
<1>4. CASE Restart \/ Halt
  BY <1>2, <1>4 DEF Restart, Halt, rings, engine, send
<1>5. ASSUME NEW b \in TxPackets, Send(b)
      PROVE  OffInv' /\ RxOwnership'
  <2>1. CASE pc = "idle"
    BY <1>2, <1>5, <2>1 DEF Send, rings, engine
  <2>2. CASE pc = "receive"
    BY <1>3, <1>5, <2>2 DEF Send, rings, engine
  <2> QED BY <1>5, <2>1, <2>2 DEF Send
<1>6. CASE Sending
  <2>1. pc # "off"
    BY <1>6, <1>o DEF Sending, Wait, Check, Fill, Kick, GiveUp, OffInv
  <2>2. UNCHANGED <<rx_ring, rx, RX_DRX_IDX0, pc>>
    BY <1>6 DEF Sending, Wait, Check, Fill, Kick, GiveUp, rings, engine
  <2> QED BY <1>2, <2>1, <2>2
<1>7. CASE Recv \/ Poll \/ NoReply
  <2>1. CASE Recv
    BY <1>3, <2>1 DEF Recv, rings, engine
  <2>2. CASE Poll
    BY <1>3, <2>2 DEF Poll, rings, engine
  <2>3. CASE NoReply
    BY <1>3, <2>3 DEF NoReply, rings, engine
  <2> QED BY <1>7, <2>1, <2>2, <2>3
<1>8. CASE Clear
  <2>1. rx_ring'[rx_dma_owner_idx0].DDONE = FALSE
    BY <1>8, <1>t DEF Clear, TypeOK
  <2>2. \A i \in RxIdx : i # rx_dma_owner_idx0 => rx_ring'[i].DDONE = rx_ring[i].DDONE
    BY <1>8, <1>t DEF Clear, TypeOK
  <2> QED BY <1>8, <1>o, <2>1, <2>2 DEF Clear, OffInv, RxOwnership, Filled, rx, engine
<1>9. CASE Give
  <2>1. RX_DRX_IDX0 # rx_dma_owner_idx0
    BY <1>9, <1>o DEF Give, RxOwnership
  <2>2. rx_dma_owner_idx0' = RxNext(rx_dma_owner_idx0)
    BY <1>9 DEF Give
  <2>3. \A i \in RxIdx : Filled(i)' <=> Filled(i) /\ i # rx_dma_owner_idx0
    BY <1>9, <1>t, <2>1, <2>2, FilledMoves DEF Give, Filled, engine
  <2> QED BY <1>9, <1>o, <2>2, <2>3 DEF Give, Given, OffInv, RxOwnership, rings
<1>10. ASSUME NEW f \in Frame, Arrive(f)
       PROVE  OffInv' /\ RxOwnership'
  <2>1. pc # "off"
    BY <1>10, <1>o DEF Arrive, OffInv
  <2>2. RxNext(RX_DRX_IDX0) # rx_dma_owner_idx0
    BY <1>10, <1>o, <1>t, <2>1, RxIndices DEF Arrive, RxOwnership, TypeOK
  <2>3. \A i \in RxIdx : Filled(i)' <=> Filled(i) \/ i = RX_DRX_IDX0
    BY <1>10, <1>t, <2>2, FilledMoves DEF Arrive, Filled, rx
  <2>4. /\ rx_ring'[RX_DRX_IDX0].DDONE = TRUE
        /\ \A i \in RxIdx : i # RX_DRX_IDX0 => rx_ring'[i].DDONE = rx_ring[i].DDONE
    BY <1>10, <1>t DEF Arrive, TypeOK
  <2>5. pc \in {"receive", "clear", "give"} => RX_DRX_IDX0 # rx_dma_owner_idx0
    BY <1>o, <2>1 DEF RxOwnership
  <2> QED
    BY <1>10, <1>o, <1>r, <1>t, <2>1, <2>2, <2>3, <2>4, <2>5
    DEF Arrive, OffInv, RxOwnership, rx, TypeOK
<1>11. CASE Transmit
  <2>1. pc # "off"
    BY <1>11, <1>o DEF Transmit, OffInv
  <2> QED BY <1>2, <1>11, <2>1 DEF Transmit, rings
<1>12. ASSUME NEW i \in TxIdx, WriteBack(i)
       PROVE  OffInv' /\ RxOwnership'
  <2>1. pc # "off"
    BY <1>12, <1>o DEF WriteBack, OffInv
  <2> QED BY <1>2, <1>12, <2>1 DEF WriteBack
<1>13. CASE UNCHANGED vars
  BY <1>2, <1>13 DEF vars, rings, rx, tx, engine, send, seen
<1> QED
  BY <1>1, <1>4, <1>5, <1>6, <1>7, <1>8, <1>9, <1>10, <1>11, <1>12, <1>13
  DEF Next, Receiving, Stack, Engine

\* rt2880_eth_recv and the engine never disagree about a receive descriptor: the
\* engine stays one short of the CPU and fills only descriptors that were read.
THEOREM RxOwnershipHolds == Spec => []RxOwnership
<1>1. Init => RxInv
  BY InitTypeInv DEF Init, RxInv, OffInv, RxOwnership
<1>2. RxInv => RxOwnership
  BY DEF RxInv
<1> QED BY <1>1, <1>2, RxStep, PTL DEF Spec
-----------------------------------------------------------------------------
(* The transmit ring.                                                      *)

\* TX_DTX_IDX0 and TX_CTX_IDX0 move; which descriptors are queued follows.
LEMMA QueuedMoves ==
  ASSUME TypeOK, NEW i \in TxIdx
  PROVE  /\ ~Between(TX_CTX_IDX0, i, TX_CTX_IDX0)
         /\ Queued(TX_DTX_IDX0) <=> TX_DTX_IDX0 # TX_CTX_IDX0
         /\ ~Queued(TX_CTX_IDX0)
         /\ TxNext(TX_CTX_IDX0) # TX_DTX_IDX0 =>
              (Between(TX_DTX_IDX0, i, TxNext(TX_CTX_IDX0))
                 <=> Queued(i) \/ i = TX_CTX_IDX0)
         /\ TX_DTX_IDX0 # TX_CTX_IDX0 =>
              (Between(TxNext(TX_DTX_IDX0), i, TX_CTX_IDX0)
                 <=> Queued(i) /\ i # TX_DTX_IDX0)
<1>1. NumTxDesc \in Nat \ {0, 1} /\ NumTxDesc \in Nat
  BY Rings
<1>2. /\ TX_CTX_IDX0 \in 0 .. NumTxDesc - 1
      /\ TX_DTX_IDX0 \in 0 .. NumTxDesc - 1
      /\ i \in 0 .. NumTxDesc - 1
  BY DEF TypeOK, TxIdx
<1>3. ~Between(TX_CTX_IDX0, i, TX_CTX_IDX0)
  BY <1>1, <1>2, NothingBetween
<1>4. /\ Queued(TX_DTX_IDX0) <=> TX_DTX_IDX0 # TX_CTX_IDX0
      /\ ~Queued(TX_CTX_IDX0)
  BY <1>1, <1>2, FirstBetween DEF Queued
<1>5. TxNext(TX_CTX_IDX0) # TX_DTX_IDX0 =>
        (Between(TX_DTX_IDX0, i, TxNext(TX_CTX_IDX0))
           <=> Queued(i) \/ i = TX_CTX_IDX0)
  BY <1>1, <1>2, EndMoves DEF Queued, TxNext
<1>6. TX_DTX_IDX0 # TX_CTX_IDX0 =>
        (Between(TxNext(TX_DTX_IDX0), i, TX_CTX_IDX0)
           <=> Queued(i) /\ i # TX_DTX_IDX0)
  BY <1>1, <1>2, BeginningMoves DEF Queued, TxNext
<1> QED BY <1>3, <1>4, <1>5, <1>6

\* The descriptor rt2880_eth_send has found free stays free.
TxInv == /\ TypeInv /\ OffInv /\ TxOwnership
         /\ send_pc = "check" => tx_ring0[tx_cpu_owner_idx0].DDONE

\* Every step keeps the agreement about the transmit ring.
LEMMA TxStep == TxInv /\ [Next]_vars => TxInv'
<1> DEFINE Goal == /\ OffInv /\ TxOwnership
                   /\ send_pc = "check" => tx_ring0[tx_cpu_owner_idx0].DDONE
<1> SUFFICES ASSUME TxInv, [Next]_vars
             PROVE  Goal'
  BY TypeStep DEF TxInv
<1>t. TypeOK /\ TypeOK'
  BY TypeStep DEF TxInv, TypeInv
<1>o. OffInv /\ TxOwnership
  BY DEF TxInv
<1>c. send_pc = "check" => tx_ring0[tx_cpu_owner_idx0].DDONE
  BY DEF TxInv
<1>1. CASE Setup
  <2>1. OffInv'
    BY <1>1 DEF Setup, OffInv
  <2>2. \A i \in TxIdx : ~Between(0, i, 0)
    BY Rings, TxIndices, NothingBetween DEF TxIdx
  <2>3. \A i \in TxIdx : tx_ring0'[i].DDONE = TRUE
    BY <1>1 DEF Setup
  <2>4. written_back' = {} /\ send_pc' = "none"
    BY <1>1, <1>o DEF Setup, OffInv, send
  <2> QED BY <1>1, <2>1, <2>2, <2>3, <2>4 DEF Setup, TxOwnership, Queued
\* The steps that change nothing of the transmit side; pc stays "off" or leaves
\* another value for a third one.
<1>2. ASSUME UNCHANGED <<tx_ring0, tx, TX_DTX_IDX0, written_back, send_pc>>,
             pc' = "off" <=> pc = "off",
             pc = "off" => UNCHANGED dma_en
      PROVE  Goal'
  BY <1>2, <1>o, <1>c DEF OffInv, TxOwnership, Queued, Full, tx
\* The steps of rt2880_eth_send that do not write to the ring.
<1>3. ASSUME UNCHANGED <<tx_ring0, tx, TX_DTX_IDX0, written_back>>,
             pc # "off", pc' # "off", send_pc # "kick",
             send_pc' \in {"none", "wait", "check", "fill"},
             send_pc' = "check" => tx_ring0[tx_cpu_owner_idx0].DDONE,
             send_pc' = "fill" => ~Full /\ tx_ring0[tx_cpu_owner_idx0].DDONE
      PROVE  Goal'
  <2>1. send_pc' = "fill" => tx_cpu_owner_idx0 \notin written_back
    BY <1>3, <1>o, <1>t DEF TxOwnership, TypeOK
  <2> QED BY <1>3, <1>o, <2>1 DEF OffInv, TxOwnership, Queued, Full, tx
<1>4. CASE Restart \/ Halt
  BY <1>2, <1>4 DEF Restart, Halt, rings, engine, send
<1>5. ASSUME NEW b \in TxPackets, Send(b)
      PROVE  Goal'
  BY <1>3, <1>5 DEF Send, rings, engine
<1>6. send_pc # "none" => pc # "off"
  BY <1>o DEF OffInv
<1>7. CASE Wait
  BY <1>3, <1>6, <1>7 DEF Wait, Retry, rings, engine
<1>8. CASE Check
  BY <1>3, <1>6, <1>8, <1>c DEF Check, Retry, rings, engine
<1>9. CASE GiveUp
  BY <1>3, <1>6, <1>9 DEF GiveUp, Return, rings, engine
<1>10. CASE Fill
  <2>1. /\ tx_ring0'[tx_cpu_owner_idx0].DDONE = FALSE
        /\ \A i \in TxIdx : i # tx_cpu_owner_idx0 =>
             tx_ring0'[i].DDONE = tx_ring0[i].DDONE
    BY <1>10, <1>t DEF Fill, TypeOK
  <2> QED
    BY <1>6, <1>10, <1>o, <1>t, <2>1
    DEF Fill, OffInv, TxOwnership, Queued, Full, tx, engine, TypeOK
<1>11. CASE Kick
  <2>1. /\ TxNext(TX_CTX_IDX0) # TX_DTX_IDX0
        /\ TX_CTX_IDX0 = tx_cpu_owner_idx0
        /\ tx_cpu_owner_idx0 \notin written_back
    BY <1>6, <1>11, <1>o DEF Kick, TxOwnership, Full
  <2>2. \A i \in TxIdx : Queued(i)' <=> Queued(i) \/ i = tx_cpu_owner_idx0
    BY <1>11, <1>t, <2>1, QueuedMoves DEF Kick, Queued, engine
  <2>3. \A i \in written_back : i \in TxIdx
    BY <1>t DEF TypeOK
  <2> QED
    BY <1>6, <1>11, <1>o, <2>1, <2>2, <2>3
    DEF Kick, Return, OffInv, TxOwnership, rings, engine
<1>12. CASE Transmit
  <2>1. pc # "off" /\ TX_DTX_IDX0 # TX_CTX_IDX0 /\ TX_CTX_IDX0 = tx_cpu_owner_idx0
    BY <1>12, <1>o DEF Transmit, OffInv, TxOwnership
  <2>2. \A i \in TxIdx : Queued(i)' <=> Queued(i) /\ i # TX_DTX_IDX0
    BY <1>12, <1>t, <2>1, QueuedMoves DEF Transmit, Queued, tx
  <2>3. Queued(TX_DTX_IDX0)
    BY <1>t, <2>1, QueuedMoves DEF TypeOK
  <2>4. TX_DTX_IDX0' # TxNext(tx_cpu_owner_idx0)
    BY <1>12, <1>t, <2>1, TxIndices DEF Transmit, TypeOK
  <2>5. \A i \in written_back' : i \in TxIdx
    BY <1>t DEF TypeOK
  <2>6. OffInv' /\ (send_pc = "check" => tx_ring0[tx_cpu_owner_idx0].DDONE)'
    BY <1>12, <1>c, <2>1 DEF Transmit, OffInv, rings, tx, send
  <2>7. \A i \in TxIdx : (tx_ring0[i].DDONE <=> ~Queued(i) /\ i \notin written_back
                            /\ ~(send_pc = "kick" /\ i = tx_cpu_owner_idx0))'
    BY <1>12, <1>o, <2>1, <2>2, <2>3 DEF Transmit, TxOwnership, rings, tx, send
  <2>8. \A i \in written_back' : ~Queued(i)'
    BY <1>12, <1>o, <2>1, <2>2, <2>5 DEF Transmit, TxOwnership
  <2> QED
    BY <1>12, <1>o, <2>1, <2>4, <2>6, <2>7, <2>8 DEF Transmit, TxOwnership, Full, tx, send
<1>13. ASSUME NEW i \in TxIdx, WriteBack(i)
       PROVE  Goal'
  <2>1. pc # "off" /\ i \in written_back /\ ~Queued(i)
    BY <1>13, <1>o DEF WriteBack, OffInv, TxOwnership
  <2>2. /\ tx_ring0'[i].DDONE = TRUE
        /\ \A j \in TxIdx : j # i => tx_ring0'[j].DDONE = tx_ring0[j].DDONE
    BY <1>13, <1>t DEF WriteBack, TypeOK
  <2>3. send_pc = "kick" => i # tx_cpu_owner_idx0
    BY <1>o, <2>1 DEF TxOwnership
  <2> QED
    BY <1>13, <1>o, <1>c, <1>t, <2>1, <2>2, <2>3
    DEF WriteBack, OffInv, TxOwnership, Queued, Full, tx, send, TypeOK
<1>14. CASE Recv \/ Poll \/ NoReply
  <2>1. CASE Recv
    BY <1>2, <2>1 DEF Recv, rings, engine, send
  <2>2. CASE Poll
    BY <1>2, <2>2 DEF Poll, rings, engine, send
  <2>3. CASE NoReply
    BY <1>2, <2>3 DEF NoReply, rings, engine, send
  <2> QED BY <1>14, <2>1, <2>2, <2>3
<1>15. CASE Clear \/ Give
  BY <1>2, <1>15 DEF Clear, Give, rings, engine, send
<1>16. ASSUME NEW f \in Frame, Arrive(f)
       PROVE  Goal'
  BY <1>2, <1>16 DEF Arrive, send
<1>17. CASE UNCHANGED vars
  BY <1>2, <1>17 DEF vars, rings, rx, tx, engine, send, seen
<1> QED
  BY <1>1, <1>4, <1>5, <1>7, <1>8, <1>9, <1>10, <1>11, <1>12, <1>13, <1>14, <1>15,
     <1>16, <1>17
  DEF Next, Sending, Receiving, Stack, Engine

\* rt2880_eth_send never fills a descriptor the engine still has to send or to
\* write back, and the DDONE_bit says who owns a descriptor.
THEOREM TxOwnershipHolds == Spec => []TxOwnership
<1>1. Init => TxInv
  BY InitTypeInv DEF Init, TxInv, OffInv, TxOwnership
<1>2. TxInv => TxOwnership
  BY DEF TxInv
<1> QED BY <1>1, <1>2, TxStep, PTL DEF Spec
-----------------------------------------------------------------------------
(* A part of a ring as a queue.                                             *)

\* What lies in a ring from a to b, in order.
RingQueue(c, a, b, n) == [k \in 1 .. Distance(a, b, n) |-> c[(a + k - 1) % n]]

\* Its length, and where its elements are.
Slots(a, b, n) ==
  /\ Distance(a, b, n) \in 0 .. n - 1
  /\ Distance(a, b, n) = 0 <=> a = b
  /\ \A k \in 1 .. Distance(a, b, n) :
       /\ (a + k - 1) % n = (IF a + k - 1 < n THEN a + k - 1 ELSE a + k - 1 - n)
       /\ (a + k - 1) % n \in 0 .. n - 1 /\ (a + k - 1) % n # b

\* No slot of the part is counted twice, and the end is not in it.
LEMMA SlotsOfRing ==
  ASSUME NEW n \in Nat \ {0, 1}, NEW a \in 0 .. n - 1, NEW b \in 0 .. n - 1
  PROVE  Slots(a, b, n)
<1> DEFINE d == Distance(a, b, n)
<1>1. d \in 0 .. n - 1 /\ (d = 0 <=> a = b) /\ d = IF a <= b THEN b - a ELSE b + n - a
  BY DEF Distance
<1> HIDE DEF d
<1>2. ASSUME NEW k \in 1 .. d
      PROVE  /\ (a + k - 1) % n = (IF a + k - 1 < n THEN a + k - 1 ELSE a + k - 1 - n)
             /\ (a + k - 1) % n \in 0 .. n - 1 /\ (a + k - 1) % n # b
  <2> DEFINE x == a + k - 1
             r == x % n
  <2>1. x \in 0 .. 2 * n - 1 /\ x = a + k - 1
    BY <1>1
  <2> HIDE DEF x
  <2>2. r = IF x < n THEN x ELSE x - n
    BY <2>1, ModSum
  <2> HIDE DEF r
  <2>3. r \in 0 .. n - 1 /\ r # b
    BY <1>1, <2>1, <2>2
  <2> QED BY <2>2, <2>3 DEF x, r
<1> QED BY <1>1, <1>2 DEF d, Slots

\* The part is a sequence as long as the distance of the two indices.
LEMMA QueueOfRing ==
  ASSUME NEW n \in Nat \ {0, 1}, NEW a \in 0 .. n - 1, NEW b \in 0 .. n - 1,
         NEW S, NEW c \in [0 .. n - 1 -> S]
  PROVE  RingQueue(c, a, b, n) \in Seq(S) /\ Len(RingQueue(c, a, b, n)) = Distance(a, b, n)
<1> DEFINE d == Distance(a, b, n)
           q == RingQueue(c, a, b, n)
<1>s. Slots(a, b, n)
  BY SlotsOfRing
<1>1. d \in 0 .. n - 1
  BY <1>s DEF Slots
<1>2. \A k \in 1 .. d : (a + k - 1) % n \in 0 .. n - 1
  BY <1>s DEF Slots
<1>3. \A k \in 1 .. d : c[(a + k - 1) % n] \in S
  BY <1>2
<1>4. q = [k \in 1 .. d |-> c[(a + k - 1) % n]]
  BY DEF RingQueue
<1> HIDE DEF q, d
<1>5. d \in Nat /\ q \in [1 .. d -> S]
  BY <1>1, <1>3, <1>4
<1>6. q \in Seq(S)
  BY <1>5
<1>7. Len(q) = d
  BY <1>5, <1>6, LenProperties
<1> QED BY <1>6, <1>7 DEF d, q

\* The first slot of the part holds the head of the queue, and moving on by one
\* takes it off.
LEMMA QueueHead ==
  ASSUME NEW n \in Nat \ {0, 1}, NEW a \in 0 .. n - 1, NEW b \in 0 .. n - 1,
         NEW S, NEW c \in [0 .. n - 1 -> S], a # b
  PROVE  /\ RingQueue(c, a, b, n) # <<>>
         /\ Head(RingQueue(c, a, b, n)) = c[a]
         /\ RingQueue(c, (a + 1) % n, b, n) = Tail(RingQueue(c, a, b, n))
<1> DEFINE q == RingQueue(c, a, b, n)
           a2 == (a + 1) % n
           t == RingQueue(c, a2, b, n)
           d == Distance(a, b, n)
           d2 == Distance(a2, b, n)
<1>1. a2 \in 0 .. n - 1 /\ a2 = IF a = n - 1 THEN 0 ELSE a + 1
  <2>1. a2 = IF a = n - 1 THEN 0 ELSE a + 1
    BY Step, Zenon
  <2> HIDE DEF a2
  <2> QED BY <2>1
<1> HIDE DEF a2
<1>2. /\ d \in 0 .. n - 1 /\ d # 0 /\ q \in Seq(S) /\ Len(q) = d
      /\ \A k \in 1 .. d : (a + k - 1) % n = (IF a + k - 1 < n THEN a + k - 1 ELSE a + k - 1 - n)
  <2>1. Slots(a, b, n)
    BY SlotsOfRing
  <2>2. q \in Seq(S) /\ Len(q) = d
    BY QueueOfRing
  <2> HIDE DEF q
  <2> QED BY <2>1, <2>2 DEF Slots
<1>3. /\ d2 \in 0 .. n - 1 /\ t \in Seq(S) /\ Len(t) = d2
      /\ \A k \in 1 .. d2 : (a2 + k - 1) % n = (IF a2 + k - 1 < n THEN a2 + k - 1 ELSE a2 + k - 1 - n)
  <2>1. Slots(a2, b, n)
    BY <1>1, SlotsOfRing
  <2>2. t \in Seq(S) /\ Len(t) = d2
    BY <1>1, QueueOfRing
  <2> HIDE DEF t
  <2> QED BY <2>1, <2>2 DEF Slots
<1>4. d2 = d - 1
  BY <1>1 DEF Distance
<1>5. \A k \in 1 .. d : q[k] = c[(a + k - 1) % n]
  BY DEF RingQueue
<1>6. \A k \in 1 .. d2 : t[k] = c[(a2 + k - 1) % n]
  BY DEF RingQueue
<1> HIDE DEF q, t, d, d2
<1>7. q # <<>>
  BY <1>2, EmptySeq
<1>8. Head(q) = c[a]
  <2>1. 1 \in 1 .. d /\ a + 1 - 1 = a /\ a < n
    BY <1>2
  <2>2. (a + 1 - 1) % n = a
    BY <1>2, <2>1
  <2>3. q[1] = c[a]
    BY <1>5, <2>1, <2>2
  <2> QED BY <1>2, <1>7, <2>3
<1>9. t = Tail(q)
  <2>1. Tail(q) \in Seq(S) /\ Len(Tail(q)) = d2 /\ \A i \in 1 .. d2 : Tail(q)[i] = q[i + 1]
    BY <1>2, <1>4, <1>7, HeadTailProperties
  <2>2. ASSUME NEW i \in 1 .. d2 PROVE t[i] = Tail(q)[i]
    <3>1. i + 1 \in 1 .. d
      BY <1>2, <1>3, <1>4
    <3>2. (a2 + i - 1) % n = (a + (i + 1) - 1) % n
      <4>1. (a2 + i - 1) % n = (IF a2 + i - 1 < n THEN a2 + i - 1 ELSE a2 + i - 1 - n)
        BY <1>3
      <4>2. (a + (i + 1) - 1) % n = (IF a + (i + 1) - 1 < n THEN a + (i + 1) - 1 ELSE a + (i + 1) - 1 - n)
        BY <1>2, <3>1
      <4> DEFINE u == (a2 + i - 1) % n
                 v == (a + (i + 1) - 1) % n
      <4>3. u = (IF a2 + i - 1 < n THEN a2 + i - 1 ELSE a2 + i - 1 - n)
        BY <4>1
      <4>4. v = (IF a + i < n THEN a + i ELSE a + i - n)
        BY <4>2
      <4> HIDE DEF u, v
      <4>5. a + i < n + n /\ a2 + i - 1 < n + n
        BY <1>1, <1>2, <1>3, <3>1
      <4>6. u = v
        BY <1>1, <1>3, <4>3, <4>4, <4>5
      <4> QED BY <4>6 DEF u, v
    <3>3. t[i] = c[(a2 + i - 1) % n] /\ q[i + 1] = c[(a + (i + 1) - 1) % n]
      BY <1>5, <1>6, <3>1
    <3> QED BY <2>1, <3>2, <3>3
  <2> QED BY <1>3, <2>1, <2>2, SeqEqual
<1> QED BY <1>7, <1>8, <1>9 DEF q, t, a2

\* The end moves on by one: the slot there is put behind the queue.
LEMMA QueueGrows ==
  ASSUME NEW n \in Nat \ {0, 1}, NEW a \in 0 .. n - 1, NEW b \in 0 .. n - 1,
         NEW S, NEW c \in [0 .. n - 1 -> S], (b + 1) % n # a
  PROVE  /\ RingQueue(c, a, (b + 1) % n, n) = Append(RingQueue(c, a, b, n), c[b])
         /\ Len(RingQueue(c, a, b, n)) < n - 1
<1> DEFINE q == RingQueue(c, a, b, n)
           b2 == (b + 1) % n
           t == RingQueue(c, a, b2, n)
           d == Distance(a, b, n)
           d2 == Distance(a, b2, n)
<1>1. b2 \in 0 .. n - 1 /\ b2 # a /\ b2 = IF b = n - 1 THEN 0 ELSE b + 1
  <2>1. b2 = IF b = n - 1 THEN 0 ELSE b + 1
    BY Step, Zenon
  <2> HIDE DEF b2
  <2> QED BY <2>1 DEF b2
<1> HIDE DEF b2
<1>2. d \in 0 .. n - 1 /\ q \in Seq(S) /\ Len(q) = d
  <2>1. Slots(a, b, n)
    BY SlotsOfRing
  <2>2. q \in Seq(S) /\ Len(q) = d
    BY QueueOfRing
  <2> HIDE DEF q
  <2> QED BY <2>1, <2>2 DEF Slots
<1>3. /\ d2 \in 0 .. n - 1 /\ t \in Seq(S) /\ Len(t) = d2
      /\ \A k \in 1 .. d2 : (a + k - 1) % n = (IF a + k - 1 < n THEN a + k - 1 ELSE a + k - 1 - n)
  <2>1. Slots(a, b2, n)
    BY <1>1, SlotsOfRing
  <2>2. t \in Seq(S) /\ Len(t) = d2
    BY <1>1, QueueOfRing
  <2> HIDE DEF t
  <2> QED BY <2>1, <2>2 DEF Slots
<1>4. d2 = d + 1 /\ d = IF a <= b THEN b - a ELSE b + n - a
  BY <1>1 DEF Distance
<1>5. \A k \in 1 .. d : q[k] = c[(a + k - 1) % n]
  BY DEF RingQueue
<1>6. \A k \in 1 .. d2 : t[k] = c[(a + k - 1) % n]
  BY DEF RingQueue
<1> HIDE DEF q, t, d, d2
<1>7. c[b] \in S
  OBVIOUS
<1>8. (a + d2 - 1) % n = b
  <2>1. d2 \in 1 .. d2
    BY <1>2, <1>3, <1>4
  <2>2. (a + d2 - 1) % n = (IF a + d2 - 1 < n THEN a + d2 - 1 ELSE a + d2 - 1 - n)
    BY <1>3, <2>1
  <2> DEFINE v == (a + d2 - 1) % n
  <2>3. v = (IF a + d2 - 1 < n THEN a + d2 - 1 ELSE a + d2 - 1 - n)
    BY <2>2
  <2> HIDE DEF v
  <2>4. v = b
    BY <1>4, <2>3
  <2> QED BY <2>4 DEF v
<1>9. /\ Append(q, c[b]) \in Seq(S) /\ Len(Append(q, c[b])) = d2
      /\ \A i \in 1 .. d : Append(q, c[b])[i] = q[i]
      /\ Append(q, c[b])[d2] = c[b]
  BY <1>2, <1>4, <1>7, AppendProperties
<1>10. ASSUME NEW i \in 1 .. d2 PROVE t[i] = Append(q, c[b])[i]
  <2>1. CASE i = d2
    BY <1>6, <1>8, <1>9, <2>1
  <2>2. CASE i # d2
    <3>1. i \in 1 .. d
      BY <1>2, <1>4, <2>2
    <3> QED BY <1>5, <1>6, <1>9, <3>1
  <2> QED BY <2>1, <2>2
<1>11. t = Append(q, c[b])
  BY <1>3, <1>9, <1>10, SeqEqual
<1>12. Len(q) < n - 1
  BY <1>2, <1>3, <1>4
<1> QED BY <1>11, <1>12 DEF q, t, b2

\* The slot behind the queue may be written to.
LEMMA QueueStays ==
  ASSUME NEW n \in Nat \ {0, 1}, NEW a \in 0 .. n - 1, NEW b \in 0 .. n - 1,
         NEW S, NEW c \in [0 .. n - 1 -> S], NEW e \in [0 .. n - 1 -> S],
         \A i \in 0 .. n - 1 : i # b => e[i] = c[i]
  PROVE  RingQueue(e, a, b, n) = RingQueue(c, a, b, n)
<1> DEFINE d == Distance(a, b, n)
           F == [k \in 1 .. d |-> e[(a + k - 1) % n]]
           G == [k \in 1 .. d |-> c[(a + k - 1) % n]]
<1>1. \A k \in 1 .. d : (a + k - 1) % n \in 0 .. n - 1 /\ (a + k - 1) % n # b
  <2>1. Slots(a, b, n)
    BY SlotsOfRing
  <2> QED BY <2>1 DEF Slots
<1>2. \A k \in 1 .. d : e[(a + k - 1) % n] = c[(a + k - 1) % n]
  BY <1>1
<1>3. F = G
  <2> HIDE DEF d
  <2> QED BY <1>2
<1> QED BY <1>3 DEF RingQueue
-----------------------------------------------------------------------------
(* The two rings as queues.                                                 *)

\* What the driver has put into the slots of the transmit ring, and the engine
\* into those of the receive ring.
TxContent == [i \in TxIdx |-> tx_ring0[i].SDP0]
RxContent == [i \in RxIdx |-> rx_ring[i].frame]
RxFrames  == Frame \cup {NoFrame}

\* The queues EthProperties maps the rings to are the parts of the rings between
\* the indices of driver and engine, in this state and in the next.
LEMMA QueuesAreRings ==
  TypeOK =>
    /\ TxContent \in [0 .. NumTxDesc - 1 -> TxPackets]
    /\ TX_DTX_IDX0 \in 0 .. NumTxDesc - 1 /\ TX_CTX_IDX0 \in 0 .. NumTxDesc - 1
    /\ TxQueue = RingQueue(TxContent, TX_DTX_IDX0, TX_CTX_IDX0, NumTxDesc)
    /\ RxContent \in [0 .. NumRxDesc - 1 -> RxFrames]
    /\ RxFirst \in 0 .. NumRxDesc - 1 /\ RX_DRX_IDX0 \in 0 .. NumRxDesc - 1
    /\ RxQueue = RingQueue(RxContent, RxFirst, RX_DRX_IDX0, NumRxDesc)
<1> SUFFICES ASSUME TypeOK
             PROVE  /\ TxContent \in [0 .. NumTxDesc - 1 -> TxPackets]
                    /\ TX_DTX_IDX0 \in 0 .. NumTxDesc - 1 /\ TX_CTX_IDX0 \in 0 .. NumTxDesc - 1
                    /\ TxQueue = RingQueue(TxContent, TX_DTX_IDX0, TX_CTX_IDX0, NumTxDesc)
                    /\ RxContent \in [0 .. NumRxDesc - 1 -> RxFrames]
                    /\ RxFirst \in 0 .. NumRxDesc - 1 /\ RX_DRX_IDX0 \in 0 .. NumRxDesc - 1
                    /\ RxQueue = RingQueue(RxContent, RxFirst, RX_DRX_IDX0, NumRxDesc)
  OBVIOUS
<1>1. NumTxDesc \in Nat \ {0, 1} /\ NumRxDesc \in Nat \ {0, 1}
  BY Rings
<1>2. /\ TxContent \in [0 .. NumTxDesc - 1 -> TxPackets]
      /\ TX_DTX_IDX0 \in 0 .. NumTxDesc - 1 /\ TX_CTX_IDX0 \in 0 .. NumTxDesc - 1
  BY DEF TypeOK, TxContent, TxIdx
<1>3. /\ RxContent \in [0 .. NumRxDesc - 1 -> RxFrames]
      /\ RX_DRX_IDX0 \in 0 .. NumRxDesc - 1
  BY DEF TypeOK, RxContent, RxIdx, RxFrames
<1>4. RxFirst \in 0 .. NumRxDesc - 1
  BY RxIndices DEF TypeOK, RxFirst, RxIdx
<1>5. TxQueue = RingQueue(TxContent, TX_DTX_IDX0, TX_CTX_IDX0, NumTxDesc)
  <2> DEFINE d == Distance(TX_DTX_IDX0, TX_CTX_IDX0, NumTxDesc)
  <2>1. Slots(TX_DTX_IDX0, TX_CTX_IDX0, NumTxDesc)
    BY <1>1, <1>2, SlotsOfRing
  <2>2. \A k \in 1 .. d : (TX_DTX_IDX0 + k - 1) % NumTxDesc \in TxIdx
    BY <2>1 DEF Slots, TxIdx
  <2> HIDE DEF d
  <2>3. \A k \in 1 .. d : tx_ring0[(TX_DTX_IDX0 + k - 1) % NumTxDesc].SDP0
                           = TxContent[(TX_DTX_IDX0 + k - 1) % NumTxDesc]
    BY <2>2 DEF TxContent
  <2>4. [k \in 1 .. d |-> tx_ring0[(TX_DTX_IDX0 + k - 1) % NumTxDesc].SDP0]
        = [k \in 1 .. d |-> TxContent[(TX_DTX_IDX0 + k - 1) % NumTxDesc]]
    BY <2>3
  <2> QED BY <2>4 DEF TxQueue, RingQueue, d
<1>6. RxQueue = RingQueue(RxContent, RxFirst, RX_DRX_IDX0, NumRxDesc)
  <2> DEFINE d == Distance(RxFirst, RX_DRX_IDX0, NumRxDesc)
  <2>1. Slots(RxFirst, RX_DRX_IDX0, NumRxDesc)
    BY <1>1, <1>3, <1>4, SlotsOfRing
  <2>2. \A k \in 1 .. d : (RxFirst + k - 1) % NumRxDesc \in RxIdx
    BY <2>1 DEF Slots, RxIdx
  <2> HIDE DEF d
  <2>3. \A k \in 1 .. d : rx_ring[(RxFirst + k - 1) % NumRxDesc].frame
                           = RxContent[(RxFirst + k - 1) % NumRxDesc]
    BY <2>2 DEF RxContent
  <2>4. [k \in 1 .. d |-> rx_ring[(RxFirst + k - 1) % NumRxDesc].frame]
        = [k \in 1 .. d |-> RxContent[(RxFirst + k - 1) % NumRxDesc]]
    BY <2>3
  <2> QED BY <2>4 DEF RxQueue, RingQueue, d
<1> QED BY <1>2, <1>3, <1>4, <1>5, <1>6

LEMMA QueuesAreRingsNext ==
  TypeOK' =>
    /\ TxContent' \in [0 .. NumTxDesc - 1 -> TxPackets]
    /\ TX_DTX_IDX0' \in 0 .. NumTxDesc - 1 /\ TX_CTX_IDX0' \in 0 .. NumTxDesc - 1
    /\ TxQueue' = RingQueue(TxContent', TX_DTX_IDX0', TX_CTX_IDX0', NumTxDesc)
    /\ RxContent' \in [0 .. NumRxDesc - 1 -> RxFrames]
    /\ RxFirst' \in 0 .. NumRxDesc - 1 /\ RX_DRX_IDX0' \in 0 .. NumRxDesc - 1
    /\ RxQueue' = RingQueue(RxContent', RxFirst', RX_DRX_IDX0', NumRxDesc)
<1>1. (TypeOK =>
        /\ TxContent \in [0 .. NumTxDesc - 1 -> TxPackets]
        /\ TX_DTX_IDX0 \in 0 .. NumTxDesc - 1 /\ TX_CTX_IDX0 \in 0 .. NumTxDesc - 1
        /\ TxQueue = RingQueue(TxContent, TX_DTX_IDX0, TX_CTX_IDX0, NumTxDesc)
        /\ RxContent \in [0 .. NumRxDesc - 1 -> RxFrames]
        /\ RxFirst \in 0 .. NumRxDesc - 1 /\ RX_DRX_IDX0 \in 0 .. NumRxDesc - 1
        /\ RxQueue = RingQueue(RxContent, RxFirst, RX_DRX_IDX0, NumRxDesc))'
  BY QueuesAreRings, PTL
<1> QED BY <1>1

\* A queue stays as it is with the slots and the indices it is read from.
LEMMA TxQueueStays ==
  ASSUME TypeOK, TypeOK', UNCHANGED <<TxContent, TX_DTX_IDX0, TX_CTX_IDX0>>
  PROVE  UNCHANGED TxQueue
BY QueuesAreRings, QueuesAreRingsNext

LEMMA RxQueueStays ==
  ASSUME TypeOK, TypeOK', UNCHANGED <<RxContent, RxFirst, RX_DRX_IDX0>>
  PROVE  UNCHANGED RxQueue
BY QueuesAreRings, QueuesAreRingsNext

\* Equal indices: nothing is queued.
LEMMA EmptyRing ==
  ASSUME NEW n \in Nat \ {0, 1}, NEW a \in 0 .. n - 1, NEW S, NEW c \in [0 .. n - 1 -> S]
  PROVE  RingQueue(c, a, a, n) = <<>>
<1>1. Slots(a, a, n)
  BY SlotsOfRing
<1>2. RingQueue(c, a, a, n) \in Seq(S) /\ Len(RingQueue(c, a, a, n)) = Distance(a, a, n)
  BY QueueOfRing
<1>3. Distance(a, a, n) = 0
  BY <1>1 DEF Slots
<1> QED BY <1>2, <1>3, EmptySeq
-----------------------------------------------------------------------------
(* Every step of the rings is one of the queues or leaves them alone.       *)

\* Before the set-up both rings are empty.
Unused == pc = "off" => RX_DRX_IDX0 = rx_dma_owner_idx0 /\ TX_CTX_IDX0 = TX_DTX_IDX0

\* What the refinement rests on.
QueueInv == RxInv /\ TxInv /\ Unused

\* No step happens between the start and the set-up.
LEMMA UnusedStep == QueueInv /\ [Next]_vars => Unused'
<1> SUFFICES ASSUME QueueInv, [Next]_vars, pc' = "off"
             PROVE  RX_DRX_IDX0' = rx_dma_owner_idx0' /\ TX_CTX_IDX0' = TX_DTX_IDX0'
  BY DEF Unused
<1>1. OffInv /\ Unused
  BY DEF QueueInv, RxInv
<1>2. pc = "off" => ~dma_en /\ written_back = {} /\ send_pc = "none"
  BY <1>1 DEF OffInv
<1>3. CASE pc = "off" /\ ~UNCHANGED vars
  <2>1. ~Sending /\ ~Recv /\ ~Receiving /\ ~Engine
    BY <1>2, <1>3 DEF Sending, Wait, Check, Fill, Kick, GiveUp, Recv, Receiving, Poll, NoReply,
       Clear, Give, Engine, Arrive, Transmit, WriteBack
  <2>2. ~Stack
    BY <1>3 DEF Stack, Setup, Halt, Restart, Send
  <2> QED BY <1>3, <2>1, <2>2 DEF Next
<1>4. CASE pc # "off" /\ ~UNCHANGED vars
  <2>1. ~Sending
    BY <1>4 DEF Sending, Wait, Check, Fill, Kick, GiveUp
  <2>2. ~Recv /\ ~Receiving
    BY <1>4 DEF Recv, Receiving, Poll, NoReply, Clear, Give
  <2>3. ~Engine
    BY <1>4 DEF Engine, Arrive, Transmit, WriteBack
  <2>4. ~Stack
    BY <1>4 DEF Stack, Setup, Halt, Restart, Send
  <2> QED BY <1>4, <2>1, <2>2, <2>3, <2>4 DEF Next
<1>5. CASE UNCHANGED vars
  BY <1>1, <1>5 DEF Unused, vars, rx, tx, engine
<1> QED BY <1>3, <1>4, <1>5

\* Types of two states and the agreement of the owners, for the steps below.
Known == TypeOK /\ TypeOK' /\ OffInv /\ RxOwnership /\ TxOwnership /\ Unused

\* Steps that change neither what is in the slots nor the indices.
LEMMA SameQueues ==
  ASSUME Known, UNCHANGED <<TxContent, TX_DTX_IDX0, TX_CTX_IDX0, RxContent, RxFirst, RX_DRX_IDX0>>,
         UNCHANGED <<on_wire, delivered>>
  PROVE  UNCHANGED Fifo!vars
<1>1. UNCHANGED TxQueue /\ UNCHANGED RxQueue
  BY TxQueueStays, RxQueueStays DEF Known
<1> QED BY <1>1 DEF Fifo!vars

\* The set-up makes two empty rings of two empty rings.
LEMMA SetupIsEmpty == Known /\ Setup => UNCHANGED Fifo!vars
<1> SUFFICES ASSUME Known, Setup PROVE UNCHANGED Fifo!vars
  OBVIOUS
<1> USE DEF Known
<1>1. pc = "off" /\ TX_CTX_IDX0 = TX_DTX_IDX0 /\ RX_DRX_IDX0 = RxFirst
  BY DEF Setup, Unused, RxFirst
<1>2. TX_CTX_IDX0' = TX_DTX_IDX0' /\ RX_DRX_IDX0' = RxFirst'
  BY DEF Setup, RxFirst
<1>3. NumTxDesc \in Nat \ {0, 1} /\ NumRxDesc \in Nat \ {0, 1}
  BY Rings
<1>4. TxQueue = <<>> /\ RxQueue = <<>>
  BY <1>1, <1>3, QueuesAreRings, EmptyRing
<1>5. TxQueue' = <<>> /\ RxQueue' = <<>>
  BY <1>2, <1>3, QueuesAreRingsNext, EmptyRing
<1> QED BY <1>4, <1>5 DEF Fifo!vars, Setup, seen

\* The new packet is in a slot nobody sees yet.
LEMMA FillIsHidden == Known /\ Fill => UNCHANGED Fifo!vars
<1> SUFFICES ASSUME Known, Fill PROVE UNCHANGED Fifo!vars
  OBVIOUS
<1> USE DEF Known
<1>1. send_pc = "fill" /\ pc # "off" /\ TX_CTX_IDX0 = tx_cpu_owner_idx0
  BY DEF Fill, OffInv, TxOwnership
<1>2. \A i \in TxIdx : i # TX_CTX_IDX0 => tx_ring0'[i] = tx_ring0[i]
  BY <1>1 DEF Fill, TypeOK
<1>3. \A i \in 0 .. NumTxDesc - 1 : i # TX_CTX_IDX0 => TxContent'[i] = TxContent[i]
  BY <1>2 DEF TxContent, TxIdx
<1>4. UNCHANGED <<TX_DTX_IDX0, TX_CTX_IDX0, on_wire, delivered>>
  BY DEF Fill, tx, engine, seen
<1>5. NumTxDesc \in Nat \ {0, 1}
  BY Rings
<1>6. RingQueue(TxContent', TX_DTX_IDX0, TX_CTX_IDX0, NumTxDesc)
      = RingQueue(TxContent, TX_DTX_IDX0, TX_CTX_IDX0, NumTxDesc)
  <2>1. TxContent \in [0 .. NumTxDesc - 1 -> TxPackets] /\ TxContent' \in [0 .. NumTxDesc - 1 -> TxPackets]
    BY QueuesAreRings, QueuesAreRingsNext
  <2>2. TX_DTX_IDX0 \in 0 .. NumTxDesc - 1 /\ TX_CTX_IDX0 \in 0 .. NumTxDesc - 1
    BY QueuesAreRings
  <2> QED BY <1>3, <1>5, <2>1, <2>2, QueueStays, ZenonT(40)
<1>7. UNCHANGED TxQueue
  BY <1>4, <1>6, QueuesAreRings, QueuesAreRingsNext
<1>8. UNCHANGED RxQueue
  <2>1. UNCHANGED <<RxContent, RxFirst, RX_DRX_IDX0>>
    BY DEF Fill, RxContent, RxFirst, rx, engine
  <2> QED BY <2>1, RxQueueStays
<1> QED BY <1>4, <1>7, <1>8 DEF Fifo!vars

\* The index register shows the packet to the engine: it is accepted.
LEMMA KickAccepts == Known /\ Kick => Fifo!Accept
<1> SUFFICES ASSUME Known, Kick PROVE Fifo!Accept
  OBVIOUS
<1> USE DEF Known
<1>1. /\ send_pc = "kick" /\ pc # "off" /\ TX_CTX_IDX0 = tx_cpu_owner_idx0
      /\ TX_DTX_IDX0 # TxNext(TX_CTX_IDX0)
  BY DEF Kick, OffInv, TxOwnership, Full
<1>2. /\ TX_CTX_IDX0' = (TX_CTX_IDX0 + 1) % NumTxDesc
      /\ UNCHANGED <<TX_DTX_IDX0, on_wire, delivered, TxContent, RxContent, RxFirst, RX_DRX_IDX0>>
  BY <1>1 DEF Kick, TxNext, TxContent, RxContent, RxFirst, rings, rx, engine, seen
<1>3. NumTxDesc \in Nat \ {0, 1}
  BY Rings
<1>4. /\ TxContent \in [0 .. NumTxDesc - 1 -> TxPackets]
      /\ TX_DTX_IDX0 \in 0 .. NumTxDesc - 1 /\ TX_CTX_IDX0 \in 0 .. NumTxDesc - 1
      /\ TxQueue = RingQueue(TxContent, TX_DTX_IDX0, TX_CTX_IDX0, NumTxDesc)
      /\ TxQueue' = RingQueue(TxContent', TX_DTX_IDX0', TX_CTX_IDX0', NumTxDesc)
  BY QueuesAreRings, QueuesAreRingsNext
<1>5. /\ RingQueue(TxContent, TX_DTX_IDX0, (TX_CTX_IDX0 + 1) % NumTxDesc, NumTxDesc)
         = Append(RingQueue(TxContent, TX_DTX_IDX0, TX_CTX_IDX0, NumTxDesc), TxContent[TX_CTX_IDX0])
      /\ Len(RingQueue(TxContent, TX_DTX_IDX0, TX_CTX_IDX0, NumTxDesc)) < NumTxDesc - 1
  BY <1>1, <1>3, <1>4, QueueGrows DEF TxNext
<1>6. /\ TxQueue' = Append(TxQueue, TxContent[TX_CTX_IDX0]) /\ Len(TxQueue) < NumTxDesc - 1
      /\ TxContent[TX_CTX_IDX0] \in TxPackets
  BY <1>2, <1>4, <1>5
<1>7. UNCHANGED RxQueue
  BY <1>2, RxQueueStays
<1> QED BY <1>2, <1>6, <1>7 DEF Fifo!Accept

\* The engine takes the head of the queue.
LEMMA TransmitIsTransmit == Known /\ Transmit => Fifo!Transmit
<1> SUFFICES ASSUME Known, Transmit PROVE Fifo!Transmit
  OBVIOUS
<1> USE DEF Known
<1>1. /\ TX_DTX_IDX0 # TX_CTX_IDX0 /\ on_wire' = tx_ring0[TX_DTX_IDX0].SDP0
      /\ TX_DTX_IDX0' = (TX_DTX_IDX0 + 1) % NumTxDesc
      /\ UNCHANGED <<TX_CTX_IDX0, delivered, TxContent, RxContent, RxFirst, RX_DRX_IDX0>>
  BY DEF Transmit, TxNext, TxContent, RxContent, RxFirst, rings, rx, tx
<1>2. NumTxDesc \in Nat \ {0, 1}
  BY Rings
<1>3. /\ TxContent \in [0 .. NumTxDesc - 1 -> TxPackets]
      /\ TX_DTX_IDX0 \in 0 .. NumTxDesc - 1 /\ TX_CTX_IDX0 \in 0 .. NumTxDesc - 1
      /\ TxQueue = RingQueue(TxContent, TX_DTX_IDX0, TX_CTX_IDX0, NumTxDesc)
      /\ TxQueue' = RingQueue(TxContent', TX_DTX_IDX0', TX_CTX_IDX0', NumTxDesc)
  BY QueuesAreRings, QueuesAreRingsNext
<1>4. /\ RingQueue(TxContent, TX_DTX_IDX0, TX_CTX_IDX0, NumTxDesc) # <<>>
      /\ Head(RingQueue(TxContent, TX_DTX_IDX0, TX_CTX_IDX0, NumTxDesc)) = TxContent[TX_DTX_IDX0]
      /\ RingQueue(TxContent, (TX_DTX_IDX0 + 1) % NumTxDesc, TX_CTX_IDX0, NumTxDesc)
         = Tail(RingQueue(TxContent, TX_DTX_IDX0, TX_CTX_IDX0, NumTxDesc))
  BY <1>1, <1>2, <1>3, QueueHead
<1>5. TxContent[TX_DTX_IDX0] = tx_ring0[TX_DTX_IDX0].SDP0
  BY <1>3 DEF TxContent, TxIdx
<1>6. TxQueue # <<>> /\ on_wire' = Head(TxQueue) /\ TxQueue' = Tail(TxQueue)
  BY <1>1, <1>3, <1>4, <1>5
<1>7. UNCHANGED RxQueue
  BY <1>1, RxQueueStays
<1> QED BY <1>1, <1>6, <1>7 DEF Fifo!Transmit

\* The engine has stopped before the slot NetReceive is looking at.
LEMMA ArriveIsArrive == ASSUME NEW f \in Frame, Known, Arrive(f) PROVE Fifo!Arrive
<1> USE DEF Known
<1>1. /\ pc # "off" /\ RX_DRX_IDX0 # RX_CALC_IDX0
      /\ RX_DRX_IDX0' = (RX_DRX_IDX0 + 1) % NumRxDesc
      /\ UNCHANGED <<TX_DTX_IDX0, TX_CTX_IDX0, on_wire, delivered, TxContent, RxFirst>>
  BY DEF Arrive, OffInv, RxNext, TxContent, RxFirst, rx, tx, seen
<1>2. RxNext(RX_DRX_IDX0) # RxFirst
  <2>1. RxNext(RX_CALC_IDX0) = rx_dma_owner_idx0
    BY <1>1 DEF RxOwnership
  <2>2. RxNext(RX_DRX_IDX0) # rx_dma_owner_idx0
    BY <1>1, <2>1, RxIndices DEF TypeOK
  <2>3. pc \in {"receive", "clear", "give"} => RxNext(RX_DRX_IDX0) # RxNext(rx_dma_owner_idx0)
    BY <1>1, RxIndices DEF TypeOK, RxOwnership
  <2> QED BY <2>2, <2>3 DEF RxFirst
<1>3. NumRxDesc \in Nat \ {0, 1}
  BY Rings
<1>4. /\ RxContent \in [0 .. NumRxDesc - 1 -> RxFrames] /\ RxContent' \in [0 .. NumRxDesc - 1 -> RxFrames]
      /\ RxFirst \in 0 .. NumRxDesc - 1 /\ RX_DRX_IDX0 \in 0 .. NumRxDesc - 1
      /\ RxQueue = RingQueue(RxContent, RxFirst, RX_DRX_IDX0, NumRxDesc)
      /\ RxQueue' = RingQueue(RxContent', RxFirst', RX_DRX_IDX0', NumRxDesc)
  BY QueuesAreRings, QueuesAreRingsNext
<1>5. /\ \A i \in 0 .. NumRxDesc - 1 : i # RX_DRX_IDX0 => RxContent'[i] = RxContent[i]
      /\ RxContent'[RX_DRX_IDX0] = f
  <2>1. rx_ring' = [rx_ring EXCEPT ![RX_DRX_IDX0] = [DDONE |-> TRUE, frame |-> f]]
    BY DEF Arrive
  <2>2. /\ \A i \in RxIdx : i # RX_DRX_IDX0 => rx_ring'[i] = rx_ring[i]
        /\ rx_ring'[RX_DRX_IDX0] = [DDONE |-> TRUE, frame |-> f]
    BY <2>1 DEF TypeOK
  <2>3. RX_DRX_IDX0 \in RxIdx
    BY DEF TypeOK
  <2> QED BY <2>2, <2>3 DEF RxContent, RxIdx
<1>6. RingQueue(RxContent', RxFirst, RX_DRX_IDX0, NumRxDesc)
      = RingQueue(RxContent, RxFirst, RX_DRX_IDX0, NumRxDesc)
  BY <1>3, <1>4, <1>5, QueueStays, ZenonT(40)
<1>7. /\ RingQueue(RxContent', RxFirst, (RX_DRX_IDX0 + 1) % NumRxDesc, NumRxDesc)
         = Append(RingQueue(RxContent', RxFirst, RX_DRX_IDX0, NumRxDesc), RxContent'[RX_DRX_IDX0])
      /\ Len(RingQueue(RxContent', RxFirst, RX_DRX_IDX0, NumRxDesc)) < NumRxDesc - 1
  BY <1>2, <1>3, <1>4, QueueGrows DEF RxNext
<1>8. RxQueue' = Append(RxQueue, f) /\ Len(RxQueue) < NumRxDesc - 1
  BY <1>1, <1>4, <1>5, <1>6, <1>7
<1>9. UNCHANGED TxQueue
  BY <1>1, TxQueueStays
<1> QED BY <1>1, <1>8, <1>9 DEF Fifo!Arrive

\* NetReceive gets the head of the queue; the switch's own frames are dropped.
LEMMA PollDelivers == Known /\ Poll => Fifo!Deliver \/ UNCHANGED Fifo!vars
<1> SUFFICES ASSUME Known, Poll PROVE Fifo!Deliver \/ UNCHANGED Fifo!vars
  OBVIOUS
<1> USE DEF Known
<1>1. /\ pc = "poll" /\ RxFirst = rx_dma_owner_idx0
      /\ UNCHANGED <<TX_DTX_IDX0, TX_CTX_IDX0, RX_DRX_IDX0, on_wire, TxContent, RxContent,
                     rx_dma_owner_idx0>>
  BY DEF Poll, TxContent, RxContent, RxFirst, rings, rx, tx, engine
<1>2. CASE ~rx_ring[rx_dma_owner_idx0].DDONE
  <2>1. UNCHANGED <<RxFirst, delivered>>
    BY <1>1, <1>2 DEF Poll, RxFirst
  <2> QED BY <1>1, <2>1, SameQueues
<1>3. CASE rx_ring[rx_dma_owner_idx0].DDONE
  <2>1. rx_dma_owner_idx0 # RX_DRX_IDX0
    BY <1>1, <1>3, FilledMoves DEF TypeOK, RxOwnership
  <2>2. pc' \in {"clear", "receive"} /\ RxFirst' = (rx_dma_owner_idx0 + 1) % NumRxDesc
    BY <1>1, <1>3 DEF Poll, RxFirst, RxNext
  <2>3. NumRxDesc \in Nat \ {0, 1}
    BY Rings
  <2>4. /\ RxContent \in [0 .. NumRxDesc - 1 -> RxFrames]
        /\ RxFirst \in 0 .. NumRxDesc - 1 /\ RX_DRX_IDX0 \in 0 .. NumRxDesc - 1
        /\ RxQueue = RingQueue(RxContent, RxFirst, RX_DRX_IDX0, NumRxDesc)
        /\ RxQueue' = RingQueue(RxContent', RxFirst', RX_DRX_IDX0', NumRxDesc)
    BY QueuesAreRings, QueuesAreRingsNext
  <2>5. /\ RingQueue(RxContent, RxFirst, RX_DRX_IDX0, NumRxDesc) # <<>>
        /\ Head(RingQueue(RxContent, RxFirst, RX_DRX_IDX0, NumRxDesc)) = RxContent[RxFirst]
        /\ RingQueue(RxContent, (RxFirst + 1) % NumRxDesc, RX_DRX_IDX0, NumRxDesc)
           = Tail(RingQueue(RxContent, RxFirst, RX_DRX_IDX0, NumRxDesc))
    <3>1. RxFirst # RX_DRX_IDX0
      BY <1>1, <2>1
    <3> QED BY <2>3, <2>4, <3>1, QueueHead
  <2>6. RxContent[RxFirst] = rx_ring[rx_dma_owner_idx0].frame
    BY <1>1, <2>4 DEF RxContent, RxIdx
  <2>7. /\ RxQueue # <<>> /\ Head(RxQueue) = rx_ring[rx_dma_owner_idx0].frame
        /\ RxQueue' = Tail(RxQueue)
    BY <1>1, <2>2, <2>4, <2>5, <2>6
  <2>8. UNCHANGED TxQueue
    BY <1>1, TxQueueStays
  <2>9. IF rx_ring[rx_dma_owner_idx0].frame.cpu_port THEN UNCHANGED delivered
        ELSE delivered' = rx_ring[rx_dma_owner_idx0].frame
    BY <1>3 DEF Poll
  <2> QED BY <1>1, <2>7, <2>8, <2>9 DEF Fifo!Deliver
<1> QED BY <1>2, <1>3

\* What changes a DDONE_bit only.
LEMMA BitsAreNoContent ==
  ASSUME Known, Clear \/ \E i \in TxIdx : WriteBack(i)
  PROVE  UNCHANGED <<TxContent, RxContent>>
<1> USE DEF Known
<1>1. CASE Clear
  <2>1. \A i \in RxIdx : rx_ring'[i].frame = rx_ring[i].frame
    BY <1>1 DEF Clear, TypeOK
  <2>2. [i \in RxIdx |-> rx_ring'[i].frame] = [i \in RxIdx |-> rx_ring[i].frame]
    BY <2>1
  <2> QED BY <1>1, <2>2 DEF Clear, TxContent, RxContent
<1>2. ASSUME NEW i \in TxIdx, WriteBack(i) PROVE UNCHANGED <<TxContent, RxContent>>
  <2>1. \A j \in TxIdx : tx_ring0'[j].SDP0 = tx_ring0[j].SDP0
    BY <1>2 DEF WriteBack, TypeOK
  <2>2. [j \in TxIdx |-> tx_ring0'[j].SDP0] = [j \in TxIdx |-> tx_ring0[j].SDP0]
    BY <2>1
  <2> QED BY <1>2, <2>2 DEF WriteBack, TxContent, RxContent
<1> QED BY <1>1, <1>2

\* All steps together.
LEMMA StepIsFifos == Known /\ [Next]_vars => [Fifo!Next]_(Fifo!vars)
<1> SUFFICES ASSUME Known, [Next]_vars PROVE Fifo!Next \/ UNCHANGED Fifo!vars
  OBVIOUS
<1>1. CASE Setup
  BY <1>1, SetupIsEmpty
<1>2. CASE Halt \/ Restart
  <2>1. UNCHANGED <<TxContent, TX_DTX_IDX0, TX_CTX_IDX0, RxContent, RxFirst, RX_DRX_IDX0,
                    on_wire, delivered>>
    BY <1>2 DEF Halt, Restart, TxContent, RxContent, RxFirst, rings, rx, tx, engine, seen
  <2> QED BY <2>1, SameQueues
<1>3. ASSUME NEW b \in TxPackets, Send(b) PROVE UNCHANGED Fifo!vars
  <2>1. UNCHANGED <<TxContent, TX_DTX_IDX0, TX_CTX_IDX0, RxContent, RxFirst, RX_DRX_IDX0,
                    on_wire, delivered>>
    BY <1>3 DEF Send, TxContent, RxContent, RxFirst, rings, rx, tx, engine, seen
  <2> QED BY <2>1, SameQueues
<1>4. CASE Wait \/ Check \/ GiveUp
  <2>1. UNCHANGED <<TxContent, TX_DTX_IDX0, TX_CTX_IDX0, RxContent, RxFirst, RX_DRX_IDX0,
                    on_wire, delivered>>
    BY <1>4 DEF Wait, Check, GiveUp, TxContent, RxContent, RxFirst, rings, rx, tx, engine, seen
  <2> QED BY <2>1, SameQueues
<1>5. CASE Fill
  BY <1>5, FillIsHidden
<1>6. CASE Kick
  BY <1>6, KickAccepts DEF Fifo!Next
<1>7. CASE Recv \/ NoReply
  <2>1. UNCHANGED <<TxContent, TX_DTX_IDX0, TX_CTX_IDX0, RxContent, RxFirst, RX_DRX_IDX0,
                    on_wire, delivered>>
    BY <1>7 DEF Recv, NoReply, TxContent, RxContent, RxFirst, rings, rx, tx, engine, seen
  <2> QED BY <2>1, SameQueues
<1>8. CASE Poll
  BY <1>8, PollDelivers DEF Fifo!Next
<1>9. CASE Clear
  <2>1. UNCHANGED <<TX_DTX_IDX0, TX_CTX_IDX0, RxFirst, RX_DRX_IDX0, on_wire, delivered>>
    BY <1>9 DEF Clear, RxFirst, rx, tx, engine, seen
  <2>2. UNCHANGED <<TxContent, RxContent>>
    BY <1>9, BitsAreNoContent
  <2> QED BY <2>1, <2>2, SameQueues
<1>10. CASE Give
  <2>1. UNCHANGED <<TxContent, TX_DTX_IDX0, TX_CTX_IDX0, RxContent, RxFirst, RX_DRX_IDX0,
                    on_wire, delivered>>
    BY <1>10 DEF Give, TxContent, RxContent, RxFirst, rings, tx, engine, seen
  <2> QED BY <2>1, SameQueues
<1>11. ASSUME NEW f \in Frame, Arrive(f) PROVE Fifo!Next
  BY <1>11, ArriveIsArrive DEF Fifo!Next
<1>12. CASE Transmit
  BY <1>12, TransmitIsTransmit DEF Fifo!Next
<1>13. ASSUME NEW i \in TxIdx, WriteBack(i) PROVE UNCHANGED Fifo!vars
  <2>1. UNCHANGED <<TX_DTX_IDX0, TX_CTX_IDX0, RxFirst, RX_DRX_IDX0, on_wire, delivered>>
    BY <1>13 DEF WriteBack, RxFirst, rx, tx, seen
  <2>2. UNCHANGED <<TxContent, RxContent>>
    BY <1>13, BitsAreNoContent
  <2> QED BY <2>1, <2>2, SameQueues
<1>14. CASE UNCHANGED vars
  <2>1. UNCHANGED <<TxContent, TX_DTX_IDX0, TX_CTX_IDX0, RxContent, RxFirst, RX_DRX_IDX0,
                    on_wire, delivered>>
    BY <1>14 DEF vars, TxContent, RxContent, RxFirst, rings, rx, tx, engine, seen
  <2> QED BY <2>1, SameQueues
<1> QED
  BY <1>1, <1>2, <1>3, <1>4, <1>5, <1>6, <1>7, <1>8, <1>9, <1>10, <1>11, <1>12, <1>13, <1>14
  DEF Next, Sending, Receiving, Stack, Engine

\* The rings start as two empty queues.
LEMMA QueuesStartEmpty == Init => QueueInv /\ Fifo!Init
<1> SUFFICES ASSUME Init PROVE QueueInv /\ Fifo!Init
  OBVIOUS
<1>1. TypeInv
  BY InitTypeInv
<1>2. QueueInv
  BY <1>1 DEF Init, QueueInv, RxInv, TxInv, OffInv, RxOwnership, TxOwnership, Unused
<1>3. TX_CTX_IDX0 = TX_DTX_IDX0 /\ RX_DRX_IDX0 = RxFirst
  BY DEF Init, RxFirst
<1>4. NumTxDesc \in Nat \ {0, 1} /\ NumRxDesc \in Nat \ {0, 1}
  BY Rings
<1>5. TxQueue = <<>> /\ RxQueue = <<>>
  BY <1>1, <1>3, <1>4, QueuesAreRings, EmptyRing DEF TypeInv
<1> QED BY <1>2, <1>5 DEF Fifo!Init

\* The driver and its rings are a pair of bounded queues, for rings of any size:
\* what is accepted goes out once and in order, what arrives is delivered once
\* and in order (rt2880_eth_send, rt2880_eth_recv and the engine beside them).
THEOREM RingsAreQueues == Spec => FifoSpec
<1>1. Init => QueueInv /\ Fifo!Init
  BY QueuesStartEmpty
<1>2. QueueInv /\ [Next]_vars => QueueInv'
  BY RxStep, TxStep, UnusedStep DEF QueueInv
<1>3. QueueInv /\ QueueInv' /\ [Next]_vars => [Fifo!Next]_(Fifo!vars)
  <2>1. QueueInv /\ QueueInv' => Known
    BY DEF QueueInv, RxInv, TxInv, TypeInv, Known
  <2> QED BY <2>1, StepIsFifos
<1> QED BY <1>1, <1>2, <1>3, PTL DEF Spec, FifoSpec, Fifo!Spec
=============================================================================
