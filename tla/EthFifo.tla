------------------------------- MODULE EthFifo -------------------------------
(***************************************************************************)
(* What the Ethernet driver promises: two bounded queues.  What has been   *)
(* accepted for sending goes out once and in order; what arrives while     *)
(* there is room is handed to NetReceive once and in order.                *)
(***************************************************************************)
EXTENDS Naturals, Sequences

CONSTANTS Packets, Frames, TxCapacity, RxCapacity

VARIABLES txq, rxq,            \* accepted and not sent; arrived and not delivered
          on_wire, delivered   \* the last of each

vars == <<txq, rxq, on_wire, delivered>>

Init == txq = <<>> /\ rxq = <<>>

Accept == /\ Len(txq) < TxCapacity
          /\ \E p \in Packets : txq' = Append(txq, p)
          /\ UNCHANGED <<rxq, on_wire, delivered>>

Transmit == /\ txq # <<>>
            /\ on_wire' = Head(txq)
            /\ txq' = Tail(txq)
            /\ UNCHANGED <<rxq, delivered>>

Arrive == /\ Len(rxq) < RxCapacity
          /\ \E f \in Frames : rxq' = Append(rxq, f)
          /\ UNCHANGED <<txq, on_wire, delivered>>

\* A frame from the switch's CPU port is dropped without being delivered.
Deliver == /\ rxq # <<>>
           /\ rxq' = Tail(rxq)
           /\ IF Head(rxq).cpu_port THEN UNCHANGED delivered
                                    ELSE delivered' = Head(rxq)
           /\ UNCHANGED <<txq, on_wire>>

Next == Accept \/ Transmit \/ Arrive \/ Deliver

Spec == Init /\ [][Next]_vars
==============================================================================
