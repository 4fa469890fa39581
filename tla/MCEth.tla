-------------------------------- MODULE MCEth --------------------------------
(* Instances of EthRings for TLC.                                          *)
EXTENDS EthProperties
==============================================================================
