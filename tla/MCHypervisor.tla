---------------------------- MODULE MCHypervisor ----------------------------
(***************************************************************************)
(* An instance of Hypervisor for TLC: two guests, one device interrupt of  *)
(* guest 0 (the UART of cortex_a15x2_rtsm: pirq 38, virq 37).              *)
(***************************************************************************)
EXTENDS Hypervisor

MCPirqs   == {38}
MCVirqmap == [g \in Guests |-> [p \in MCPirqs |-> IF g = 0 THEN 37 ELSE NoIrq]]
=============================================================================
