------------------------------- MODULE MCVgic -------------------------------
(***************************************************************************)
(* Instances of Vgic for TLC.  Interrupts belong to the guests the way the *)
(* map of cortex_a15x2_rtsm/main.c says: two guests see different pirqs as *)
(* the same virq 37.                                                       *)
(***************************************************************************)
EXTENDS Vgic

MCGuests == {0, 1}
MCPirqs  == {38, 39}
MCVirqmap ==
  [g \in MCGuests |-> [p \in MCPirqs |-> IF p = 38 + g THEN 37 ELSE NoIrq]]

\* One pirq, of guest 0.
MCPirqs1 == {38}
MCVirqmap1 ==
  [g \in MCGuests |-> [p \in MCPirqs1 |-> IF g = 0 THEN 37 ELSE NoIrq]]

\* Two pirqs, both of guest 0.
MCPirqs0 == {36, 38}
MCVirqmap0 ==
  [g \in MCGuests |-> [p \in MCPirqs0 |->
     IF g = 1 THEN NoIrq ELSE IF p = 36 THEN 36 ELSE 37]]
=============================================================================
