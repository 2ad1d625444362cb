------------------------------- MODULE MCTrap -------------------------------
(* Two guests on one processor.  Word 0: an SGI of guest 0 (irq 0), one of  *)
(* its PPIs (1), the hypervisor's timer (2).  Word 1: a swapped pair of     *)
(* guest 0 (pirqs 4 and 5, as 37 and 38 of the RTSM board), and pirq 6,     *)
(* which guest 1 sees as virq 4 (as 39 and 37).                             *)
EXTENDS Trap

MCPirqmap == <<
  [v \in Irqs |-> CASE v = 0 -> 0 [] v = 1 -> 1 [] v = 4 -> 5 [] v = 5 -> 4
                    [] OTHER -> PIRQ_INVALID],
  [v \in Irqs |-> IF v = 4 THEN 6 ELSE PIRQ_INVALID]>>
MCPirqmapOf == [g \in Guests |-> MCPirqmap[g + 1]]

MCInitcalls == <<<<"HIGH", "cp">>, <<"MIDDLE", "ping">>, <<"MIDDLE", "stay">>,
                 <<"MIDDLE", "yield">>, <<"MIDDLE", "hvc_monitor">>, <<"LOW", "gicd">>,
                 <<"LOW", "sample">>, <<"LOW", "vtimer">>, <<"LOW", "monitor">>>>

MCHostIrqs  == {2}
MCHwSgis    == {0}
MCCpuOf     == [g \in Guests |-> 0]
MCCpuOfSmp  == [g \in Guests |-> g]
MCValues    == {{}, {0, 3}, {1, 2}}
Narrow      == {"BYTE", "HWORD"}
MCWork(guests, regs_, idxs, sizes, lanes, states) ==
  [guests |-> guests, regs |-> regs_, idxs |-> idxs, sizes |-> sizes, lanes |-> lanes,
   states |-> states]
ByWord(guests, regs_, idxs) == MCWork(guests, regs_, idxs, {"WORD"}, {0}, {FALSE})

\* Index 23 of IPRIORITYR and 21 of ITARGETSR are the word of ISENABLER[1] of
\* the guest behind, as 164 and 124 are in the code.
MCWorkloads == {
  MCWork({0}, {"ISENABLER", "ICENABLER"}, {0, 1, 2}, Narrow, {0, 3}, {FALSE}),
  ByWord({0, 1}, {"ISENABLER", "ICENABLER"}, {0, 1}),
  ByWord({0, 1}, {"ISENABLER", "ICENABLER", "IPRIORITYR"}, {1, 23}),
  MCWork({0, 1}, {"ISENABLER", "ITARGETSR"}, {1, 21}, {"BYTE"}, {0, 3}, {FALSE}),
  MCWork({0, 1}, {"ISPENDR", "ICPENDR"}, {0, 3}, {"BYTE", "WORD"}, {0}, {FALSE}),
  ByWord({0}, {"IPRIORITYR", "ICFGR"}, {0, 1, 5}),
  ByWord({1}, {"CTLR", "TYPER", "IIDR", "NONE", "IGROUPR"}, {0, 1, 2}),
  MCWork({1}, {"ITARGETSR"}, {0, 1, 14}, Narrow \union {"WORD"}, {0, 3}, {FALSE}),
  ByWord({0, 1}, {"CPENDSGIR", "SPENDSGIR", "SGIR"}, {0, 1}),
  ByWord({0, 1}, {"ISACTIVER", "ICACTIVER", "PPISR", "NSACR", "ICPIDR2"}, {0}),
  MCWork({0, 1}, {"IIDR", "traps", "sample", "vtimer"}, {0}, {"WORD"}, {0}, BOOLEAN)}
=============================================================================
