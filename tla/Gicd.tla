-------------------------------- MODULE Gicd --------------------------------
(***************************************************************************)
(* The distributor a guest sees (vdev/vdev_gicd.c): a copy of the GICD     *)
(* registers per guest, whose enable bits the hypervisor passes on to the  *)
(* physical distributor (interrupt.c, interrupt_hw.c, libhw/gic.c).        *)
(*                                                                         *)
(* The copies lie word by word behind each other, _regs[0], _regs[1] and   *)
(* so on, and two handlers index them without looking where a register     *)
(* ends.  So the words of a guest are numbered from the start of its       *)
(* struct gicd_regs, and a number past the end is a word of the guest      *)
(* behind it.                                                              *)
(*                                                                         *)
(* A word has Lanes, one for each of its four bytes, and one bit of each   *)
(* byte is modelled: a word is the set of lanes whose bit is set.  An      *)
(* enable word stands for four interrupts, and the interrupt number is     *)
(* 4 * word + lane.                                                        *)
(***************************************************************************)
EXTENDS Integers, FiniteSets

CONSTANTS
  NumGuests,    \* NUM_GUESTS_STATIC
  NumWords,     \* TILinesNumber + 1, the words of an enable register (5)
  HalfPage,     \* words from ISPENDR to ICPENDR (32)
  PrioWords,    \* words of IPRIORITYR and of ITARGETSR (40)
  PrioBanked,   \* how many of them are banked (8)
  PrioPage,     \* words of their addresses that reach the handlers (256)
  Pirqmap,      \* Pirqmap[g][v] is map[v].pirq of guest g
  PIRQ_INVALID,
  HostIrqs,     \* the pirqs the hypervisor has enabled for itself
  HwSgis,       \* the SGIs enabled by gic_init_dist
  CpuOf,        \* the processor each guest runs on
  Values        \* the values guests write: sets of lanes

Guests == 0 .. NumGuests - 1
Words  == 0 .. NumWords - 1
Lanes  == 0 .. 3
Irqs   == 0 .. 4 * NumWords - 1
Sgis   == Lanes   \* the modelled SGIs: the interrupts of word 0

(***************************************************************************)
(* What setup_interrupt keeps: a pirq belongs to one guest and one virq,   *)
(* the interrupts the hypervisor uses itself belong to none, and no virq   *)
(* has the number of one of them.                                          *)
(***************************************************************************)
ASSUME MapAssumption ==
  /\ \A g \in Guests, v \in Irqs : Pirqmap[g][v] \in Irqs \union {PIRQ_INVALID}
  /\ \A g, h \in Guests, v, w \in Irqs :
       Pirqmap[g][v] = Pirqmap[h][w] /\ Pirqmap[g][v] # PIRQ_INVALID => g = h /\ v = w
  /\ \A g \in Guests, v \in Irqs :
       /\ Pirqmap[g][v] \notin HostIrqs
       /\ Pirqmap[g][v] \notin HwSgis \union {PIRQ_INVALID} => v \notin HostIrqs \union HwSgis

\* struct gicd_regs: where each register begins, and the words of all.
Start ==
  [CTLR |-> 0, TYPER |-> 1, IIDR |-> 2, IGROUPR |-> 3,
   ISCENABLER |-> 3 + NumWords, ISCPENDR |-> 3 + 2 * NumWords,
   ISCACTIVER |-> 3 + 3 * NumWords, IPRIORITYR |-> 3 + 4 * NumWords,
   ITARGETSR |-> 3 + 4 * NumWords + PrioWords,
   ICFGR |-> 3 + 4 * NumWords + 2 * PrioWords,
   NSACR |-> 3 + 6 * NumWords + 2 * PrioWords,
   SGIR |-> 3 + 6 * NumWords + 2 * PrioWords + 2 * HalfPage]
Size      == Start.SGIR + 1
Positions == 0 .. Size - 1

\* struct gicd_regs_banked, of whose words of one register one is modelled.
BankedRegs == {"IGROUPR", "ISCENABLER", "ISCPENDR", "ISCACTIVER", "IPRIORITYR",
               "ITARGETSR", "ICFGR", "CPENDSGIR"}

\* The last index of ITARGETSR ends in the struct behind: 63 + 256 <= 2 * 178.
ASSUME LayoutAssumption ==
  /\ NumWords \in Nat \ {0} /\ HalfPage \in Nat /\ PrioPage \in Nat
  /\ PrioBanked \in Nat /\ PrioWords \in Nat /\ PrioBanked <= PrioWords
  /\ NumWords <= HalfPage
  /\ Start.ITARGETSR + PrioPage <= 2 * Size
ASSUME ValueAssumption == NumGuests \in Nat /\ Values \subseteq SUBSET Lanes

VARIABLES
  regs,         \* _regs: [Guests -> [Positions -> SUBSET Lanes]]
  banked,       \* _regs_banked: [Guests -> [BankedRegs -> SUBSET Lanes]]
  old,          \* old_vgicd_status
  forwarded,    \* the pirqs enabled in the physical distributor
  target,       \* the processor each pirq goes to (GICD_ITARGETSR)
  genabled,     \* the pirqs with map[p].enabled set, per guest
  overrun       \* history: the guests whose _regs another guest has written

gicdVars == <<regs, banked, old, forwarded, target, genabled, overrun>>

IrqsOf(w, bits) == {4 * w + l : l \in bits}

(***************************************************************************)
(* gic_init_dist and gic_init_cpui: the distributor is enabled, level      *)
(* triggered, default priority, everything to CPU 0, SPIs off, SGIs on.    *)
(***************************************************************************)
GicInit ==
  /\ regs = [g \in Guests |-> [n \in Positions |-> {}]]
  /\ banked = [g \in Guests |-> [r \in BankedRegs |-> {}]]
  /\ old = [g \in Guests |-> [w \in Words |-> {}]]
  /\ forwarded = HostIrqs \union HwSgis
  /\ target = [p \in Irqs |-> 0]
  /\ genabled = [g \in Guests |-> {}]
  /\ overrun = {}

(***************************************************************************)
(* vdev_gicd_reset_values on processor cpu, the turn of its loop for guest *)
(* i: copies the physical registers.  The words that are banked go to the  *)
(* guest whose number is the processor's; old_vgicd_status of word 0 is    *)
(* taken from the unused word of _regs; and IGROUPR is read from the start *)
(* of the distributor, where CTLR, TYPER and IIDR are (lanes 0, 1, 2).     *)
(***************************************************************************)
EnabledLanes(w) == {l \in Lanes : 4 * w + l \in forwarded}

Skipped(n) ==
  \/ n \in {Start.IGROUPR, Start.ISCENABLER, Start.ISCPENDR, Start.ISCACTIVER,
            Start.ICFGR + 1}
  \/ n \in Start.IPRIORITYR .. Start.IPRIORITYR + PrioBanked - 1
  \/ n \in Start.ITARGETSR .. Start.ITARGETSR + PrioBanked - 1
  \/ n \in Start.NSACR .. Start.SGIR - 1

ResetWord(n) ==
  {l \in Lanes :
     \/ n < Start.IGROUPR /\ l = n
     \/ n \in Start.IGROUPR + 1 .. Start.ISCENABLER - 1 /\ l = n - Start.IGROUPR /\ l <= 2
     \/ n \in Start.ISCENABLER .. Start.ISCPENDR - 1 /\ l \in EnabledLanes(n - Start.ISCENABLER)
     \/ n \in Start.IPRIORITYR .. Start.ICFGR - 1}

ResetBanked(r) ==
  CASE r = "IGROUPR" -> {0}
    [] r = "ISCENABLER" -> EnabledLanes(0)
    [] r \in {"IPRIORITYR", "ITARGETSR"} -> Lanes
    [] OTHER -> {}

GicdReset(cpu, i) ==
  /\ regs' = [regs EXCEPT ![i] = [n \in Positions |-> IF Skipped(n) THEN regs[i][n]
                                                      ELSE ResetWord(n)]]
  /\ banked' = [banked EXCEPT ![cpu] = [r \in BankedRegs |-> ResetBanked(r)]]
  /\ old' = [old EXCEPT ![i] = [w \in Words |-> regs'[i][Start.ISCENABLER + w]]]
  /\ UNCHANGED <<forwarded, target, genabled, overrun>>

-----------------------------------------------------------------------------
(* Accesses: a = [reg, idx, size, lane, write, value] by guest g *)

\* The lanes an access of this size at this lane covers, and where it begins.
Base(a) == CASE a.size = "BYTE" -> a.lane
             [] a.size = "HWORD" -> 2 * (a.lane \div 2)
             [] a.size = "WORD" -> 0
Span(a) == CASE a.size = "BYTE" -> {Base(a)}
             [] a.size = "HWORD" -> {Base(a), Base(a) + 1}
             [] a.size = "WORD" -> Lanes
\* *pvalue & 0xFF or & 0xFFFF, at its place in the word.
Placed(a) == {l \in Span(a) : l - Base(a) \in a.value}

Untouched == UNCHANGED gicdVars
OnlyWords == UNCHANGED <<old, forwarded, target, genabled>>

\* Word n from the start of guest g's struct, and the guest it belongs to.
Owner(g, n)    == IF n < Size THEN g ELSE g + 1
Position(n)    == IF n < Size THEN n ELSE n - Size
WordAt(g, n)   == regs[Owner(g, n)][Position(n)]
Store(g, n, v) ==
  /\ regs' = [regs EXCEPT ![Owner(g, n)][Position(n)] = v]
  /\ overrun' = overrun \union ({Owner(g, n)} \ {g})
  /\ UNCHANGED banked
StoreBanked(g, r, v) ==
  banked' = [banked EXCEPT ![g][r] = v] /\ UNCHANGED <<regs, overrun>>

\* gic_configure_irq and interrupt_guest_enable, or gic_disable_irq.
Configure(g, on, off) ==
  /\ forwarded' = (forwarded \ off) \union on
  /\ target' = [p \in Irqs |-> IF p \in on THEN CpuOf[g] ELSE target[p]]
  /\ genabled' = [genabled EXCEPT ![g] = @ \union on]

\* Fault: the guest's number of the interrupt is taken for the physical one.
PirqsUntranslated(g, virqs) == virqs

\* vgicd_changed_istatus: passes on the bits that differ from the last time.
PirqsOf(g, virqs) == {Pirqmap[g][v] : v \in virqs} \ {PIRQ_INVALID}

\* Fault: the old status is not brought up to date.
ChangedForgetful(g, w, istatus) ==
  LET changed == (old[g][w] \ istatus) \union (istatus \ old[g][w])
  IN  /\ Configure(g, PirqsOf(g, IrqsOf(w, changed \intersect istatus)),
                      PirqsOf(g, IrqsOf(w, changed \ istatus)))
      /\ UNCHANGED old

ChangedIstatus(g, w, istatus) ==
  LET changed == (old[g][w] \ istatus) \union (istatus \ old[g][w])
  IN  /\ Configure(g, PirqsOf(g, IrqsOf(w, changed \intersect istatus)),
                      PirqsOf(g, IrqsOf(w, changed \ istatus)))
      /\ old' = [old EXCEPT ![g][w] = istatus]

\* The enable bits as a guest reads them: word 0 is banked.
EnableWord(g, w) ==
  IF w = 0 THEN banked[g].ISCENABLER ELSE regs[g][Start.ISCENABLER + w]
SetEnable(g, w, new) ==
  IF w = 0 THEN StoreBanked(g, "ISCENABLER", new) ELSE Store(g, Start.ISCENABLER + w, new)

\* handler_ISCENABLER: writing 0 has no effect, a read changes nothing.
HandlerISCENABLER(g, a) ==
  LET was == EnableWord(g, a.idx)
      new == IF a.reg = "ISENABLER" THEN was \union Placed(a) ELSE was \ Placed(a)
  IN  IF a.write /\ a.value # {}
      THEN SetEnable(g, a.idx, new) /\ ChangedIstatus(g, a.idx, new)
      ELSE Untouched

(***************************************************************************)
(* handler_ISCPENDR shifts the offset twice, so every access is taken for  *)
(* one of ISPENDR: a word of ICPENDR beyond the first is HalfPage words    *)
(* further on, in other registers of the guest, and is set, not cleared.   *)
(***************************************************************************)
HandlerISCPENDR(g, a) ==
  LET n == Start.ISCPENDR + a.idx + IF a.reg = "ICPENDR" THEN HalfPage ELSE 0
  IN  CASE ~ a.write -> Untouched
        [] a.write /\ a.idx = 0 ->
             StoreBanked(g, "ISCPENDR", banked[g].ISCPENDR \union a.value) /\ OnlyWords
        [] a.write /\ a.idx # 0 -> Store(g, n, WordAt(g, n) \union a.value) /\ OnlyWords

(***************************************************************************)
(* handler_000, handler_IPRIORITYR and handler_ICFGR take every access for *)
(* a word.  The banked words of IPRIORITYR are those of ICFGR; an index of *)
(* IPRIORITYR or ICFGR beyond the register is used as it is.               *)
(***************************************************************************)
BankOf(a) ==
  CASE a.reg = "IGROUPR" /\ a.idx = 0 -> "IGROUPR"
    [] a.reg = "IPRIORITYR" /\ a.idx < PrioBanked -> "ICFGR"
    [] a.reg = "ICFGR" /\ a.idx = 1 -> "ICFGR"
    [] OTHER -> "none"

HandlerWord(g, a) ==
  CASE ~ a.write -> Untouched
    [] a.write /\ BankOf(a) # "none" -> StoreBanked(g, BankOf(a), a.value) /\ OnlyWords
    [] a.write /\ BankOf(a) = "none" -> Store(g, Start[a.reg] + a.idx, a.value) /\ OnlyWords

\* handler_ITARGETSR: any size and any index; the banked words ignore writes.
HandlerITARGETSR(g, a) ==
  LET n == Start.ITARGETSR + a.idx
  IN  IF a.write /\ a.idx >= PrioBanked
      THEN Store(g, n, (WordAt(g, n) \ Span(a)) \union Placed(a)) /\ OnlyWords
      ELSE Untouched

\* A write behind _regs of the last guest: what it hits, the linker decides.
Beyond(g, a) ==
  /\ a.write /\ a.reg \in {"IPRIORITYR", "ITARGETSR"}
  /\ Start[a.reg] + a.idx >= Size /\ g + 1 \notin Guests

\* handler_F00: CPENDSGIR and SPENDSGIR, of which only the first word exists.
HandlerPENDSGIR(g, a) ==
  IF a.write /\ a.value # {}
  THEN /\ StoreBanked(g, "CPENDSGIR",
            banked[g].CPENDSGIR \union (IF a.reg = "CPENDSGIR" THEN Lanes \ a.value
                                        ELSE a.value))
       /\ OnlyWords
  ELSE Untouched

(***************************************************************************)
(* handler_F00 on SGIR, a read as well as a write: marks the SGI pending   *)
(* and injects it into every target.  The mark goes to guest 1 whatever    *)
(* the target is, because the loop indexes with the tested bit.            *)
(***************************************************************************)
HandlerSGIR(sgi, targets) ==
  IF targets # {} THEN StoreBanked(1, "CPENDSGIR", {sgi}) /\ OnlyWords ELSE Untouched

\* The targets of the filters of SGIR; the reserved one is refused.
Filters == {"LIST", "OTHER", "SELF", "RESERVED"}
SgiTargets(g, filter, list) ==
  CASE filter = "LIST" -> list
    [] filter = "OTHER" -> Guests \ {g}
    [] filter = "SELF" -> {g}
    [] filter = "RESERVED" -> {}

=============================================================================
