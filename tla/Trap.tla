-------------------------------- MODULE Trap --------------------------------
(***************************************************************************)
(* Trapped instructions and the virtual devices that emulate them: the     *)
(* registry (hypervisor/vdev.c), the trap handler (libhw/trap.c) and the   *)
(* devices under vdev/: coprocessor accesses, hypercalls, the distributor  *)
(* (module Gicd), the sample device, the virtual timer's mask and the      *)
(* monitor's command page.                                                 *)
(*                                                                         *)
(* A handler runs to its end before the next trap.  What yield and the     *)
(* monitor's commands do is in Vcpu and Monitor; here they are claimed,    *)
(* answered and returned from.  A read changes nothing but the register    *)
(* of the guest that it fills, which is not modelled.                      *)
(***************************************************************************)
EXTENDS Gicd, Sequences

CONSTANTS
  Initcalls,    \* the initcalls in link order: a sequence of <<level, device>>
  Workloads,    \* Init chooses who accesses what, and how:
                \* [guests, regs, idxs, sizes, lanes, states]
  NumCpus       \* the processors that run vdev_init

\* The registers of the distributor, by the names a guest knows them by;
\* "NONE" stands for the addresses below 0x100 that are no register.
GicdRegs == {"CTLR", "TYPER", "IIDR", "NONE", "IGROUPR", "ISENABLER", "ICENABLER",
             "ISPENDR", "ICPENDR", "ISACTIVER", "ICACTIVER", "IPRIORITYR", "ITARGETSR",
             "ICFGR", "PPISR", "NSACR", "CPENDSGIR", "SPENDSGIR", "ICPIDR2"}
Sizes    == {"BYTE", "HWORD", "WORD"}

ASSUME WorkAssumption ==
  \A work \in Workloads :
    /\ work.guests \subseteq Guests /\ work.sizes \subseteq Sizes
    /\ work.lanes \subseteq Lanes /\ work.states \subseteq BOOLEAN   \* TRUE: Thumb
    /\ work.regs \subseteq GicdRegs \union {"SGIR", "sample", "vtimer", "traps"}

Levels     == {"HIGH", "MIDDLE", "LOW"}
LevelOrder == <<"LOW", "MIDDLE", "HIGH">>   \* as they are numbered
ASSUME InitcallAssumption == Initcalls \in Seq(Levels \X STRING)
ASSUME CpuAssumption ==
  NumCpus \in Nat /\ NumCpus <= NumGuests /\ \A g \in Guests : CpuOf[g] \in 0 .. NumCpus - 1

Regions == {"gicd", "sample", "vtimer", "monitor", "nothing"}

\* HSR.EC of the coprocessor traps vdev_cp claims, and others of its level.
CpTraps     == {"MCR_MRC_CP15", "MCRR_MRRC_CP15", "MCR_MRC_CP14", "LDC_STC_CP14",
                "HCRTR_CP0_CP13", "MRC_VMRS_CP10", "MRRC_CP14"}
OtherTraps  == {"UNKNOWN", "WFI_WFE", "BXJ", "SVC", "SMC", "PREFETCH_ABORT",
                "HYP_ABORT", "HVC"}     \* HVC: with a number nobody has
Hypercalls  == {"ping", "stay", "yield", "hvc_monitor"}

VARIABLES
  used,         \* what the guests access, chosen once
  called,       \* how many initcalls CPU 0 has run
  cursor,       \* where the loop of vdev_init is on each processor
  vdevs,        \* _vdev_module: [Levels -> Seq of devices]
  sample,       \* sample_regs: axis_x and axis_y of each guest
  vtimer,       \* vtimer_regs and _timer_status of each guest
  resumed,      \* the last trap: <<guest, device, in Thumb state, how far
                \* regs->pc has moved, length of the instruction>>
  halted        \* hyp_abort_infinite has been reached, or the program has gone
                \* where its text does not say what follows

vars == <<gicdVars, used, called, cursor, vdevs, sample, vtimer, resumed, halted>>

Init ==
  /\ GicInit
  /\ used \in Workloads
  /\ called = 0
  /\ cursor = [c \in 0 .. NumCpus - 1 |-> [level |-> 1, dev |-> 1, guest |-> 0]]
  /\ vdevs = [l \in Levels |-> <<>>]
  /\ sample = [g \in Guests |-> [x |-> 0, y |-> 0]]
  /\ vtimer = [g \in Guests |-> [mask |-> 0, status |-> 0]]
  /\ resumed = <<>>
  /\ halted = FALSE

-----------------------------------------------------------------------------
(* vdev_init *)

NumCalls == Len(Initcalls)

\* vdev_register: at the end of its level.
vdev_register(level, d) == vdevs' = [vdevs EXCEPT ![level] = Append(@, d)]

(***************************************************************************)
(* CPU 0 first runs the initcalls, high before middle before low, each of  *)
(* which appends its device to its level (vdev_register).                  *)
(***************************************************************************)
Register ==
  /\ called < NumCalls
  /\ LET call == Initcalls[called + 1]
     IN  vdev_register(call[1], call[2])
  /\ called' = called + 1
  /\ UNCHANGED <<gicdVars, used, cursor, sample, vtimer, resumed, halted>>

(***************************************************************************)
(* Then every processor goes through the levels, low before middle before  *)
(* high, and calls the init operation of each device that is registered by *)
(* then, while the guests of the other processor may run.                  *)
(***************************************************************************)
InLoop(cpu) == cursor[cpu].level <= 3 /\ (cpu = 0 => called = NumCalls)
DevsOf(cpu) == vdevs[LevelOrder[cursor[cpu].level]]
AtDevice(cpu, d) ==
  /\ InLoop(cpu) /\ cursor[cpu].dev \in DOMAIN DevsOf(cpu)
  /\ DevsOf(cpu)[cursor[cpu].dev] = d

NextLevel(cpu) ==
  /\ InLoop(cpu) /\ cursor[cpu].dev \notin DOMAIN DevsOf(cpu)
  /\ cursor' = [cursor EXCEPT ![cpu] = [level |-> @.level + 1, dev |-> 1, guest |-> 0]]
  /\ UNCHANGED <<gicdVars, used, called, vdevs, sample, vtimer, resumed, halted>>

\* One turn of the loop over the guests in vdev_gicd_reset_values.
ResetGuest(cpu) ==
  /\ AtDevice(cpu, "gicd") /\ cursor[cpu].guest \in Guests
  /\ GicdReset(cpu, cursor[cpu].guest)
  /\ cursor' = [cursor EXCEPT ![cpu].guest = @ + 1]
  /\ UNCHANGED <<used, called, vdevs, sample, vtimer, resumed, halted>>

\* vdev_vtimer_reset masks all virtual timers; the others set nothing here.
InitDevice(cpu) ==
  /\ InLoop(cpu) /\ cursor[cpu].dev \in DOMAIN DevsOf(cpu)
  /\ AtDevice(cpu, "gicd") => cursor[cpu].guest \notin Guests
  /\ vtimer' = IF cpu = 0 /\ AtDevice(cpu, "vtimer")
               THEN [g \in Guests |-> [vtimer[g] EXCEPT !.status = 1]] ELSE vtimer
  /\ cursor' = [cursor EXCEPT ![cpu] = [level |-> @.level, dev |-> @.dev + 1, guest |-> 0]]
  /\ UNCHANGED <<gicdVars, used, called, vdevs, sample, resumed, halted>>

InitDevices(cpu) == NextLevel(cpu) \/ ResetGuest(cpu) \/ InitDevice(cpu)

\* The guests of a processor start when its vdev_init has returned.
Running(g) == g \in used.guests /\ cursor[CpuOf[g]].level = 4 /\ ~halted

-----------------------------------------------------------------------------
(* Finding the device *)

\* The check operation: does device d claim trap t?
Claims(d, t) ==
  CASE d = "cp" -> t.ec \in CpTraps
    [] d \in Hypercalls -> t.ec = "HVC" /\ t.imm = d
    [] OTHER -> t.ec = "DATA_ABORT" /\ t.imm = d

\* _hyp_hvc_service: the level of an exception class.
Level(t) == CASE t.ec = "HVC" -> "MIDDLE"
              [] t.ec = "DATA_ABORT" -> "LOW"
              [] OTHER -> "HIGH"

Claimants(t) == {i \in DOMAIN vdevs[Level(t)] : Claims(vdevs[Level(t)][i], t)}

\* vdev_find: the first one that claims the trap.
Found(t, i) == i \in Claimants(t) /\ \A j \in Claimants(t) : i <= j

(***************************************************************************)
(* The instruction that trapped, in half-words: of 32 bits in ARM state,   *)
(* and in Thumb state too, except for loads and stores, which may be of    *)
(* 16.  regs->pc is on it, or behind it after a hypercall.  The post       *)
(* operation of a device moves pc by 2 bytes in Thumb state, whatever the  *)
(* length, and by 4 otherwise; a hypercall device has none.                *)
(***************************************************************************)
Lengths(thumb, d) == IF thumb /\ d \notin Hypercalls \union {"cp"} THEN {1, 2} ELSE {2}
Entry(d, len)     == IF d \in Hypercalls THEN len ELSE 0
IsizeOf(thumb)    == IF thumb THEN 1 ELSE 2

\* Fault: hypercalls are stepped over like other traps.
ResumeTwice(g, d) ==
  \E thumb \in used.states : \E len \in Lengths(thumb, d) :
    resumed' = <<g, d, thumb, Entry(d, len) + IsizeOf(thumb), len>>

Resume(g, d) ==
  \E thumb \in used.states : \E len \in Lengths(thumb, d) :
    resumed' = <<g, d, thumb, IF d \in Hypercalls THEN Entry(d, len)
                              ELSE Entry(d, len) + IsizeOf(thumb), len>>

Trapped(g, t, d) ==
  /\ Running(g)
  /\ \E i \in DOMAIN vdevs[Level(t)] : Found(t, i) /\ vdevs[Level(t)][i] = d

Halt ==
  halted' = TRUE /\ UNCHANGED <<gicdVars, used, called, cursor, vdevs, sample, vtimer, resumed>>

\* No device claims the trap, or the exception class is unknown: trap_error.
Unclaimed(g, t) == Running(g) /\ Claimants(t) = {} /\ Halt

-----------------------------------------------------------------------------
(* The devices *)

TrapOf(ec, imm) == [ec |-> ec, imm |-> imm]
Abort(region) == TrapOf("DATA_ABORT", region)

\* emulate_mcr_mrc_cp15, _cp14 and _cp10: the access is decoded and printed.
Emulate == UNCHANGED <<gicdVars, used, called, cursor, vdevs, sample, vtimer, halted>>

\* vdev_cp: the access has no effect, not even on the register of an MRC.
Coprocessor(g, ec) ==
  /\ "traps" \in used.regs
  /\ Trapped(g, TrapOf(ec, "none"), "cp")
  /\ Resume(g, "cp")
  /\ Emulate

\* vdev_hvc_*: the write operation, since bit 6 of all four numbers is set.
Hypercall(g, d) ==
  /\ "traps" \in used.regs
  /\ Trapped(g, TrapOf("HVC", d), d)
  /\ Resume(g, d)
  /\ UNCHANGED <<gicdVars, used, called, cursor, vdevs, sample, vtimer, halted>>

\* WFI, SMC, aborts nobody emulates, unknown hypercalls, addresses nobody has.
StrayTrap(g, ec) ==
  "traps" \in used.regs /\ Unclaimed(g, TrapOf(ec, "none"))
StrayAccess(g) ==
  "traps" \in used.regs /\ Unclaimed(g, Abort("nothing"))

\* Fault: every guest has the registers of guest 0.
SampleShared(g, reg, write, v) ==
  /\ "sample" \in used.regs
  /\ Trapped(g, Abort("sample"), "sample") /\ reg # "between"
  /\ sample' = IF write /\ reg # "sum" THEN [sample EXCEPT ![0][reg] = v] ELSE sample
  /\ Resume(g, "sample")
  /\ UNCHANGED <<gicdVars, used, called, cursor, vdevs, vtimer, halted>>

\* vdev_sample: axis_x, axis_y, and their sum, which is read only.
SampleAccess(g, reg, write, v) ==
  /\ "sample" \in used.regs
  /\ Trapped(g, Abort("sample"), "sample") /\ reg # "between"
  /\ sample' = IF write /\ reg # "sum" THEN [sample EXCEPT ![g][reg] = v] ELSE sample
  /\ Resume(g, "sample")
  /\ UNCHANGED <<gicdVars, used, called, cursor, vdevs, vtimer, halted>>

\* vdev_vtimer: the mask register, and the status callback_timer looks at.
VtimerAccess(g, write, v) ==
  /\ "vtimer" \in used.regs
  /\ Trapped(g, Abort("vtimer"), "vtimer")
  /\ vtimer' = IF write THEN [vtimer EXCEPT ![g] = [mask |-> v, status |-> v]] ELSE vtimer
  /\ Resume(g, "vtimer")
  /\ UNCHANGED <<gicdVars, used, called, cursor, vdevs, sample, halted>>

\* Both refuse an address between two registers: trap_error.
BetweenRegs(g, d) ==
  /\ d \in used.regs \intersect {"sample", "vtimer"}
  /\ Trapped(g, Abort(d), d)
  /\ Halt

(***************************************************************************)
(* vdev_monitor_access_handler: the command answers, or its error stops    *)
(* all.  An index behind the table (up to 0x3FF of 14 entries) takes the   *)
(* word it finds there for a function: an error if it is 0, and anything   *)
(* otherwise.  The model goes no further.                                  *)
(***************************************************************************)
MonitorAccess(g, inTable, ok) ==
  /\ "traps" \in used.regs
  /\ Trapped(g, Abort("monitor"), "monitor")
  /\ IF inTable /\ ok
     THEN /\ Resume(g, "monitor")
          /\ UNCHANGED <<gicdVars, used, called, cursor, vdevs, sample, vtimer, halted>>
     ELSE Halt

-----------------------------------------------------------------------------
(* The distributor *)

\* _handler_map, for the registers that have a handler.
GicdHandler(g, a) ==
  CASE a.reg \in {"ISENABLER", "ICENABLER"} -> HandlerISCENABLER(g, a)
    [] a.reg \in {"ISPENDR", "ICPENDR"} -> HandlerISCPENDR(g, a)
    [] a.reg = "ITARGETSR" -> HandlerITARGETSR(g, a)
    [] a.reg \in {"CPENDSGIR", "SPENDSGIR"} -> HandlerPENDSGIR(g, a)
    [] OTHER -> HandlerWord(g, a)

\* What the handlers refuse with HVMM_STATUS_BAD_ACCESS; an enable register
\* accepts a write of 0 before it looks at its index.
BadAccess(a) ==
  \/ a.reg \in {"TYPER", "IIDR"} /\ a.write
  \/ a.reg \in {"NONE", "ISACTIVER", "ICACTIVER", "PPISR", "NSACR", "ICPIDR2"}
  \/ a.reg \in {"ISPENDR", "ICPENDR"} /\ a.size # "WORD"
  \/ a.reg \in {"CPENDSGIR", "SPENDSGIR"} /\ a.idx # 0
  \/ a.reg \in {"ISENABLER", "ICENABLER"} /\ a.idx \notin Words /\ ~(a.write /\ a.value = {})
  \/ a.reg = "IGROUPR" /\ a.idx \notin Words

\* The guest reads the bit of virq v as enabled.
ReadsEnabled(g, v) == v % 4 \in EnableWord(g, v \div 4)

GicdAccess(g, a) ==
  /\ a.reg \in used.regs
  /\ Trapped(g, Abort("gicd"), "gicd")
  /\ ~BadAccess(a) /\ ~Beyond(g, a)
  /\ GicdHandler(g, a)
  /\ Resume(g, "gicd")
  /\ UNCHANGED <<used, called, cursor, vdevs, sample, vtimer, halted>>

\* trap_error, or a write to memory that is no register of any guest.
GicdRefused(g, a) ==
  /\ a.reg \in used.regs
  /\ Trapped(g, Abort("gicd"), "gicd")
  /\ BadAccess(a) \/ Beyond(g, a)
  /\ Halt

\* SGIR: the result is that of the last injection; without targets an error.
SgirAccess(g, filter, list, sgi, injected) ==
  /\ "SGIR" \in used.regs
  /\ Trapped(g, Abort("gicd"), "gicd")
  /\ LET targets == SgiTargets(g, filter, list)
     IN  /\ HandlerSGIR(sgi, targets)
         /\ halted' = (targets = {} \/ ~injected)
  /\ IF halted' THEN UNCHANGED resumed ELSE Resume(g, "gicd")
  /\ UNCHANGED <<used, called, cursor, vdevs, sample, vtimer>>

Halted == halted /\ UNCHANGED vars

-----------------------------------------------------------------------------

\* The indices whose addresses lead to the handler of a register.
IdxOf(reg) ==
  CASE reg \in {"CTLR", "TYPER", "IIDR"} -> {0}
    [] reg \in {"IPRIORITYR", "ITARGETSR"} -> 0 .. PrioPage - 1
    [] reg = "ICFGR" -> 0 .. 2 * HalfPage - 1
    [] OTHER -> 0 .. HalfPage - 1

Accesses(reg) ==
  [reg : {reg}, idx : used.idxs \intersect IdxOf(reg), size : used.sizes, lane : used.lanes,
   write : BOOLEAN, value : Values]

AnyAccess(g) ==
  \/ \E reg \in used.regs \intersect GicdRegs : \E a \in Accesses(reg) :
       GicdAccess(g, a) \/ GicdRefused(g, a)
  \/ \E filter \in Filters, list \in SUBSET Guests, sgi \in Sgis,
        injected \in BOOLEAN : SgirAccess(g, filter, list, sgi, injected)
  \/ \E reg \in {"x", "y", "sum"}, w \in BOOLEAN, v \in 0 .. 1 :
       SampleAccess(g, reg, w, v)
  \/ \E w \in BOOLEAN, v \in 0 .. 1 : VtimerAccess(g, w, v)
  \/ \E d \in {"sample", "vtimer"} : BetweenRegs(g, d)
  \/ \E inTable, ok \in BOOLEAN : MonitorAccess(g, inTable, ok)

Next ==
  \/ Register
  \/ \E cpu \in 0 .. NumCpus - 1 : InitDevices(cpu)
  \/ \E g \in Guests :
       \/ AnyAccess(g)
       \/ \E ec \in CpTraps : Coprocessor(g, ec)
       \/ \E d \in Hypercalls : Hypercall(g, d)
       \/ \E ec \in OtherTraps : StrayTrap(g, ec)
       \/ StrayAccess(g)
  \/ Halted

Spec == Init /\ [][Next]_vars

-----------------------------------------------------------------------------
(* Properties *)

(***************************************************************************)
(* The guest's enable bits are those of the hardware: once its processor   *)
(* has finished vdev_init, an interrupt of a guest is enabled in the       *)
(* physical distributor exactly when the guest reads its bit as set, and   *)
(* then it goes to the guest's processor.  vgicd_changed_istatus passes on *)
(* only what differs from old_vgicd_status, so a status that is stale      *)
(* loses an enable or a disable.  Two things are excepted: the SGIs, whose *)
(* status starts as 0 while they are on (their first disable does get      *)
(* lost), and a guest whose registers the guest before it has overrun.     *)
(***************************************************************************)
EnableMirrored ==
  \A g \in Guests \ overrun, v \in Irqs :
    LET p == Pirqmap[g][v]
    IN  Running(g) /\ p \notin HwSgis \union {PIRQ_INVALID} =>
          /\ ReadsEnabled(g, v) <=> p \in forwarded
          /\ p \in forwarded => target[p] = CpuOf[g]

\* What handler_IPRIORITYR and handler_ITARGETSR make of it: no guest is ever
\* overrun.  MCTrapOverrun.cfg shows the step that breaks it.
NoOverrun == overrun = {}

(***************************************************************************)
(* No guest can turn off the interrupts the hypervisor lives from (its     *)
(* timer and the maintenance interrupt), whatever it writes to the enable  *)
(* registers, although it can read and clear their bits in its own copy.   *)
(***************************************************************************)
HostIrqsStay == HostIrqs \subseteq forwarded

(***************************************************************************)
(* Where a guest goes on after a trap: behind the instruction, neither on  *)
(* it (the access would be done again) nor beyond, in both states and for  *)
(* every trap, with one exception the code does make: of a 32-bit Thumb    *)
(* instruction that a device emulates, every coprocessor access among      *)
(* them, it steps over the first half only.                                *)
(***************************************************************************)
HalfWay(d, thumb, len) == thumb /\ len = 2 /\ d \notin Hypercalls
ResumesBehind ==
  resumed # <<>> =>
    LET d == resumed[2]  thumb == resumed[3]  len == resumed[5]
    IN  resumed[4] = IF HalfWay(d, thumb, len) THEN 1 ELSE len

\* Without the exception: false of the code (MCTrapWide.cfg).
AlwaysBehind == resumed # <<>> => resumed[4] = resumed[5]

(***************************************************************************)
(* How far a trap of one guest reaches into the others: not into their     *)
(* sample and timer registers, the status of their enable bits, their      *)
(* interrupts in the physical distributor, nor their banked registers but  *)
(* CPENDSGIR, which SGIR writes in guest 1.  Of the registers in _regs it  *)
(* reaches those of the guest behind it, up to where the last index of     *)
(* ITARGETSR leads, and that guest counts as overrun from then on.         *)
(***************************************************************************)
Reach == Start.ITARGETSR + PrioPage - Size

Alone(h) ==
  /\ sample'[h] = sample[h] /\ vtimer'[h] = vtimer[h] /\ genabled'[h] = genabled[h]
  /\ old'[h] = old[h]
  /\ \A v \in Irqs : LET p == Pirqmap[h][v]
                     IN  p # PIRQ_INVALID => /\ p \in forwarded' <=> p \in forwarded
                                             /\ target'[p] = target[p]
  /\ \A r \in BankedRegs \ {"CPENDSGIR"} : banked'[h][r] = banked[h][r]

OwnDevicesOnly ==
  [][\A h \in Guests : cursor' = cursor /\ resumed' # <<>> /\ h # resumed'[1] /\ ~halted' =>
       /\ Alone(h)
       /\ \A n \in Positions : regs'[h][n] # regs[h][n] =>
            h = resumed'[1] + 1 /\ n < Reach /\ h \in overrun']_vars

=============================================================================
