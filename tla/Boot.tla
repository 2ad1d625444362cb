-------------------------------- MODULE Boot --------------------------------
(***************************************************************************)
(* From main() to the first guest, and the tick that follows.              *)
(*                                                                         *)
(* Both boards bring the hypervisor up by the same modules in nearly the   *)
(* same order: memory, interrupts, timer, guests, virtual devices.  In an  *)
(* SMP build CPU 0 lets CPU 1 go in the middle of its own list and the two *)
(* continue side by side on the same static variables.  The module runs    *)
(* each of those init functions as one step of its CPU.                    *)
(*                                                                         *)
(* The build is chosen in Init: the board (platform-device/<board>/main.c),*)
(* _SMP_ or not, and the tests PLATFORM_BASIC_TESTS names.                 *)
(***************************************************************************)
EXTENDS Integers, Sequences, FiniteSets, SequencesExt

CONSTANTS
  Tests             \* the sets of test names a build may run after its initialisation

VARIABLES
  build,            \* [board, smp, tests], fixed
  todo,             \* todo[c]: what CPU c's init function still calls
  woken,            \* secondary_smp_pen, or the address at 0x02020000
  vcpus,            \* vcpu_arr: memmap_desc, the tables at vttbr, vmid, and whether regs are set
  hyp,              \* the hypervisor's own tables (_hmm_pgtable) and heap (mm_break, freep)
  regs,             \* regs[c]: the system registers of CPU c that have their value
  irqs,             \* interrupt.c: ops and _guest_virqmap, ppi[c]: _host_ppi_handlers[c]
  gic,              \* _gic and the distributor: base, dist, and per CPU what is forwarded
  vgic,             \* _vgic.base, on[c]: GICH_HCR.En, queued: the guests with virqs in _guest_virqs
  timer,            \* _timer_irq, and per CPU _host_callback and CNTHP_CTL
  vdevs,            \* _vdev_size per level, and whether the devices were reset
  sched             \* _current_guest_vmid, _next_guest_vmid

vars == <<build, todo, woken, vcpus, hyp, regs, irqs, gic, vgic, timer, vdevs, sched>>

ASSUME BootTests == Tests \subseteq SUBSET {"malloc", "gic_timer"}

Cpus == 0..1
None == "none"
NoVmid == -1                                \* VMID_INVALID, and a list that is not there
Junk == -2
Online == IF build.smp THEN Cpus ELSE {0}
Guests == IF build.smp THEN 0..3 ELSE 0..1
FirstVmid(c) == 2 * c                       \* guest_first_vmid
LastVmid(c) == 2 * c + 1                    \* guest_last_vmid
Own(c) == FirstVmid(c)..LastVmid(c)         \* num_of_guest of them from start_vmid

MaintenanceIrq == 25
TimerIrq == 26                              \* GENERIC_TIMER_HYP
NsTimerIrq == 30                            \* the timer hvmm_tests_gic_timer uses
Sgis == {0}                                 \* one of the sixteen
Private == Sgis \cup {MaintenanceIrq, TimerIrq, NsTimerIrq}

-----------------------------------------------------------------------------
(* The tables of the boards *)

\* the map a board gives each guest, as <<guest, pirq, virq>>
RtsmMap == {<<0, i, i>> : i \in {1, 69} \cup 16..19 \cup 31..36 \cup 41..47}
             \cup {<<0, 37, 38>>, <<0, 38, 37>>, <<1, 39, 37>>, <<2, 40, 37>>, <<3, 48, 37>>}
ArndaleMap == {<<0, i, i>> : i \in {27} \cup 32..64 \cup 66..72
                  \cup {84, 85, 88, 90, 96, 103, 104, 107, 108, 109, 126, 147, 156, 347}}

\* the regions of the physical memory the host tables tell apart, in the order of the addresses
HostTable ==
  [peripherals |-> [valid |-> TRUE,  attr |-> "dev_shared"],
   low         |-> [valid |-> TRUE,  attr |-> "writealloc"],
   guests      |-> [valid |-> TRUE,  attr |-> "writealloc"],
   monitor     |-> [valid |-> TRUE,  attr |-> "uncached"],
   heap        |-> [valid |-> FALSE, attr |-> "writealloc"],
   above       |-> [valid |-> TRUE,  attr |-> "uncached"],
   beyond      |-> [valid |-> FALSE, attr |-> None]]     \* from 4 GB on

\* the virtual devices of each level: one initcall each, which registers its module
HighModules == {"cp"}
MiddleModules == {"ping", "stay", "yield", "hvc_monitor"}
LowModules == {"gicd", "sample", "vtimer", "monitor"}
Modules == [high |-> HighModules, middle |-> MiddleModules, low |-> LowModules]

\* fault: CPU 1 is let go before the interrupt controller is set up
RtsmOrderEager(smp) ==
  <<"vcpu_init", "setup_memory", "memory_init">> \o (IF smp THEN <<"wake">> ELSE <<>>)
    \o <<"setup_interrupt", "interrupt_init", "setup_timer", "timer_init", "guest_init", "vdev_init",
         "tests", "guest_sched_start">>

\* main_cpu_init: the calls of CPU 0 up to the first guest
RtsmOrder(smp) ==
  <<"vcpu_init", "setup_memory", "memory_init", "setup_interrupt", "interrupt_init">>
    \o (IF smp THEN <<"wake">> ELSE <<>>)
    \o <<"setup_timer", "timer_init", "guest_init", "vdev_init", "tests", "guest_sched_start">>

ArndaleOrder(smp) ==
  <<"setup_memory", "memory_init", "setup_interrupt", "interrupt_init">>
    \o (IF smp THEN <<"wake">> ELSE <<>>)
    \o <<"setup_timer", "timer_init", "guest_init", "vdev_init", "tests", "guest_sched_start">>

\* secondary_cpu_init
SecondOrder == <<"memory_init", "interrupt_init", "timer_init", "guest_init", "vdev_init",
                 "guest_sched_start">>

Init ==
  /\ build \in [board : {"rtsm", "arndale"}, smp : BOOLEAN, tests : Tests]
  /\ todo = [c \in Cpus |-> IF c = 1 THEN SecondOrder
                            ELSE IF build.board = "rtsm" THEN RtsmOrder(build.smp)
                            ELSE ArndaleOrder(build.smp)]
  /\ woken = FALSE
  /\ vcpus = [g \in 0..3 |-> [list |-> NoVmid, placed |-> FALSE, tables |-> NoVmid, vmid |-> 0,
                              ready |-> FALSE, slice |-> 0]]
  /\ hyp = [tables |-> <<>>, heap |-> FALSE]
  /\ regs = [c \in Cpus |-> {}]
  /\ irqs = [ops |-> FALSE, map |-> {}, mapped |-> FALSE,
             ppi |-> [c \in Cpus |-> [i \in Private |-> None]]]
  /\ gic = [base |-> FALSE, dist |-> FALSE, initialized |-> FALSE,
            forwarded |-> [c \in Cpus |-> {}], cpuif |-> [c \in Cpus |-> FALSE]]
  /\ vgic = [base |-> FALSE, on |-> [c \in Cpus |-> FALSE], queued |-> {}]
  /\ timer \in {[irq |-> 0, callback |-> [c \in Cpus |-> None],
                 enable |-> [c \in Cpus |-> FALSE], imask |-> m, counting |-> build.board = "rtsm"] : m \in [Cpus -> BOOLEAN]}
  /\ vdevs = [size |-> [l \in DOMAIN Modules |-> 0], reset |-> FALSE]
  /\ sched = [current |-> [c \in Cpus |-> NoVmid], next |-> [c \in Cpus |-> NoVmid],
              ticks |-> [c \in Cpus |-> 0]]

\* the next call of CPU c's list; CPU 1 waits in its pen
Calls(c, f) ==
  /\ c \in Online /\ (c = 1 => woken)
  /\ todo[c] # <<>> /\ Head(todo[c]) = f
  /\ todo' = [todo EXCEPT ![c] = Tail(@)]
  /\ UNCHANGED build

-----------------------------------------------------------------------------
(* Memory *)

\* vcpu_init: the length of a slice, only on the RTSM
VcpuInit(c) ==
  /\ Calls(c, "vcpu_init")
  /\ vcpus' = [g \in DOMAIN vcpus |-> IF g \in Guests THEN [vcpus[g] EXCEPT !.slice = 5] ELSE vcpus[g]]
  /\ UNCHANGED <<woken, hyp, regs, irqs, gic, vgic, timer, vdevs, sched>>

\* setup_memory: the guests' images give their memory its address
SetupMemory(c) ==
  /\ Calls(c, "setup_memory")
  /\ vcpus' = [g \in DOMAIN vcpus |-> [vcpus[g] EXCEPT !.placed = g \in Guests]]
  /\ UNCHANGED <<woken, hyp, regs, irqs, gic, vgic, timer, vdevs, sched>>

\* guest_memory_init_ttbl from the list that vcpu g has; with no list it walks from address 0,
\* and what it builds is what happens to be there
Tables(g, list) == IF list # NoVmid THEN {list} ELSE {NoVmid, Junk}

\* fault: not only on CPU 0; the second call comes with other lists
GuestMemoryInitEverywhere(c, lists) ==
  [g \in 0..3 |-> IF g \in Guests THEN Tables(g, lists[g]) ELSE {vcpus[g].tables}]

\* guest_memory_init_ttbl of every guest, on CPU 0 only
GuestMemoryInit(c, lists) ==
  IF c = 0 THEN [g \in 0..3 |-> IF g \in Guests THEN Tables(g, lists[g]) ELSE {vcpus[g].tables}]
  ELSE [g \in 0..3 |-> {vcpus[g].tables}]

\* the registers memory_init leaves set: guest_memory_init_mmu and memory_enable
GuestMmu == {"vtcr"}
MemoryEnable == {"mair", "hmair", "htcr", "httbr", "mmu"}

\* memory_init(guest0_mdlist, guest1_mdlist): whichever CPU calls, the lists go to vcpu 0 and 1
MemoryInit(c) ==
  LET lists == [g \in 0..3 |-> IF g \in 0..1 THEN FirstVmid(c) + g ELSE vcpus[g].list]
      built == GuestMemoryInit(c, lists)
  IN /\ Calls(c, "memory_init")
     /\ \E t \in [0..3 -> UNION {built[g] : g \in 0..3}] :
          /\ \A g \in 0..3 : t[g] \in built[g]
          /\ vcpus' = [g \in 0..3 |-> [vcpus[g] EXCEPT !.list = lists[g], !.tables = t[g]]]
     /\ hyp' = IF c = 0 THEN [tables |-> HostTable, heap |-> TRUE] ELSE hyp
     /\ regs' = [regs EXCEPT ![c] = @ \cup GuestMmu \cup MemoryEnable]
     /\ UNCHANGED <<woken, irqs, gic, vgic, timer, vdevs, sched>>

-----------------------------------------------------------------------------
(* Interrupts *)

\* setup_interrupt: _guest_virqmap, declared for the guests the build has
SetupInterrupt(c) ==
  /\ Calls(c, "setup_interrupt")
  /\ irqs' = [irqs EXCEPT !.map = {m \in (IF build.board = "rtsm" THEN RtsmMap ELSE ArndaleMap) :
                                     m[1] \in Guests}]
  /\ UNCHANGED <<woken, vcpus, hyp, regs, gic, vgic, timer, vdevs, sched>>

\* gic_init_baseaddr, with gic_periphbase_pa when no address is given, on CPU 0
GicBase(c) == gic.base \/ c = 0

\* gic_init: the addresses and the distributor on CPU 0, the CPU interface on both
GicInit(c) ==
  [gic EXCEPT !.base = GicBase(c), !.dist = @ \/ c = 0, !.initialized = TRUE,
              !.forwarded[c] = (@ \ Private) \cup Sgis, !.cpuif[c] = TRUE]

\* interrupt_request of a private interrupt
Request(table, c, irq, handler) == [table EXCEPT ![c][irq] = handler]

\* gic_configure_irq: off, configured, on again
Configure(g, c, irq) == [g EXCEPT !.forwarded[c] = @ \cup {irq}]

\* host_interrupt_init: interrupts go to Hyp mode, and gic_init
HostInterruptInit(c) == regs' = [regs EXCEPT ![c] = @ \cup {"imo"}]

\* vgic_init: the address on CPU 0, the maintenance interrupt on both
VgicInit(c, ppi) ==
  /\ irqs' = [irqs EXCEPT !.ops = @ \/ c = 0, !.mapped = @ \/ c = 0,
                          !.ppi = Request(ppi, c, MaintenanceIrq, "maintenance")]
  /\ gic' = Configure(GicInit(c), c, MaintenanceIrq)

\* guest_interrupt_init: vgic_init, vgic_enable if it succeeded, and virq_init, which clears the
\* queues of all guests, also those of the other CPU
GuestInterruptInit(c) ==
  /\ VgicInit(c, irqs.ppi)
  /\ vgic' = [base |-> vgic.base \/ c = 0, on |-> [vgic.on EXCEPT ![c] = TRUE], queued |-> {}]

\* interrupt_init: the module's tables on CPU 0, then both inits
InterruptInit(c) ==
  /\ Calls(c, "interrupt_init")
  /\ HostInterruptInit(c) /\ GuestInterruptInit(c)
  /\ UNCHANGED <<woken, vcpus, hyp, timer, vdevs, sched>>

\* the pen on the RTSM, the start address on the Arndale
Wake(c) ==
  /\ Calls(c, "wake")
  /\ woken' = TRUE
  /\ UNCHANGED <<vcpus, hyp, regs, irqs, gic, vgic, timer, vdevs, sched>>

-----------------------------------------------------------------------------
(* Timer *)

\* mct_init: the Exynos counter that drives the generic timer is cleared and started
MctInit(t) == [t EXCEPT !.counting = TRUE]

\* setup_timer of either board
SetupTimer(c) ==
  /\ Calls(c, "setup_timer")
  /\ LET t == [timer EXCEPT !.irq = TimerIrq]
     IN timer' = IF build.board = "arndale" THEN MctInit(t) ELSE t
  /\ UNCHANGED <<woken, vcpus, hyp, regs, irqs, gic, vgic, vdevs, sched>>

\* timer_init(_timer_irq) and timer_requset_irq
TimerInit(c) ==
  /\ Calls(c, "timer_init")
  /\ irqs' = [irqs EXCEPT !.ppi = Request(@, c, timer.irq, "timer")]
  /\ gic' = Configure(gic, c, timer.irq)
  /\ UNCHANGED <<woken, vcpus, hyp, regs, vgic, timer, vdevs, sched>>

\* generic_timer_reg_write of CNTHP_CTL, on the CPU that executes it
TimerCtrl(t, c, enable, imask) == [t EXCEPT !.enable[c] = enable, !.imask[c] = imask]

\* timer_stop: generic_timer_disable of the hypervisor's timer
TimerStop(t, c) == TimerCtrl(t, c, FALSE, TRUE)
\* fault: IMASK stays set
TimerStartMasked(t, c) == TimerCtrl(t, c, TRUE, t.imask[c])
\* timer_start: generic_timer_enable
TimerStart(t, c) == TimerCtrl(t, c, TRUE, FALSE)

\* timer_set(timer, HOST_TIMER)
TimerSet(c, callback) == TimerStart([TimerStop(timer, c) EXCEPT !.callback[c] = callback], c)

-----------------------------------------------------------------------------
(* Guests and devices *)

\* guest_hw_init: the registers the guest starts with
GuestHwInit(vcpu) == [vcpu EXCEPT !.ready = TRUE]

\* guest_init: the contexts of the CPU's own guests, and the tick
GuestInit(c) ==
  /\ Calls(c, "guest_init")
  /\ vcpus' = [g \in DOMAIN vcpus |-> IF g \in Own(c) THEN GuestHwInit([vcpus[g] EXCEPT !.vmid = g])
                                      ELSE vcpus[g]]
  /\ timer' = TimerSet(c, "guest_schedule")
  /\ UNCHANGED <<woken, hyp, regs, irqs, gic, vgic, vdevs, sched>>

\* vdev_init: CPU 0 registers the modules, every CPU calls the init of those that are registered
VdevInit(c) ==
  /\ Calls(c, "vdev_init")
  /\ LET size == IF c = 0 THEN [l \in DOMAIN Modules |-> vdevs.size[l] + Cardinality(Modules[l])]
                 ELSE vdevs.size
     IN vdevs' = [size |-> size, reset |-> vdevs.reset \/ \E l \in DOMAIN Modules : size[l] > 0]
  /\ UNCHANGED <<woken, vcpus, hyp, regs, irqs, gic, vgic, timer, sched>>

\* basic_tests_run: hvmm_tests_malloc frees all it takes; hvmm_tests_gic_timer starts a second tick
BasicTests(c) ==
  /\ Calls(c, "tests")
  /\ IF "gic_timer" \in build.tests
     THEN /\ irqs' = [irqs EXCEPT !.ppi = Request(@, c, NsTimerIrq, "nsptimer")]
          /\ gic' = Configure(gic, c, NsTimerIrq)
     ELSE UNCHANGED <<irqs, gic>>
  /\ UNCHANGED <<woken, vcpus, hyp, regs, vgic, timer, vdevs, sched>>

\* guest_sched_start, guest_switchto, guest_perform_switch, memory_hw_restore
SchedStart(c) ==
  /\ Calls(c, "guest_sched_start")
  /\ LET vmid == vcpus[FirstVmid(c)].vmid
     IN sched' = [sched EXCEPT !.current[c] = vmid, !.next[c] = vmid]
  /\ regs' = [regs EXCEPT ![c] = @ \cup {"vttbr", "vm"}]
  /\ UNCHANGED <<woken, vcpus, hyp, irqs, gic, vgic, timer, vdevs>>

-----------------------------------------------------------------------------
(* Running *)

\* interrupt_check_guest_irq: does the map give the interrupt to a guest?
ForGuest(irq) == \E m \in irqs.map : m[2] = irq

\* an interrupt that the distributor forwards reaches the handler of this CPU
Reaches(c, irq, handler) ==
  /\ sched.current[c] # NoVmid
  /\ gic.dist /\ gic.cpuif[c] /\ irq \in gic.forwarded[c]
  /\ "imo" \in regs[c] /\ irqs.ops /\ irqs.mapped
  /\ ~ForGuest(irq) /\ irqs.ppi[c][irq] = handler

\* guest_schedule and the switch at the exit: the same guest, or the next one in the circle, whose
\* queue goes to the list registers (module Vgic has the case that they do not suffice)
Schedule(c) ==
  LET now == sched.current[c]
      then == IF now < LastVmid(c) THEN now + 1 ELSE FirstVmid(c)
  IN \E g \in {now, then} :
       /\ sched' = [sched EXCEPT !.current[c] = g, !.next[c] = IF g = now THEN g ELSE NoVmid,
                                 !.ticks[c] = 1 - @]
       /\ vgic' = [vgic EXCEPT !.queued = IF g = now THEN @ ELSE @ \ {g}]

\* timer_handler: stopped, the callback, armed again
Tick(c) ==
  /\ timer.counting /\ timer.enable[c] /\ ~timer.imask[c] /\ timer.callback[c] = "guest_schedule"
  /\ Reaches(c, TimerIrq, "timer")
  /\ timer' = TimerStart(TimerStop(timer, c), c)
  /\ Schedule(c)
  /\ UNCHANGED <<build, todo, woken, vcpus, hyp, regs, irqs, gic, vdevs>>

\* interrupt_nsptimer, the tick of the test
NsTick(c) ==
  /\ Reaches(c, NsTimerIrq, "nsptimer")
  /\ Schedule(c)
  /\ UNCHANGED <<build, todo, woken, vcpus, hyp, regs, irqs, gic, timer, vdevs>>

\* the yield hypercall: the same scheduler, called by the guest
Yield(c) ==
  /\ sched.current[c] # NoVmid /\ vdevs.size.middle > 0
  /\ Schedule(c)
  /\ UNCHANGED <<build, todo, woken, vcpus, hyp, regs, irqs, gic, timer, vdevs>>

\* an interrupt of a guest of this CPU that does not run is saved for it
Arrives(c) ==
  /\ sched.current[c] # NoVmid /\ gic.dist /\ gic.cpuif[c] /\ "imo" \in regs[c] /\ irqs.ops
  /\ \E m \in irqs.map : /\ m[1] \in Own(c) \ {sched.current[c]}
                         /\ vgic' = [vgic EXCEPT !.queued = @ \cup {m[1]}]
  /\ UNCHANGED <<build, todo, woken, vcpus, hyp, regs, irqs, gic, timer, vdevs, sched>>

Boots(c) ==
  \/ VcpuInit(c) \/ SetupMemory(c) \/ MemoryInit(c) \/ SetupInterrupt(c) \/ InterruptInit(c)
  \/ Wake(c) \/ SetupTimer(c) \/ TimerInit(c) \/ GuestInit(c) \/ VdevInit(c)
  \/ BasicTests(c) \/ SchedStart(c)

Next == \E c \in Cpus : Boots(c) \/ Tick(c) \/ NsTick(c) \/ Yield(c) \/ Arrives(c)

\* the CPU executes its list; the timer counts down and its interrupt is taken
Fairness == WF_vars(Boots(0)) /\ WF_vars(Boots(1)) /\ WF_vars(Tick(0))

Spec == Init /\ [][Next]_vars /\ Fairness

-----------------------------------------------------------------------------
(* Properties *)

\* Whatever the second CPU does meanwhile, a guest of CPU 0 runs only when all it needs is there:
\* the hypervisor's own tables with the MMU on, its context, tables built from its own list with
\* the image's address in it, devices that were reset, and the maintenance interrupt.
ReadyToRun ==
  sched.current[0] # NoVmid =>
    /\ hyp.tables = HostTable /\ hyp.heap /\ MemoryEnable \cup GuestMmu \subseteq regs[0]
    /\ \A g \in Own(0) : /\ vcpus[g].ready /\ vcpus[g].vmid = g /\ vcpus[g].placed
                         /\ vcpus[g].tables = g
    /\ vdevs.reset /\ \A l \in DOMAIN Modules : vdevs.size[l] = Cardinality(Modules[l])
    /\ vgic.base /\ vgic.on[0]
    /\ MaintenanceIrq \in gic.forwarded[0] /\ ~ForGuest(MaintenanceIrq)

\* CPU 1 goes through code that uses what CPU 0 alone sets up. When it is let go, what its
\* memory_init and interrupt_init find is in place: the hypervisor's tables, the operations of the
\* interrupt controllers with their addresses, the distributor, the interrupt map and the guests'
\* memory. What its timer_init and vdev_init find is not: LateShared is about that.
SharedFirst ==
  woken => /\ hyp.tables = HostTable /\ hyp.heap
           /\ irqs.ops /\ irqs.mapped /\ irqs.map # {}
           /\ gic.base /\ gic.dist /\ vgic.base
           /\ \A g \in Guests : vcpus[g].placed

\* CPU 0 sets _timer_irq, and registers the devices, after it has let CPU 1 go. What CPU 1 should
\* have nevertheless: the tick's handler once timer_init is done, and all devices when its first
\* guest runs. False of the code (BootRace.cfg): CPU 1 may request interrupt 0 for its tick.
LateShared ==
  /\ ~ Contains(todo[1], "timer_init") => irqs.ppi[1][TimerIrq] = "timer"
  /\ sched.current[1] # NoVmid =>
       \A l \in DOMAIN Modules : vdevs.size[l] = Cardinality(Modules[l])

\* A virq leaves its queue for a list register, when its guest is switched in. False of the code:
\* CPU 1's interrupt_init clears the queues of the guests CPU 0 runs already (BootQueue.cfg).
QueuesDrained ==
  [][\A g \in vgic.queued \ vgic'.queued : \E c \in Cpus : sched'.current[c] = g]_vars

\* The scheduler is called again and again on CPU 0: the tick's handler, its interrupt, the
\* timer's registers and the callback fit together and every tick leaves them so.
Ticking == []<><<Tick(0)>>_vars
=============================================================================
