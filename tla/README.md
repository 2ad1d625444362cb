# Formal models of K-Hypervisor

K-Hypervisor is a type-1 hypervisor for ARM Cortex-A15 (ARMv7 with the
virtualisation extensions). It runs a fixed set of guests, shares a processor
between them in round-robin order, delivers interrupts to them through the
virtual GIC, emulates some devices, and has a monitor with which one guest
stops, inspects and resumes another. This directory holds TLA+ models of the
hypervisor and of the guest loader that drives its monitor, TLC configurations
that check them on small instances, and TLAPS proofs of the main results for
all instances that satisfy the assumptions of the modules.

## The system

| Part | Source | State | Operations | Modules |
| --- | --- | --- | --- | --- |
| Scheduler | `hypervisor/vcpu.c`, `vdev_hvc_yield.c` | `_current_guest_vmid`, `_next_guest_vmid`, the manual choice, a tick counter per guest | `guest_schedule` (timer), yield, `guest_switchto`, `guest_perform_switch` at every trap exit | `Vcpu` |
| Interrupt delivery | `hypervisor/interrupt.c`, `libhw/vgic.c`, `interrupt_hw.c` | list registers (hardware and saved), slot tables and queues per guest, the map pirq to virq | `interrupt_service_routine`, `virq_inject`, `vgic_flush_virqs`, maintenance interrupt, save and restore | `Vgic` |
| Guest context | `guest_hw.c`, `memory_hw.c` | the registers of each guest, VTTBR and HCR.VM | save, restore, first launch, init | `Context` |
| Physical GIC driver | `libhw/gic.c` | the distributor's registers | initialisation, acknowledge, priority drop, deactivate, enable, disable | `Boot`, `Gicd`, `Vgic` |
| Distributor emulation | `vdev/vdev_gicd.c` | a copy of the GICD registers per guest, the enable bits passed on | register reads and writes, `GICD_SGIR` | `Gicd`, `Trap` |
| Trap entry and exit | `libhw/trap.c`, `vector.S` | the guest's pc | finds the virtual device, calls it, steps over the instruction, `guest_perform_switch` | `Trap`, `Hypervisor` |
| Device registry | `hypervisor/vdev.c`, `vdev/vdev_*.c` | lists of devices by level, the devices' registers | register, init, find, read, write, post | `Trap`, `Boot` |
| Timers | `hypervisor/timer.c`, `timer_hw.c`, `vdev_timer.c` | two callbacks, the control register, the mask of each guest's virtual timer | `timer_handler`, set, start, stop, mask and unmask | `Boot`, `Hypervisor`, `Trap` |
| Monitor | `hypervisor/monitor.c`, `vdev/vdev_monitor/*` | the table of monitoring points, patched guest code, shared memory | break, trace, clean, stop, run, dump, list, notify | `Monitor`, `GdbStub`, `Loader` |
| Host heap | `hypervisor/memory.c`, `memory_hw.c` | the free list, `mm_break`, `last_valid_address`, the heap's page table | malloc, free, growth | `Heap` |
| Stage-2 translation | `memory_hw.c`, `lpae.c` | a three-level table per guest | building it from the board's memory map, switching | `Stage2`, `Context` |
| Boot, both processors | `platform-device/*/main.c`, `main.c` helpers, `smp.h` | what each init function sets | the list of init functions of each CPU and board | `Boot` |
| GDB stub | `common/guest/loader/monitor/*` | the packet buffers, the target's registers, the shared record | packets, acknowledgements, commands, the handler of the monitoring interrupt | `GdbStub` |
| Loader, CLI | `common/guest/loader/*` | the autoboot timer, the symbol table, the tags | consoles, autoboot, boot of a guest, recovery | `Loader` |

The parts meet in three places. An interrupt handler or a trapped access calls
into the scheduler and into interrupt delivery; both only record what is to
happen. At the trap exit `guest_perform_switch` acts on the scheduler's record,
saves and restores the guest's registers, its stage-2 base and its list
registers, and the restore moves queued interrupts into list registers. The
guest itself then acknowledges and ends virqs in the list registers without any
trap, and the maintenance interrupt tells the hypervisor afterwards. The
monitor and the loader, which is a guest, share one page: commands go in by
traps, and breaks come out by a virq and one record that the next break
replaces.

Hyp mode runs with interrupts masked, so handlers of one processor are atomic
with respect to each other. What is hard is the order in which they come: a virq
may be injected, queued, flushed, saved, restored, taken and ended with switches
at any point between, while the tables that say what to deactivate are not
switched along. The other hard places are the second processor, which runs the
same init functions on the same static variables; the loader, whose interrupt
handler speaks to the debugger while its main loop does so, too; and the
arithmetic of the heap and of the stage-2 tables. The hazards of `PROJECT.json`
list them at their lines.

## Modules

**`Vcpu`** is the scheduler of one processor. `Tick` and `Yield` are
`guest_schedule` and the yield hypercall, `MonitorStop` and `MonitorRun` the
monitor's commands, `OtherTrap` all the rest; they leave `pc = "exit"`, where
`Stay`, `Launch` or `Switch`, the three branches of `guest_perform_switch`,
follows. `Restore` is the end of `save_and_restore`. The tick counter wraps at
`TickMod` as the `uint32_t` does at 2^32. `_switch_locked` is left out since
every call passes 0. Idle guests do not exist: `vcpu_state` is never read.

**`Vgic`** is interrupt delivery of one processor in the uniprocessor build
(`VGIC_SIMULATE_HWVIRQ`: the list registers' hardware bit is not used, so every
injection asks for a maintenance interrupt and the hypervisor deactivates the
physical interrupt itself). The list registers `lr` are separate from the saved
ones in `status`, as in the code, and `ListRegs(g)` finds those of `g` in either
place. `GuestIrq`, `SwInject` and `Sgi` are the three ways into `virq_inject`;
`Maintenance` is the handler of interrupt 25; `EnableIrq` and `DisableIrq` are
`vgicd_changed_istatus`; `SwitchTo` is `vgic_save_status` and
`vgic_restore_status` up to the flush, whose loop is `FlushOne` and `FlushDone`;
`Abort` is `hyp_abort_infinite`. `Ack` and `Eoi` are the guest's accesses to the
virtual CPU interface, which is hardware. Priorities are left out: any pending
virq may be taken next. The physical SGI that `virq_inject` sends after queueing
an SGI reaches a core without a handler for it in this build and is one of the
`OtherTrap`s. In `Vgic` alone the switch goes to any guest at any trap exit; the
scheduler decides in the composition.

**`Context`** is the rest of the switch: the registers the code saves and loads
one by one, by group, and the stage-2 base. Since values are only copied, a
register is described by whose value it holds (`hw`), and the copy in `vcpu_arr`
by whether it is up to date (`saved`). The first launch takes the code's other
path: it loads the frame and VMPIDR only. SP_fiq and the coprocessor registers
that the code does not name are shared by all guests and no part of the model.

**`Hypervisor`** composes these three. Each action conjoins one action of each
and adds what joins them: `TimerIrq` schedules and then injects the virtual
timer's virq into the guest that was running, `MonitorBreak` stops the system
and notifies the monitoring guest, `Launch` and `Switch` take the guest that
`Vcpu` chose to `Vgic`'s `SwitchTo` and through `Context`'s save and restore.
`masked` is the mask of the virtual timers. `TicksToRunner` is about that order
in `timer_handler`: the schedule comes first, and the tick still belongs to the
guest it interrupted. Since every action is made of actions of the parts, that
the whole implements them says nothing about the code and is no property here.

**`Gicd`** is the distributor a guest sees, register by register, with the
copies `_regs` and `_regs_banked`, `old_vgicd_status`, and the physical
distributor that `vgicd_changed_istatus` changes. A register word has four
lanes, one modelled bit in each byte: accesses of a byte, a half-word and a word
touch one, two and four lanes, so that the shift and mask arithmetic of the
handlers is there, the errors of `handler_ISCPENDR` included. The words of
`struct gicd_regs` are numbered in their order, and the structs of the guests lie
behind one another (`Owner`, `Position`): `handler_IPRIORITYR` and
`handler_ITARGETSR` use their index unchecked, and what lies behind 40 words is
first other registers of the guest and then registers of the next guest, which
the history variable `overrun` remembers. Behind the last guest it is memory the
model does not have, and a write there ends the run. **`Trap`** extends it by `vdev_init`, the search for a device, the coprocessor traps, the
hypercalls and the devices (`vdev_sample`, `vdev_timer`, `vdev_monitor`), the
step over the trapped instruction and the stop on an error. Registration is one
step per initcall; the init loop goes device by device, and through the reset of
the distributor guest by guest, on each processor, so that CPU 1's turns come
between the accesses of CPU 0's guests. A trapped instruction has a length, and a
coprocessor access in Thumb state is always one of 32 bits; the post operations
add 2 there. An index of `vdev_monitor` behind its table of 14 functions, or an
address between the registers of a device, ends the run. What a guest does is
chosen once from `Workloads`, which splits the state space by kinds of registers.

**`Boot`** is the way from `main` to the first guest, on both boards, with one
processor or two: `todo[c]` is the list of init functions that CPU `c` still
calls, each one step, and the variables are the states those functions set and
read. `Wake` is the pen (`secondary_smp_pen` or the word at 0x02020000) that
lets CPU 1 go in the middle of CPU 0's list. Behind it come the tick with its
chain of registers and handlers, the yield, the second timer of a test build,
and interrupts of waiting guests that go into the queues, which CPU 1's
`interrupt_init` clears. What CPU 1 finds of `_timer_irq` and of the devices
depends on how far CPU 0 has got.

**`Monitor`** is the monitor's table of points and the code of guest 0, whose
words it replaces by `HVC_TRAP`. `Insert`, `Clean`, `CleanAll`, `Restore`,
`WriteAside`, `Reboot`, `Stop` and `Run` are commands of the monitoring guest
(`Restore` and `WriteAside` are `monitor_write_memory` with the word as it was
and with other data, which the code writes to an address cut to a byte); `BreakTrap`,
`TraceTrap`, `RetrapTrap` and `OtherTrap` are the cases of
`vdev_hvc_monitor_write`; `Execute` is an instruction of the target. Code is a
ring of words and the target executes them in order, so that a step over a word
shows. A trace puts its word back, lets it execute, and is armed again by the
retrap on the word behind it. The walk of the guest's page table and the cache
maintenance are taken as exact.

**`GdbStub`** extends it by the stub in guest 1 and by the debugger at the other
end of the line. `main` is where `gdb()` is in its loop, with `put_packet` and
`get_packet` split at every `uart_getc`; `handler` is the interrupt handler that
comes in between, takes the record `mail` and sends its own packet; the line
carries packets and the characters `+` and `-`, and packets may be damaged.
`mail` is the one record of the shared page, written by the hypervisor at a
break and by dumps. An interrupt for it may be refused, which the code does not
look at (`refused` remembers the last one). All cases of `gdb()` are there: `s`
stands for `s`, `P` and `G`, which send what `reply_buf` still holds; `q` for all
that is answered by nothing. A word of memory is as it was, a break, or zero,
which `monitor_dump_guest_memory` gives for addresses it does not support; `m`
and `M` have the length of a word. The debugger follows the protocol and is
external.

**`Loader`** extends `GdbStub` by the program around it: the start that parses
the symbol table, the autoboot timer that counts down while the console waits,
the console and the monitor's console with their commands, the trace at the
panic function and the recovery that restarts the target, and the tags that a
Linux guest gets. The binary search is the recursive function of the code's
loop. The module ends where a guest is started.

**`Heap`** is the allocator of `memory_hw.c`, one step per turn of its loops:
`Malloc`, `Advance`, `TakeAll` and `TakeTail` are `host_memory_malloc`, `Grow`,
`Fail` and `Stray` the three ways `morecore` and `host_memory_sbrk` go, `Free`,
`Seek` and `Link` `host_memory_free`. Addresses count headers and wrap at
`AddrEnd`. A page has a frame, and `host_memory_map` gives all pages of a growth
the frame of the first one; a header (`ptr`, `size`) is kept by its physical
address, so that headers at the same offset of these pages are the same. With
that the allocator does lose blocks, gives memory out twice and may search for
ever; no property promises otherwise, and what the code does keep in spite of it
is what the run checks. `Stray` is a header written where the heap has no page,
or outside the heap, where `host_memory_init` maps other memory: what follows is
not modelled. Clients write nothing into what they hold, as `tests_malloc.c`,
the only client.

**`Stage2`** builds the stage-2 table of a guest from its memory map, an entry
of level 1 after the other, with head, body and tail of every descriptor. The
level-3 tables lie behind one another, so that a head which is too long runs
into the next table, as in the code. `Walk` is what the MMU makes of the
tables. Every guest has its own tables, so one guest is enough.

**`VcpuProofs`**, **`VgicProofs`**, **`HypervisorProofs`**, **`TrapProofs`**,
**`MonitorProofs`**, **`Stage2Proofs`**, **`HeapProofs`** and **`BootProofs`**
hold the theorems (`MonitorProofs` those of `GdbStub` and `Loader`, too);
the modules **`MC*`** give TLC its constants. Operators marked "Fault" are not
part of any specification: each is a variant of a definition next to it with a
plausible mistake, used to see that the properties notice it.

## Runs

| Run | Instance | Shows |
| --- | --- | --- |
| `vcpu` | 3 guests, slice 5, counter modulo 16 | no stale request, stop holds, slices in bounds, round robin, no starvation, stop takes effect |
| `vgic` | 2 guests, 1 device interrupt, 1 software virq that is also an SGI, 2 list registers, queue of 2 | tables agree, one holder, no device's virq in two list registers, deactivation after end of interrupt, stranding only by overflow, invisible switch |
| `vgic_live` | 1 list register, queue of 1, device interrupts only | every interrupt is deactivated, every queue drains |
| `vgic_lost` | 2 list registers, queue of 2, a device interrupt and an SGI | violation: the running guest fills the other one's queue with SGIs, and a device interrupt for that guest is lost instead of saved |
| `hypervisor` | 2 guests, 1 list register, queue of 1, a device, SGIs, counter modulo 4 | each guest runs on its own registers and tables; a tick goes to the guest it interrupted; a stopped guest is frozen |
| `trap` | 2 guests, 2 words of interrupts, 24 words of addresses over 2 of priorities, 11 workloads | enable bits mirrored but for an overrun guest, the hypervisor's interrupts stay on, resumption behind the instruction or its first half, how far a guest's accesses reach into the others |
| `boot` | both boards, 1 and 2 processors, with either test and with none | nothing runs before what it needs is there, CPU 1's `memory_init` and `interrupt_init` find what CPU 0 sets up, the tick goes on |
| `monitor` | 6 words, 6 entries, breaks and traces on one word and behind one another | code recoverable, traces and retraps paired; words with one kind of point are not skipped and their breaks hold |
| `gdb` | 2 words, both for breakpoints, one not readable, 2 damaged packets | answers are true of the stopped target; a break whose interrupt is accepted ends the debugger's wait |
| `loader` | 3 words, a break and a trace, 3 symbol files, 3 command lines | names are right, the tags can be walked |
| `heap` | 5 pages of 2 headers, growth by 2 pages or more, 5 sizes | sound growth, loops on written headers in mapped pages, pages in use keep their frame, one failure ends growth |
| `stage2` | 3 blocks of 3 pages, all lists of two areas | isolation, correct translation, descriptors apart |

### Bounds

The bounds are small because each property is about one or two of the things it
counts.

- *Guests, registers, queues.* Two list registers suffice for "another register
  of the same guest", and one interrupt and one software virq fill them only
  sometimes; a queue of one or two entries overflows with the next virq; two
  guests give a running and a waiting one, and three in `vcpu` give an order
  that is not a swap. In `hypervisor` the slice is 1: longer slices change only
  when a switch comes, which `vcpu` has with 5 and the proof with any; the
  counter wraps at 4 so that a wrap would be seen.
- *Registers and workloads.* In `trap` two words are the banked one and one of
  the others, with the swapped pair of interrupts of the RTSM board in it and an
  interrupt that both guests know by one number. `HalfPage` is where a second
  shift of the offset leaves the pending registers; `PrioPage` is large enough
  for an index of `IPRIORITYR` and one of `ITARGETSR` to reach the enable word of
  the next guest, as 164 and 124 do in the code, and no index goes further than
  that guest, as in the code. `Values` has a value for each half of the lanes
  and 0.
- *Boot* has no bound but the three sets of tests. Guest numbers are those of
  the boards; one SGI stands for the sixteen; a tick alternates a slice of two.
- *Monitor and loader.* In `monitor` the table has room for every point and its
  retrap, which `TracePaired` supposes. In `gdb`, one word can be read and one is
  in `ZeroWords`, breaks go on both, and `Noise = 2` lets a packet and
  its repetition be damaged, or one in each direction. In `loader` the line is
  clean (`Noise = 0`, the packets are the matter of `gdb`), the autoboot timer
  counts `BootCount = 1`, and the target meets its trace only while fewer than
  `MaxVirqs = 1` interrupts wait. The symbol files have tables of even and odd
  size, data between the functions, two symbols at one address and addresses
  before the first symbol; the command lines end at a word, before it and
  behind it.
- *Memory.* In `heap` two sizes are below the least growth, one is a multiple of
  a page above it, one is above it and no multiple, and one is so large that
  `mm_break` wraps, as the 208 MB of `tests_malloc.c` make it; five pages take up
  to two growths, each of which has headers that share memory. `MaxHeld = 1`
  leaves out the ways on which a block is given out twice, since `HeapAlias.cfg`
  has them with 2, and the theorems hold for any bound. In `stage2` areas start and end everywhere
  in a block, with no, one or two blocks between.

The proofs remove the bounds for what they cover. `CHECK_DEADLOCK FALSE` stands
in `heap`, where a search of aliased headers may find only blocks that are held
already, in `gdb`, where after the `k` command a later break waits for a `+` that nobody
sends, and in `loader`, which ends where a guest boots.

### What the code does not promise

Violations are results. `vgic_lost` shows where the code does not do what its
comment says; it is described under `findings` in `PROJECT.json`. Other
peculiarities came up while modelling, with a property that fails on an instance
of its own. They have a configuration for running by hand:

| Configuration | Module | Property | What happens |
| --- | --- | --- | --- |
| `VcpuArndale.cfg` | `Vcpu` | `SliceEnds` | the Arndale board's main never calls `vcpu_init`: the slice is 0 and the counter wraps |
| `MCVgicStarve.cfg` | `MCVgic` | `QueueDrains` | with one list register and two interrupts, direct injections overtake a queued virq for ever |
| `MonitorMixed.cfg` | `Monitor` | `EveryBreakStops` | a break on the word of a retrap matches no case of the switch and does not stop the target |
| `HeapAlias.cfg` | `Heap` | `HeldOnce` | `host_memory_map` maps the pages of one growth to one physical page: two clients hold the same memory |
| `MCLoaderList.cfg` | `MCLoader` | `ListTrue` | `monitor_list` advances by one word for two, so a list of two points loses an instruction |
| `MCTrapOverrun.cfg` | `MCTrap` | `NoOverrun` | an index of `IPRIORITYR` behind the array writes a register of the next guest |
| `MCTrapSmp.cfg` | `MCTrap` | `EnableMirrored` | CPU 1's `vdev_init` writes the words of guests that CPU 0 is running |
| `MCTrapWide.cfg` | `MCTrap` | `AlwaysBehind` | a 32-bit Thumb instruction that a device emulates is stepped over by half |
| `BootRace.cfg` | `Boot` | `LateShared` | CPU 1 reads `_timer_irq` before CPU 0 has set it, and gets no tick |
| `BootQueue.cfg` | `Boot` | `QueuesDrained` | CPU 1's `virq_init` clears the queues of guests that CPU 0 runs |
| `GdbStale.cfg` | `GdbStub` | `OwnAnswers` | a single step is answered with the reply of the command before |
| `GdbRefused.cfg` | `GdbStub` | `EveryStopReported` | the interrupt of a break is refused, and the debugger waits for ever |

Further ones have no property: a yield does not switch while ticks are left; the
running guest can get one software virq in two list registers; an SGI to several
guests is injected into some of them when the last refuses; a write of data other
than a break from GDB is answered OK and goes elsewhere; a trace point is not armed again when the table is full; areas below a
page map nothing; an area that starts inside a block and ends in another is
mapped with an offset (none of the boards has one); the first disable of an SGI
by a guest is lost. They are under `hazards` or at the definition.

### Fairness

`Vcpu!FairSpec`: every trap returns (weak fairness of the exit), and the timer
interrupt is taken even though other traps come between (strong fairness of
`Tick`): the timer is a level that stays asserted until it is served.
`NoStarvation` supposes that the monitor has let the system run and repeats no
run command, which would switch to guest 0 each time. `Vgic!FairSpec`: handlers
end; the scheduler brings every guest back (the result of `Vcpu`); a guest that
keeps getting the processor takes its pending virqs and ends them; and the
maintenance interrupt, a level, is taken in one of its turns. No fairness is
assumed of device interrupts, of enables or of software injections.
`Boot!Spec`: each processor
executes its list, and CPU 0 takes the timer's interrupt when all that lies
between the counter and the handler is in place; only weak fairness is needed
because nothing may take that away again, which is what `Ticking` says.
`GdbStub!GdbSpec`: the stub's loop, the delivery of the monitoring virq and the
handler go on, and the debugger acknowledges packets and reads answers; the
debugger need never send a command. The target need not run.

## Proofs

All theorems hold for every value of the constants that satisfies the
assumptions of the modules: at least two guests, a slice smaller than the
counter's range, and of the interrupt map that a pirq belongs to one guest, that
a guest sees no two pirqs as one virq, and that software virqs are no device
virqs. `setup_interrupt` of both boards keeps these. Of the distributor's layout
it is assumed that the words of a register fit between it and the next
(`NumWords <= HalfPage`) and that no index reaches past the next guest; the
code's 5, 32, 40 and 256 keep both.

*Scheduler.* `IInv` adds to the types: with no guest launched there is a first
guest to go to (`Launched`); while stopped, the next guest is the selected one,
or it runs and no other is asked for (`Stopped`); a standing request has one of
three reasons (`Reason`), told apart by what caused the trap. `Reason` is what
`RoundRobin` needs at the switch,
`Stopped` is needed because a stop reaches the processor only at the trap exit.
`Slices` ties an empty slice to a request for the successor, and needs a slice
that is not 0; this is the one theorem that supposes `vcpu_init`.

*Interrupt delivery.* `OneHolder` and `SlotsAgree` are not inductive. `IInv`
adds that a guest enables only its own pirqs (`Routed`), that in slots and in
queue entries a virq carries a pirq exactly when it stands for one (`SlotsStand`,
`EntriesStand`), and states the holders place by place (`SlotsHold`,
`EntriesHold`); that two guests cannot hold one pirq follows from the map. The
proof has one lemma for `virq_inject` with any set of targets, from which the
three injecting handlers follow, and one lemma per other handler. The
stand-for relation is also what shows that the duplicate check of `virq_inject`
never refuses a device interrupt: a slot with its virq would hold its pirq, and
that pirq would be active. The minimum of a set of slots exists by
well-foundedness of the naturals.

*The composition.* `HypervisorProofs` takes what it needs of the scheduler
through an instance of `VcpuProofs`: that there is a guest to run and that only
the monitor's guest runs while the system is stopped (`Running`). `TimeIsOwn`
needs `TickInv`: no queue ever holds the virtual timer's interrupt, so that no
flush brings one to a guest that did not ask for it, and each way into
`virq_inject` but the tick's has another virq. `OwnContext` has its own invariant (`CtxInv`): of every guest that
does not run all registers are saved, of the one that runs the registers hold
its values or, before its first switch, those of the boot code; stage 2 is off
only between save and restore.

*Traps.* That enable bits are mirrored is a statement about three copies, the
guest's registers, `old_vgicd_status` and the distributor, and is not inductive
without the second: `MirrorInv` says that all three agree on every interrupt of a
guest that has not been overrun, also before the devices are reset.
`EnableFollowed` supposes one processor; `MCTrapSmp.cfg` shows that it must.
`ResumedBehind` supposes nothing and names the half step of 32-bit Thumb
instructions. `DevicesApart` says how far a guest reaches, unchecked indices
included: the arithmetic of the layout bounds it to the head of the next guest's
registers.

*Monitor.* `CodeIntact` and `RetrapHasTrace` hold for all points and tables.
That no word with one type is skipped needs to know where the target can be when
it meets a trap. What the table promises of a single point (a word that has one type only)
is proved with `Armed`, which follows a trace from its trap to its retrap;
`TracesRearmed`, and with it `TracesPaired`, supposes a table with room
(`Enough`).

*Heap.* `HeapInv` adds to the types `Grown` and `Threaded`. `Grown` is
`GrowthSound` with `mm_break` at a page, and that a failure leaves nothing
between `last_valid_address` and the end of the heap, which is why one failure is
the last. `Threaded` says that every written link leads to a written header in a
mapped page, and where the loops and the blocks that clients hold are: it is kept
whatever the sizes say, because a link is only ever copied from one header to
another or set to the block in hand. That is what makes it true of headers that
share memory. The page-by-page arithmetic of growth is in lemmas of its own. The
proof holds for any page size, heap and set of requests of two units or more,
those that wrap the address space included.

*Stage-2 tables.* `IInv` adds to the types that the cursor of
`guest_memory_ttbl2_map` covers exactly the end of the descriptor's area and
fits into the level-2 table (`Cursor`), and that every level-3 entry, revealed
by level 2 or not, has an address of a descriptor (`Owned`). `Cursor` is where
the arithmetic of head, body and tail is; `Owned` is stronger than `Confined`
because entries are written before they are revealed. The theorem `GuestConfined`
supposes of the map only that areas end within their gigabyte, which the code
supposes too. What the finished table translates is proved with `TInv`: where
`index` stands in the area (`Places`), that no entry waits in a level-3 table
that level 2 does not show (`NothingHidden`), that the lists behind are as their
descriptors say (`Finished`), and that the list in hand is as the descriptors
before the one in hand say, with the part of that one that is done (`Current`).
It speaks of lists whose areas fit the blocks (`Fitting`), as `Translated` does;
`OnlyItsPages` follows from the same steps.

*Boot.* `IInv` turns the two lists into facts: the calls of CPU 0 come in one
order, which both boards keep (`Sorted`, by the numbers of `Rank`); each call
leaves what later ones need, and nothing takes it away again (`Effects`); CPU 1
has left its pen only if all that comes before its release is done, and a guest
runs only when nothing is left (`Passed`). CPU 1 runs the same functions on the
same static variables, so the lemma of each call is for both processors and shows
that the call takes nothing away from CPU 0. What CPU 1 needs that CPU 0 sets
after its release is not in `SharedFirst`, because it is not so. The theorems hold
for both boards, with one processor or two and any set of tests.

*GDB stub.* `Answered` is about the moment when the debugger takes a packet,
`GdbInv` about the whole exchange. It goes through seven phases: nothing is asked
(`Listening`), a command is on the line (`Commanded`), it is worked on
(`Working`), the target runs (`Running`), an answer is on the line (`Replied`),
refused (`RefusedReply`) or taken (`Accepted`). Each says what is on both
directions of the line, which echoes of acknowledgements (`Lead`) may still
precede, where `gdb()` and the handler are, and that the command in hand is the
one the debugger sent last. No phase lets a break's report meet an answer of
`gdb()`, and this is what makes the answers true: while a command is worked on
the target is stopped. The old replies of `s`, `P` and `G` and the registers
behind a refused interrupt are exceptions that `Answered` names. `EnoughForBreaks`, a table with an entry for each word
the debugger sets breaks on, is supposed, since the stub answers OK to a break
that found no entry. `SessionIsMonitored` shows that the theorems of `Monitor`
hold of a session; the proof needs the phases, because a break is set only on
words the debugger chose.

*Loader.* `LoaderInv` is small; the weight is in the lemmas about what the
operators compute, which are inductions over data. The library's induction
theorems cannot be used, since they take an operator; `NumberInduction` says the
same of a set of numbers and follows from the well-foundedness of the naturals.
It gives the existence of each recursive function (`KeepExists`, `HalvesExist`,
`BeginsExist`) and then what it computes: the parser keeps the text lines among
the first i, in order (`KeptRight`); the halves always have smaller addresses
before them, larger ones behind, and when they have met, the last word looked at
is beside the place (`Narrowed`), so that the correction behind the loop gives the
last line at or before the address (`Placed`); each tag begins where the one
before it ends. The file is any sequence of lines in the order of their
addresses, with several at one address; an address before the first text line
is not spoken of, as in `Named`. `LoaderIsMonitored` shows that the theorems of
`Monitor` hold under the console, too.

Model-checked only: the liveness properties `NoStarvation`, `StopTakesEffect`,
`PirqReleased`, `QueueDrains`, `Ticking` and `StopReported`, since
fairness is out of the prover's reach. Every invariant and every action property
that a passing run checks is also proved.

## Not modelled

- *Two processors at run time.* In the SMP build `vgic_sgi` and `virq_inject`
  write queues and slot tables of guests of the other processor without a lock.
  `Boot` and `MCTrapSmp.cfg` have the two processors during initialisation only.
- *The walk of a guest's page tables* (`va_to_pa`), which reads the TTBR0 saved
  at the last switch: guest address spaces are not in the models.
- *Damaged single characters* on the line of the GDB stub, and points set from
  the console during a GDB session.
- *The monitor's copy of the guest's registers* beyond what the stub reads, and
  the hexadecimal text of packets.
- *Timers that fire early or late*: the counter of the timer is no part of
  `Boot`; a tick comes when it is enabled.
- *Attribute bits* of translation tables, cache and TLB maintenance.

Left out for good: UART, GPIO and PWM drivers (pure register I/O), the log,
string and test helpers (no state of the system depends on them), assembly entry
code but for the order of its saves, guest operating systems, images and
patches.
