-------------------------------- MODULE Vgic --------------------------------
(***************************************************************************)
(* Delivery of interrupts to guests (hypervisor/interrupt.c, libhw/vgic.c, *)
(* and the parts of libhw/gic.c and vdev_gicd.c that drive them), for the  *)
(* uniprocessor build (VGIC_SIMULATE_HWVIRQ defined, _SMP_ undefined).     *)
(*                                                                         *)
(* The list registers belong to the hardware and are shared: a context     *)
(* switch saves them in vcpu_arr[from].status and loads those of the next  *)
(* guest.  The tables _guest_pirqatslot and _guest_virqatslot and the      *)
(* queues _guest_virqs are per guest and are never switched.  The module   *)
(* is about keeping the two in step.                                       *)
(*                                                                         *)
(* A handler runs in Hyp mode with interrupts masked, so nothing happens   *)
(* between its steps.  pc says where the processor is: "guest" (a guest    *)
(* runs), "exit" (a handler has run, guest_perform_switch is next),        *)
(* "flush" (inside vgic_restore_status, moving queued virqs to list        *)
(* registers), "abort" (hyp_abort_infinite).                               *)
(***************************************************************************)
EXTENDS Integers, FiniteSets

CONSTANTS
  Guests,       \* the vmids 0 .. NUM_GUESTS_STATIC-1
  NumLR,        \* _vgic.num_lr, the number of list registers
  QueueSize,    \* VIRQ_MAX_ENTRIES, the entries of one guest's queue
  Pirqs,        \* physical interrupts that setup_interrupt routes to guests
  Virqmap,      \* _guest_virqmap: Virqmap[g][p] is map[p].virq of guest g
  SwVirqs,      \* virqs injected with INJECT_SW (virtual timer, monitor)
  Sgis,         \* virqs sent by a guest through GICD_SGIR
  NoIrq,        \* PIRQ_INVALID and VIRQ_INVALID
  NoEntry,      \* a queue entry with valid = 0
  NoGuest       \* VMID_INVALID

HwVirqs == {Virqmap[g][p] : g \in Guests, p \in Pirqs} \ {NoIrq}
Virqs   == HwVirqs \union SwVirqs \union Sgis

(***************************************************************************)
(* The sizes, and what setup_interrupt of both platforms guarantees of the *)
(* interrupt map: every pirq is routed to one guest, no two pirqs of a     *)
(* guest to the same virq, and no software virq is also a hardware one.    *)
(* Two zeros of C, "no interrupt" and "no guest", are values of their own. *)
(***************************************************************************)
ASSUME SizeAssumption == NumLR \in Nat \ {0} /\ QueueSize \in Nat
ASSUME GuestAssumption == NoGuest \notin Guests
ASSUME IrqAssumption ==
  /\ NoIrq \notin Pirqs \union SwVirqs \union Sgis
  /\ NoEntry \notin [virq : Virqs, pirq : Pirqs \union {NoIrq}]
ASSUME MapAssumption ==
  /\ \A p \in Pirqs : \E g \in Guests : Virqmap[g][p] # NoIrq
  /\ \A p \in Pirqs, g, h \in Guests :
       Virqmap[g][p] # NoIrq /\ Virqmap[h][p] # NoIrq => g = h
  /\ \A p, q \in Pirqs, g \in Guests :
       Virqmap[g][p] = Virqmap[g][q] /\ Virqmap[g][p] # NoIrq => p = q
  /\ \A p \in Pirqs, g \in Guests : Virqmap[g][p] \notin SwVirqs \union Sgis

Slots   == 0 .. NumLR - 1
Entries == 0 .. QueueSize - 1

VARIABLES
  pc,           \* where the processor is
  current,      \* _current_guest_vmid
  lr,           \* GICH_LR, the hardware's list registers
  status,       \* vcpu_arr[g].status.lr, the saved list registers
  pirqatslot,   \* _guest_pirqatslot
  virqatslot,   \* _guest_virqatslot
  virqs,        \* _guest_virqs
  enabled,      \* enabled[g]: the pirqs with map[p].enabled set for guest g
  forwarded,    \* the pirqs enabled in the physical distributor (GICD)
  active        \* the pirqs acknowledged and not yet deactivated

tables == <<pirqatslot, virqatslot, virqs>>
vars   == <<pc, current, lr, status, tables, enabled, forwarded, active>>

(***************************************************************************)
(* A list register holds a virq in one of the states the GIC moves it      *)
(* through: pending, active, or ended by the guest and waiting for the     *)
(* maintenance interrupt ("eoi": state bits 0, EOI bit 1, so set in        *)
(* GICH_EISR and clear in GICH_ELSR).  Every injection asks for that       *)
(* maintenance interrupt.                                                  *)
(***************************************************************************)
LREmpty == [state |-> "invalid", virq |-> NoIrq]
LRs     == {LREmpty} \union [state : {"pending", "active", "eoi"}, virq : Virqs]
QEntries == [virq : Virqs, pirq : Pirqs \union {NoIrq}]


(***************************************************************************)
(* The list registers of guest g, wherever they are.                       *)
(***************************************************************************)
ListRegs(g) == IF g = current THEN lr ELSE status[g]

Init ==
  /\ pc = "exit"
  /\ current = NoGuest
  /\ lr = [s \in Slots |-> LREmpty]
  /\ status = [g \in Guests |-> [s \in Slots |-> LREmpty]]
  /\ pirqatslot = [g \in Guests |-> [s \in Slots |-> NoIrq]]
  /\ virqatslot = [g \in Guests |-> [s \in Slots |-> NoIrq]]
  /\ virqs = [g \in Guests |-> [i \in Entries |-> NoEntry]]
  /\ enabled = [g \in Guests |-> {}]
  /\ forwarded = {}
  /\ active = {}

-----------------------------------------------------------------------------
(* Injection *)

Smallest(S) == CHOOSE x \in S : \A y \in S : x <= y

FreeSlots      == {s \in Slots : lr[s].state = "invalid"}
FreeEntries(g) == {i \in Entries : virqs[g][i] = NoEntry}

\* Fault: any virq in the slot table will do.
VirqAtBusySlot(g, v) == \E s \in Slots : virqatslot[g][s] # NoIrq

\* vgic_slotvirq_getslot(g, v) # SLOT_INVALID
VirqAtSlot(g, v) == \E s \in Slots : virqatslot[g][s] = v

\* Fault: vgic_slotvirq_set is not called.
InjectSlotNoVirq(g, s, v, p) ==
  /\ lr' = [lr EXCEPT ![s] = [state |-> "pending", virq |-> v]]
  /\ pirqatslot' = IF p = NoIrq THEN pirqatslot
                                ELSE [pirqatslot EXCEPT ![g][s] = p]
  /\ UNCHANGED virqatslot

\* Fault: vgic_slotpirq_set is not called.
InjectSlotNoPirq(g, s, v, p) ==
  /\ lr' = [lr EXCEPT ![s] = [state |-> "pending", virq |-> v]]
  /\ virqatslot' = [virqatslot EXCEPT ![g][s] = v]
  /\ UNCHANGED pirqatslot

\* vgic_inject_virq_hw and vgic_inject_virq_sw for the running guest.
InjectSlot(g, s, v, p) ==
  /\ lr' = [lr EXCEPT ![s] = [state |-> "pending", virq |-> v]]
  /\ virqatslot' = [virqatslot EXCEPT ![g][s] = v]
  /\ pirqatslot' = IF p = NoIrq THEN pirqatslot
                                ELSE [pirqatslot EXCEPT ![g][s] = p]

\* Does virq_inject(g, v, ...) return HVMM_STATUS_SUCCESS?
Accepts(g, v) ==
  IF g = current THEN FreeSlots # {}
                 ELSE ~ VirqAtSlot(g, v) /\ FreeEntries(g) # {}

(***************************************************************************)
(* virq_inject for every guest g in T, with virq V[g], on behalf of pirq p *)
(* (NoIrq for software).  The running guest gets a list register, another  *)
(* guest an entry of its queue.                                            *)
(***************************************************************************)
virq_inject(T, V, p) ==
  LET took == {g \in T : Accepts(g, V[g])} IN
  /\ IF current \in took
       THEN InjectSlot(current, Smallest(FreeSlots), V[current], p)
       ELSE UNCHANGED <<lr, virqatslot, pirqatslot>>
  /\ virqs' = [g \in Guests |->
                 IF g \in took \ {current}
                   THEN [virqs[g] EXCEPT ![Smallest(FreeEntries(g))] =
                           [virq |-> V[g], pirq |-> p]]
                   ELSE virqs[g]]

-----------------------------------------------------------------------------
(* Handlers: a trap or an interrupt taken while a guest runs *)

(***************************************************************************)
(* interrupt_service_routine for a guest interrupt: the acknowledge makes  *)
(* p active, guest_interrupt_end only drops the priority, and p is         *)
(* injected into every guest that has enabled it.                          *)
(***************************************************************************)
Targets(p) == {g \in Guests : p \in enabled[g]}

GuestIrq(p) ==
  /\ pc = "guest" /\ p \in forwarded \ active
  /\ active' = active \union {p}
  /\ virq_inject(Targets(p), [g \in Guests |-> Virqmap[g][p]], p)
  /\ pc' = "exit"
  /\ UNCHANGED <<current, status, enabled, forwarded>>

\* interrupt_guest_inject(g, v, 0, INJECT_SW): callback_timer for the running
\* guest, monitor_notify_guest for the monitoring one.  The result is ignored.
SwInject(g, v) ==
  /\ pc = "guest"
  /\ virq_inject({g}, [h \in Guests |-> v], NoIrq)
  /\ pc' = "exit"
  /\ UNCHANGED <<current, status, enabled, forwarded, active>>

(***************************************************************************)
(* handler_F00: the running guest writes GICD_SGIR with target list T.     *)
(* The result is that of the last target, and a trap whose device access   *)
(* fails (no target at all included) never returns.                        *)
(***************************************************************************)
Sgi(T, v) ==
  /\ pc = "guest"
  /\ virq_inject(T, [h \in Guests |-> v], NoIrq)
  /\ pc' = IF T # {} /\ Accepts(CHOOSE g \in T : \A h \in T : h <= g, v)
             THEN "exit" ELSE "abort"
  /\ UNCHANGED <<current, status, enabled, forwarded, active>>

\* Any other trap or host interrupt: it leaves this state alone.
OtherTrap ==
  /\ pc = "guest" /\ pc' = "exit"
  /\ UNCHANGED <<current, lr, status, tables, enabled, forwarded, active>>

(***************************************************************************)
(* _vgic_isr_maintenance_irq: every list register the guest has ended is   *)
(* cleared, its pirq deactivated and its table entries forgotten.          *)
(***************************************************************************)
\* Fault: a list register is cleaned as soon as the guest has taken the virq.
EndedOrActive == {s \in Slots : lr[s].state \in {"active", "eoi"}}

Ended == {s \in Slots : lr[s].state = "eoi"}

Maintenance ==
  /\ pc = "guest" /\ Ended # {}
  /\ lr' = [s \in Slots |-> IF s \in Ended THEN LREmpty ELSE lr[s]]
  /\ active' = active \ {pirqatslot[current][s] : s \in Ended}
  /\ pirqatslot' = [pirqatslot EXCEPT ![current] =
                      [s \in Slots |-> IF s \in Ended THEN NoIrq ELSE @[s]]]
  /\ virqatslot' = [virqatslot EXCEPT ![current] =
                      [s \in Slots |-> IF s \in Ended THEN NoIrq ELSE @[s]]]
  /\ pc' = "exit"
  /\ UNCHANGED <<current, status, virqs, enabled, forwarded>>

(***************************************************************************)
(* vgicd_changed_istatus: the running guest sets or clears the enable bit  *)
(* of the virq that pirq p stands for.  Clearing it stops the distributor  *)
(* but leaves map[p].enabled set.                                          *)
(***************************************************************************)
EnableIrq(p) ==
  /\ pc = "guest" /\ Virqmap[current][p] # NoIrq /\ p \notin forwarded
  /\ forwarded' = forwarded \union {p}
  /\ enabled' = [enabled EXCEPT ![current] = @ \union {p}]
  /\ pc' = "exit"
  /\ UNCHANGED <<current, lr, status, tables, active>>

DisableIrq(p) ==
  /\ pc = "guest" /\ Virqmap[current][p] # NoIrq /\ p \in forwarded
  /\ forwarded' = forwarded \ {p}
  /\ pc' = "exit"
  /\ UNCHANGED <<current, lr, status, tables, enabled, active>>

-----------------------------------------------------------------------------
(* The guest and the virtual CPU interface *)

\* The guest reads GICV_IAR: a pending virq becomes active.
Ack(s) ==
  /\ pc = "guest" /\ lr[s].state = "pending"
  /\ lr' = [lr EXCEPT ![s].state = "active"]
  /\ UNCHANGED <<pc, current, status, tables, enabled, forwarded, active>>

\* The guest writes GICV_EOIR: an active virq ends.
Eoi(s) ==
  /\ pc = "guest" /\ lr[s].state = "active"
  /\ lr' = [lr EXCEPT ![s].state = "eoi"]
  /\ UNCHANGED <<pc, current, status, tables, enabled, forwarded, active>>

-----------------------------------------------------------------------------
(* Trap exit: guest_perform_switch *)

Stay ==
  /\ pc = "exit" /\ current # NoGuest
  /\ pc' = "guest"
  /\ UNCHANGED <<current, lr, status, tables, enabled, forwarded, active>>

\* Fault: interrupt_restore comes before interrupt_save.
SwitchToUnsaved(g) ==
  /\ pc = "exit" /\ g # current
  /\ status' = IF current = NoGuest THEN status
                                    ELSE [status EXCEPT ![current] = status[g]]
  /\ lr' = status[g]
  /\ current' = g
  /\ pc' = "flush"
  /\ UNCHANGED <<tables, enabled, forwarded, active>>

(***************************************************************************)
(* save_and_restore(current, g): interrupt_save, then interrupt_restore up *)
(* to the flush.  The save of the first launch, from VMID_INVALID, goes    *)
(* past the end of vcpu_arr and to no guest's status.                      *)
(***************************************************************************)
SwitchTo(g) ==
  /\ pc = "exit" /\ g # current
  /\ status' = IF current = NoGuest THEN status
                                    ELSE [status EXCEPT ![current] = lr]
  /\ lr' = status[g]
  /\ current' = g
  /\ pc' = "flush"
  /\ UNCHANGED <<tables, enabled, forwarded, active>>

\* Fault: the loop over the queue starts at 1.
QueuedFromOne(g) == (1 .. QueueSize - 1) \ FreeEntries(g)

Queued(g) == Entries \ FreeEntries(g)

\* Fault: an injected entry is not forgotten.
FlushOneKept ==
  /\ pc = "flush" /\ Queued(current) # {} /\ FreeSlots # {}
  /\ LET e == virqs[current][Smallest(Queued(current))] IN
       InjectSlot(current, Smallest(FreeSlots), e.virq, e.pirq)
  /\ UNCHANGED <<pc, current, status, virqs, enabled, forwarded, active>>

(***************************************************************************)
(* vgic_flush_virqs(current), one iteration of the loop: the first valid   *)
(* entry goes to the first free list register.  The loop ends when no      *)
(* entry is valid or, by the break, when no list register is free.         *)
(***************************************************************************)
FlushOne ==
  /\ pc = "flush" /\ Queued(current) # {} /\ FreeSlots # {}
  /\ LET i == Smallest(Queued(current))
         e == virqs[current][i] IN
     /\ InjectSlot(current, Smallest(FreeSlots), e.virq, e.pirq)
     /\ virqs' = [virqs EXCEPT ![current][i] = NoEntry]
  /\ UNCHANGED <<pc, current, status, enabled, forwarded, active>>

FlushDone ==
  /\ pc = "flush" /\ (Queued(current) = {} \/ FreeSlots = {})
  /\ pc' = "guest"
  /\ UNCHANGED <<current, lr, status, tables, enabled, forwarded, active>>

\* hyp_abort_infinite
Abort == pc = "abort" /\ UNCHANGED vars

Next ==
  \/ \E p \in Pirqs : GuestIrq(p) \/ EnableIrq(p) \/ DisableIrq(p)
  \/ \E g \in Guests, v \in SwVirqs : SwInject(g, v)
  \/ \E T \in SUBSET Guests, v \in Sgis : Sgi(T, v)
  \/ \E s \in Slots : Ack(s) \/ Eoi(s)
  \/ \E g \in Guests : SwitchTo(g)
  \/ OtherTrap \/ Maintenance \/ Stay \/ FlushOne \/ FlushDone \/ Abort

Spec == Init /\ [][Next]_vars

-----------------------------------------------------------------------------
(* Invariants *)

TypeOK ==
  /\ pc \in {"guest", "exit", "flush", "abort"}
  /\ current \in Guests \union {NoGuest}
  /\ pc # "exit" => current \in Guests
  /\ lr \in [Slots -> LRs]
  /\ status \in [Guests -> [Slots -> LRs]]
  /\ pirqatslot \in [Guests -> [Slots -> Pirqs \union {NoIrq}]]
  /\ virqatslot \in [Guests -> [Slots -> Virqs \union {NoIrq}]]
  /\ virqs \in [Guests -> [Entries -> QEntries \union {NoEntry}]]
  /\ enabled \in [Guests -> SUBSET Pirqs]
  /\ forwarded \in SUBSET Pirqs
  /\ active \in SUBSET Pirqs

(***************************************************************************)
(* The slot tables of every guest, running or not, describe its list       *)
(* registers: _guest_virqatslot names the virq of each, and a slot that    *)
(* remembers a pirq holds the virq that this guest's map gives the pirq.   *)
(* vgic.c keeps the two apart (the registers are saved and restored, the   *)
(* tables are not) and never compares them.                                *)
(***************************************************************************)
SlotsAgree ==
  \A g \in Guests, s \in Slots :
    /\ virqatslot[g][s] = ListRegs(g)[s].virq
    /\ \A p \in Pirqs : pirqatslot[g][s] = p => Virqmap[g][p] = virqatslot[g][s]

(***************************************************************************)
(* The places that will get pirq p deactivated: a slot whose maintenance   *)
(* interrupt will, or a queue entry that will become such a slot.          *)
(***************************************************************************)
HeldBySlot(p)  == {x \in Guests \X Slots : pirqatslot[x[1]][x[2]] = p}
HeldByEntry(p) == {x \in Guests \X Entries : virqs[x[1]][x[2]] # NoEntry
                                          /\ virqs[x[1]][x[2]].pirq = p}
Held(p) == HeldBySlot(p) # {} \/ HeldByEntry(p) # {}

(***************************************************************************)
(* At most one place holds a pirq, and only while the pirq is active: the  *)
(* hypervisor never writes GICC_DIR for an interrupt that is not active,   *)
(* nor twice for one acknowledge.                                          *)
(***************************************************************************)
OneHolder ==
  \A p \in Pirqs :
    /\ Held(p) => p \in active
    /\ \A x, y \in HeldBySlot(p) : x = y
    /\ \A x, y \in HeldByEntry(p) : x = y
    /\ HeldBySlot(p) = {} \/ HeldByEntry(p) = {}

(***************************************************************************)
(* Two list registers of one guest never hold the virq of the same device, *)
(* which the GIC architecture leaves undefined.  Direct injection takes    *)
(* any free register without looking at the others (vgic.c:189), and the   *)
(* flush does the same; that the first is gone before the pirq can come    *)
(* again is up to the deactivation.                                        *)
(***************************************************************************)
DeviceVirqOnce ==
  \A g \in Guests, p \in Pirqs, s, t \in Slots :
    /\ Virqmap[g][p] # NoIrq
    /\ ListRegs(g)[s].virq = Virqmap[g][p]
    /\ ListRegs(g)[t].virq = Virqmap[g][p]
    => s = t

-----------------------------------------------------------------------------
(* Action properties *)

(***************************************************************************)
(* A physical interrupt is deactivated only when the guest it is routed to *)
(* has ended the virq it stands for, whatever was switched, queued or      *)
(* injected since it was acknowledged.                                     *)
(***************************************************************************)
DeactivatedAfterEoi ==
  [][\A p \in active \ active' :
       \E s \in Slots : /\ lr[s].state = "eoi"
                        /\ lr[s].virq = Virqmap[current][p]]_vars

(***************************************************************************)
(* An active interrupt loses its last holder, and so stays active for      *)
(* ever, only when it arrives while its guest has no place left for it: no *)
(* free list register (the guest runs) or a full queue (it does not).  The *)
(* duplicate check of virq_inject never costs a hardware interrupt, and no *)
(* switch, flush or maintenance interrupt forgets one.                     *)
(***************************************************************************)
Stranded(p) == p \in active /\ ~ Held(p)
NoRoom(g)   == IF g = current THEN FreeSlots = {} ELSE FreeEntries(g) = {}

StrandedOnlyWhenFull ==
  [][\A p \in Pirqs : Stranded(p)' /\ ~ Stranded(p) =>
       \E g \in Guests : Virqmap[g][p] # NoIrq /\ NoRoom(g)]_vars

(***************************************************************************)
(* guest_perform_switch is invisible to every guest: the list registers of *)
(* the guest that leaves, of the guest that enters and of all the others   *)
(* are what they were before it.                                           *)
(***************************************************************************)
SwitchKeepsListRegs ==
  [][pc = "exit" => \A g \in Guests : ListRegs(g)' = ListRegs(g)]_vars

-----------------------------------------------------------------------------
(* A claim of a comment in the code that the code does not keep *)

(***************************************************************************)
(* vgic.c:176-179, "If it's not running guest's interrupt, we save         *)
(* interrupt in _guest_virqs due to preventing loss of the interrupt": a   *)
(* device's interrupt that comes while its guest does not run is kept.     *)
(***************************************************************************)
SavedForLater ==
  [][\A p \in Pirqs : Stranded(p)' /\ ~ Stranded(p) =>
       \A g \in Guests : Virqmap[g][p] # NoIrq => g = current]_vars

-----------------------------------------------------------------------------
(* Liveness *)

(***************************************************************************)
(* The timer ticks and handlers end.  The scheduler gives every guest its  *)
(* turn (Vcpu).  A guest that gets its turns takes and ends its virqs, and *)
(* the maintenance interrupt, a level that is asserted as soon as it runs, *)
(* is taken in one of them.                                                *)
(***************************************************************************)
Runs(g) == current = g

Fairness ==
  /\ WF_vars(OtherTrap) /\ WF_vars(Stay)
  /\ WF_vars(FlushOne) /\ WF_vars(FlushDone)
  /\ \A g \in Guests :
       /\ SF_vars(SwitchTo(g))
       /\ SF_vars(Runs(g) /\ Maintenance)
       /\ \A s \in Slots : SF_vars(Runs(g) /\ Ack(s)) /\ SF_vars(Runs(g) /\ Eoi(s))

FairSpec == Spec /\ Fairness

(***************************************************************************)
(* Every physical interrupt taken for a guest is deactivated in the end,   *)
(* and so can be taken again.  It holds where list registers do not run    *)
(* out; StrandedOnlyWhenFull says what happens where they do.              *)
(***************************************************************************)
PirqReleased == \A p \in Pirqs : p \in active ~> p \notin active

(***************************************************************************)
(* A virq in a queue reaches a list register of its guest.                 *)
(***************************************************************************)
QueueDrains ==
  \A g \in Guests, i \in Entries : virqs[g][i] # NoEntry ~> virqs[g][i] = NoEntry
=============================================================================
