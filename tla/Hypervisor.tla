----------------------------- MODULE Hypervisor -----------------------------
(***************************************************************************)
(* One processor of the hypervisor: the scheduler (Vcpu), interrupt        *)
(* delivery (Vgic), the guests' registers and translation (Context), and   *)
(* what makes them step together: the timer handler (timer.c), the virtual *)
(* timer (vdev_timer.c), the monitor's commands (monitor.c) and the trap   *)
(* exit (trap.c).  An action of the system is one action of each component *)
(* it reaches, so what is proved of Vcpu and of Vgic carries over; the     *)
(* properties of this module are those that need more than one of them.    *)
(***************************************************************************)
EXTENDS Integers

CONSTANTS
  NumGuests, TickReset, TickMod, NoGuest,       \* see Vcpu
  NumLR, QueueSize, Pirqs, Virqmap, Sgis,       \* see Vgic
  NoIrq, NoEntry,
  VTIMER_IRQ,   \* the virq of the virtual timer
  MONITOR_VIRQ  \* the virq that tells the monitoring guest to look

VARIABLES
  pc, current, next, manual, selected, tick, cause,
  lr, status, pirqatslot, virqatslot, virqs, enabled, forwarded, active,
  masked,       \* _timer_status: the guests whose virtual timer is masked
  hw, saved, stage2

schedVars == <<next, manual, selected, tick, cause>>
vgicVars  == <<lr, status, pirqatslot, virqatslot, virqs, enabled, forwarded, active>>
ctxVars   == <<hw, saved, stage2>>
vars      == <<pc, current, schedVars, vgicVars, masked, ctxVars>>

S == INSTANCE Vcpu
G == INSTANCE Vgic WITH Guests <- 0 .. NumGuests - 1,
                        SwVirqs <- {VTIMER_IRQ, MONITOR_VIRQ}

C == INSTANCE Context WITH Guests <- 0 .. NumGuests - 1

Guests == 0 .. NumGuests - 1

\* The guests, the slice and the counter are as Vcpu supposes.
ASSUME HypervisorAssumption ==
  /\ NumGuests \in Nat /\ NumGuests > 1
  /\ TickReset \in Nat /\ TickMod \in Nat /\ TickReset < TickMod
  /\ NoGuest \notin Guests

\* vdev_timer.c:9 and k-hypervisor-config.h: 30 and 20; SGIs are below 16, and
\* no device of setup_interrupt has the virq of the virtual timer.
ASSUME VirqAssumption ==
  /\ VTIMER_IRQ \notin Sgis \union {MONITOR_VIRQ, NoIrq}
  /\ \A g \in Guests, p \in Pirqs : Virqmap[g][p] # VTIMER_IRQ

Init == S!Init /\ G!Init /\ C!Init /\ masked = Guests

-----------------------------------------------------------------------------
(* Traps and interrupts *)

\* Fault: the virtual timer's callback runs behind the choice and goes by it.
TimerIrqNext ==
  /\ S!Tick
  /\ IF next' \in masked THEN G!OtherTrap ELSE G!SwInject(next', VTIMER_IRQ)
  /\ UNCHANGED <<masked, ctxVars>>

(***************************************************************************)
(* timer_handler: guest_schedule chooses the next guest, then              *)
(* callback_timer injects the virtual timer's virq into the guest that was *)
(* running, before the switch.                                             *)
(***************************************************************************)
TimerIrq ==
  /\ S!Tick
  /\ IF current \in masked THEN G!OtherTrap ELSE G!SwInject(current, VTIMER_IRQ)
  /\ UNCHANGED <<masked, ctxVars>>

\* vdev_vtimer_access_handler: the guest writes its mask register.
VtimerMask   == S!OtherTrap /\ G!OtherTrap /\ masked' = masked \union {current} /\ C!Keep
VtimerUnmask == S!OtherTrap /\ G!OtherTrap /\ masked' = masked \ {current} /\ C!Keep

Yield == S!Yield /\ G!OtherTrap /\ UNCHANGED <<masked, ctxVars>>

\* monitor_break_guest: the running guest met a breakpoint.
MonitorBreak ==
  S!MonitorStop /\ G!SwInject(S!MonitorVmid, MONITOR_VIRQ) /\ UNCHANGED <<masked, ctxVars>>

\* Fault: guest_switchto is not called.
MonitorStopLater ==
  /\ S!Handler("none") /\ G!OtherTrap
  /\ manual' = TRUE /\ selected' = S!MonitorVmid
  /\ UNCHANGED <<next, tick, masked, ctxVars>>

\* The commands of the monitoring guest: stop, run, and those that answer
\* through shared memory and monitor_notify_guest.
MonitorStop   == S!MonitorStop /\ G!OtherTrap /\ UNCHANGED <<masked, ctxVars>>
MonitorRun    == S!MonitorRun /\ G!OtherTrap /\ UNCHANGED <<masked, ctxVars>>
MonitorNotify ==
  S!OtherTrap /\ G!SwInject(S!MonitorVmid, MONITOR_VIRQ) /\ UNCHANGED <<masked, ctxVars>>

\* Interrupts and distributor accesses that the scheduler does not see.
DeviceIrq(p)   == S!OtherTrap /\ G!GuestIrq(p) /\ UNCHANGED <<masked, ctxVars>>
Maintenance    == S!OtherTrap /\ G!Maintenance /\ UNCHANGED <<masked, ctxVars>>
EnableIrq(p)   == S!OtherTrap /\ G!EnableIrq(p) /\ UNCHANGED <<masked, ctxVars>>
DisableIrq(p)  == S!OtherTrap /\ G!DisableIrq(p) /\ UNCHANGED <<masked, ctxVars>>

\* A write of GICD_SGIR, which returns to the guest or stops the system.
Sgi(T, v) == G!Sgi(T, v) /\ UNCHANGED <<schedVars, masked, ctxVars>>

-----------------------------------------------------------------------------
(* The guest, and the return to it *)

Ack(s) == G!Ack(s) /\ UNCHANGED <<schedVars, masked, ctxVars>>
Eoi(s) == G!Eoi(s) /\ UNCHANGED <<schedVars, masked, ctxVars>>

\* guest_perform_switch with save_and_restore.
Stay   == S!Stay /\ G!Stay /\ UNCHANGED <<masked, ctxVars>>
Launch == S!Launch /\ G!SwitchTo(next) /\ C!Leave(current) /\ UNCHANGED masked
Switch == S!Switch /\ G!SwitchTo(next) /\ C!Leave(current) /\ UNCHANGED masked

FlushOne == G!FlushOne /\ UNCHANGED <<schedVars, masked, ctxVars>>
Restore  == S!Restore /\ G!FlushDone /\ C!Enter(current) /\ UNCHANGED masked

Abort == pc = "abort" /\ UNCHANGED vars

Next ==
  \/ TimerIrq \/ VtimerMask \/ VtimerUnmask \/ Yield
  \/ MonitorBreak \/ MonitorStop \/ MonitorRun \/ MonitorNotify
  \/ \E p \in Pirqs : DeviceIrq(p) \/ EnableIrq(p) \/ DisableIrq(p)
  \/ \E T \in SUBSET Guests, v \in Sgis : Sgi(T, v)
  \/ \E s \in G!Slots : Ack(s) \/ Eoi(s)
  \/ Maintenance \/ Stay \/ Launch \/ Switch \/ FlushOne \/ Restore \/ Abort

Spec == Init /\ [][Next]_vars

-----------------------------------------------------------------------------
(* Properties of the whole *)

(***************************************************************************)
(* The places where guest g holds an interrupt of its virtual timer.       *)
(***************************************************************************)
VtimerSlots(g)   == {s \in G!Slots : G!ListRegs(g)[s].virq = VTIMER_IRQ}
VtimerEntries(g) == {i \in G!Entries : virqs[g][i] # NoEntry
                                     /\ virqs[g][i].virq = VTIMER_IRQ}

(***************************************************************************)
(* Virtual time is a guest's own: a list register or a queue entry of      *)
(* guest g comes to hold a virtual timer interrupt only in a trap taken    *)
(* from g, while g has its timer unmasked.  The timer handler chooses the  *)
(* next guest before it injects the tick, and a tick that went to that     *)
(* guest would wait in its queue; none ever does, and no switch, flush or  *)
(* other injection brings one.                                             *)
(***************************************************************************)
TicksToRunner ==
  [][\A g \in Guests :
       ~ (VtimerSlots(g)' \subseteq VtimerSlots(g) /\ VtimerEntries(g)' = {}) =>
         pc = "guest" /\ current = g /\ g \notin masked]_vars

(***************************************************************************)
(* A guest runs in its own context: every register holds its own latest    *)
(* value, or for the first guest that of the boot code, the stage-2 tables *)
(* are its own, and the registers of every other guest are all saved.      *)
(***************************************************************************)
OwnContext ==
  pc = "guest" =>
    /\ stage2 = current
    /\ \A r \in C!Regs : hw[r] \in {current} \union (IF r \in C!Frame THEN {} ELSE {NoGuest})
    /\ \A g \in Guests \ {current} : saved[g] = C!Regs

(***************************************************************************)
(* A guest the monitor has stopped is out of reach of time: from the trap  *)
(* that leaves the monitor's guest running until a run command, no list    *)
(* register of another guest changes and no virtual timer tick reaches it. *)
(***************************************************************************)
StoppedGuestFrozen ==
  [][manual /\ manual' /\ pc = "guest" =>
       \A g \in Guests \ {S!MonitorVmid} : G!ListRegs(g)' = G!ListRegs(g)]_vars

=============================================================================
