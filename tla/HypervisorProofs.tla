--------------------------- MODULE HypervisorProofs ---------------------------
(***************************************************************************)
(* Proofs about the whole processor: each guest runs in its own context,   *)
(* virtual timer ticks go to the guest whose time they count, and nothing  *)
(* reaches a stopped guest.  The invariant of the scheduler carries over   *)
(* from VcpuProofs.                                                        *)
(***************************************************************************)
EXTENDS Hypervisor, TLAPS, WellFoundedInduction

\* The scheduler with its invariant; to it a stopped hypervisor is a guest that never
\* traps again.
SP == INSTANCE VcpuProofs WITH pc <- IF pc = "abort" THEN "guest" ELSE pc

-----------------------------------------------------------------------------
(* The scheduler *)

\* The assumption of Vcpu holds of its instance.
LEMMA VcpuHolds == SP!VcpuAssumption
BY HypervisorAssumption DEF SP!VcpuAssumption, SP!Guests, Guests

(***************************************************************************)
(* An action of the scheduler is the same action under the mapping, which  *)
(* changes pc only where it is "abort".                                    *)
(***************************************************************************)
LEMMA SchedHandlers ==
  /\ S!Tick => SP!Tick
  /\ S!Yield => SP!Yield
  /\ S!MonitorStop => SP!MonitorStop
  /\ S!MonitorRun => SP!MonitorRun
  /\ S!OtherTrap => SP!OtherTrap
<1> USE DEF S!Handler, SP!Handler
<1>1. S!Choose => SP!Choose
  BY DEF S!Choose, SP!Choose, S!Dec, SP!Dec, S!Successor, SP!Successor
<1>2. (S!Tick => SP!Tick) /\ (S!Yield => SP!Yield)
  BY <1>1 DEF S!Tick, SP!Tick, S!Yield, SP!Yield
<1>3. (S!MonitorStop => SP!MonitorStop) /\ (S!MonitorRun => SP!MonitorRun)
  BY DEF S!MonitorStop, SP!MonitorStop, S!MonitorVmid, SP!MonitorVmid,
         S!MonitorRun, SP!MonitorRun, S!TargetVmid, SP!TargetVmid
<1>4. S!OtherTrap => SP!OtherTrap
  BY DEF S!OtherTrap, SP!OtherTrap
<1> QED
  BY <1>2, <1>3, <1>4

\* The same of guest_perform_switch and of the end of save_and_restore.
LEMMA SchedExits ==
  /\ S!Stay => SP!Stay
  /\ S!Launch => SP!Launch
  /\ S!Switch => SP!Switch
  /\ S!Restore => SP!Restore
BY DEF S!Stay, SP!Stay, S!Launch, SP!Launch, S!Switch, SP!Switch,
       S!Restore, SP!Restore

\* Every step of the processor is a step of the scheduler, or none to it.
LEMMA SchedStep == [Next]_vars => [SP!Next]_SP!vars
<1> SUFFICES ASSUME [Next]_vars PROVE [SP!Next]_SP!vars
  OBVIOUS
<1> USE SchedHandlers, SchedExits DEF SP!Next
<1>1. CASE TimerIrq \/ Yield
  BY <1>1 DEF TimerIrq, Yield
<1>2. CASE MonitorBreak \/ MonitorStop \/ MonitorRun
  BY <1>2 DEF MonitorBreak, MonitorStop, MonitorRun
<1>3. CASE VtimerMask \/ VtimerUnmask \/ MonitorNotify \/ Maintenance
  BY <1>3 DEF VtimerMask, VtimerUnmask, MonitorNotify, Maintenance
<1>4. CASE \E p \in Pirqs : DeviceIrq(p) \/ EnableIrq(p) \/ DisableIrq(p)
  BY <1>4 DEF DeviceIrq, EnableIrq, DisableIrq
<1>5. CASE \E T \in SUBSET Guests, v \in Sgis : Sgi(T, v)
  <2>1. PICK T \in SUBSET Guests, v \in Sgis : Sgi(T, v)
    BY <1>5
  <2>2. /\ pc = "guest" /\ pc' \in {"exit", "abort"}
        /\ UNCHANGED <<current, schedVars>>
    BY <2>1 DEF Sgi, G!Sgi
  <2>3. CASE pc' = "exit"
    BY <2>2, <2>3 DEF SP!OtherTrap, SP!Handler, schedVars
  <2>4. CASE pc' = "abort"
    BY <2>2, <2>4 DEF SP!vars, schedVars
  <2> QED
    BY <2>2, <2>3, <2>4
<1>6. CASE \E s \in G!Slots : Ack(s) \/ Eoi(s)
  BY <1>6 DEF Ack, Eoi, G!Ack, G!Eoi, schedVars, SP!vars
<1>7. CASE Stay \/ Launch \/ Switch \/ Restore
  BY <1>7 DEF Stay, Launch, Switch, Restore
<1>8. CASE FlushOne
  BY <1>8 DEF FlushOne, G!FlushOne, schedVars, SP!vars
<1>9. CASE Abort \/ UNCHANGED vars
  BY <1>9 DEF Abort, vars, schedVars, SP!vars
<1> QED
  BY <1>1, <1>2, <1>3, <1>4, <1>5, <1>6, <1>7, <1>8, <1>9 DEF Next

\* So its invariant holds of the processor.
LEMMA SchedInv == Spec => []SP!IInv
<1>1. Init => SP!Init
  BY DEF Init, S!Init, SP!Init, S!Guests, SP!Guests
<1>2. Spec => SP!Spec
  BY <1>1, SchedStep, PTL DEF Spec, SP!Spec
<1>3. SP!Spec => []SP!IInv
  BY VcpuHolds, SP!Invariance
<1> QED
  BY <1>2, <1>3, PTL

(***************************************************************************)
(* What the rest needs of it: there is a guest except before the first     *)
(* launch, which has one to go to, and only the monitor's guest runs while *)
(* the system is stopped.                                                  *)
(***************************************************************************)
Running ==
  /\ current \in Guests \union {NoGuest}
  /\ pc # "exit" => current \in Guests
  /\ next \in Guests \union {NoGuest}
  /\ current = NoGuest => next \in Guests
  /\ manual /\ pc = "guest" => current = S!MonitorVmid

\* It follows from the invariant of the scheduler.
LEMMA SchedRunning == SP!IInv => Running
<1> SUFFICES ASSUME SP!IInv PROVE Running
  OBVIOUS
<1> USE HypervisorAssumption DEF SP!IInv, SP!TypeOK, SP!Launched, SP!Guests, Guests
<1>1. /\ current \in Guests \union {NoGuest}
      /\ next \in Guests \union {NoGuest}
      /\ current = NoGuest => next \in Guests
  OBVIOUS
<1>2. pc # "exit" => current \in Guests
  OBVIOUS
<1>3. ASSUME manual, pc = "guest" PROVE current = S!MonitorVmid
  <2>1. SP!MonitorVmid \in Guests /\ SP!MonitorVmid = S!MonitorVmid
    BY DEF SP!MonitorVmid, S!MonitorVmid
  <2>2. next \in {NoGuest, current}
    BY <1>3
  <2>3. \/ next = SP!MonitorVmid
        \/ current = SP!MonitorVmid
    BY <1>3 DEF SP!Stopped
  <2> QED
    BY <2>1, <2>2, <2>3
<1> QED
  BY <1>1, <1>2, <1>3 DEF Running

\* And so it holds whatever the processor does.
LEMMA AlwaysRunning == Spec => []Running
BY SchedInv, SchedRunning, PTL

-----------------------------------------------------------------------------
(* Interrupt delivery *)

\* Every step of the processor is a step of Vgic.
LEMMA VgicStep == Running /\ [Next]_vars => [G!Next]_G!vars
<1> SUFFICES ASSUME Running, [Next]_vars PROVE [G!Next]_G!vars
  OBVIOUS
<1> USE DEF G!Next, Guests
<1>1. pc = "guest" => current \in Guests
  BY DEF Running
<1>2. S!MonitorVmid \in Guests
  BY HypervisorAssumption DEF S!MonitorVmid
<1>3. CASE TimerIrq
  BY <1>1, <1>3 DEF TimerIrq, S!Tick, S!Handler
<1>4. CASE MonitorBreak \/ MonitorNotify
  BY <1>2, <1>4 DEF MonitorBreak, MonitorNotify
<1>5. CASE VtimerMask \/ VtimerUnmask \/ Yield \/ MonitorStop \/ MonitorRun
  BY <1>5 DEF VtimerMask, VtimerUnmask, Yield, MonitorStop, MonitorRun
<1>6. CASE \E p \in Pirqs : DeviceIrq(p) \/ EnableIrq(p) \/ DisableIrq(p)
  BY <1>6 DEF DeviceIrq, EnableIrq, DisableIrq
<1>7. CASE \E T \in SUBSET Guests, v \in Sgis : Sgi(T, v)
  BY <1>7 DEF Sgi
<1>8. CASE \E s \in G!Slots : Ack(s) \/ Eoi(s)
  BY <1>8 DEF Ack, Eoi
<1>9. CASE Launch \/ Switch
  <2>1. next \in Guests
    BY <1>9 DEF Launch, Switch, S!Launch, S!Switch, Running
  <2> QED
    BY <1>9, <2>1 DEF Launch, Switch
<1>10. CASE Maintenance \/ Stay \/ FlushOne \/ Restore
  BY <1>10 DEF Maintenance, Stay, FlushOne, Restore
<1>11. CASE Abort \/ UNCHANGED vars
  BY <1>11 DEF Abort, vars, vgicVars, G!vars, G!tables
<1> QED
  BY <1>3, <1>4, <1>5, <1>6, <1>7, <1>8, <1>9, <1>10, <1>11 DEF Next

-----------------------------------------------------------------------------
(* Stopped guests *)

\* While the monitor's guest runs, a step changes no list register but its own.
LEMMA FrozenStep ==
  Running /\ [Next]_vars =>
    (manual /\ manual' /\ pc = "guest" =>
       \A g \in Guests \ {S!MonitorVmid} : G!ListRegs(g)' = G!ListRegs(g))
<1> SUFFICES ASSUME Running, [Next]_vars, manual, pc = "guest",
                    NEW g \in Guests \ {S!MonitorVmid}
             PROVE  G!ListRegs(g)' = G!ListRegs(g)
  OBVIOUS
<1>1. g # current
  BY DEF Running
<1>2. SUFFICES UNCHANGED <<current, status>>
  BY <1>1 DEF G!ListRegs
<1>3. [G!Next]_G!vars
  BY VgicStep
<1> QED
  BY <1>3 DEF G!Next, G!vars, G!GuestIrq, G!EnableIrq, G!DisableIrq, G!SwInject, G!Sgi,
              G!Ack, G!Eoi, G!SwitchTo, G!OtherTrap, G!Maintenance, G!Stay, G!FlushOne,
              G!FlushDone, G!Abort

\* Nothing reaches the list registers of a stopped guest.
THEOREM StoppedGuestsFrozen == Spec => StoppedGuestFrozen
BY FrozenStep, AlwaysRunning, PTL DEF Spec, StoppedGuestFrozen
-----------------------------------------------------------------------------
(* Virtual timers *)

\* The virqs of the system, and the contents of its list registers and queues; no entry
\* of a queue is one of the virtual timer.
AllVirqs == G!Virqs \union {NoIrq}
Regs     == [state : {"invalid", "pending", "active", "eoi"}, virq : AllVirqs]
Quiet    == {NoEntry} \union [virq : AllVirqs \ {VTIMER_IRQ}, pirq : Pirqs \union {NoIrq}]

TickInv ==
  /\ lr \in [G!Slots -> Regs]
  /\ status \in [Guests -> [G!Slots -> Regs]]
  /\ virqs \in [Guests -> [G!Entries -> Quiet]]

\* The list registers of guest g gain no virtual timer interrupt in this step.
Gains(g) == ~ (VtimerSlots(g)' \subseteq VtimerSlots(g))

\* At first nothing is pending anywhere.
LEMMA InitTick == Init => TickInv
BY DEF Init, G!Init, TickInv, Regs, Quiet, AllVirqs, G!LREmpty, Guests

(***************************************************************************)
(* virq_inject fills one list register of the running guest with its virq, *)
(* and queues of the others with theirs.                                   *)
(***************************************************************************)
LEMMA InjectTick ==
  ASSUME TickInv, current \in Guests, NEW T \in SUBSET Guests,
         NEW V \in [Guests -> AllVirqs], NEW p \in Pirqs \union {NoIrq},
         \A g \in T \ {current} : V[g] # VTIMER_IRQ,
         G!virq_inject(T, V, p), UNCHANGED <<current, status>>
  PROVE  /\ TickInv'
         /\ \A g \in Guests : Gains(g) => g = current /\ g \in T /\ V[g] = VTIMER_IRQ
<1> DEFINE s == G!Smallest(G!FreeSlots)
           new == [state |-> "pending", virq |-> V[current]]
<1>1. \/ lr' = lr
      \/ current \in T /\ lr' = [lr EXCEPT ![s] = new]
  BY DEF G!virq_inject, G!InjectSlot
<1>2. new \in Regs
  BY DEF Regs
<1>3. lr' \in [G!Slots -> Regs]
  BY <1>1, <1>2 DEF TickInv
<1>4. virqs' \in [Guests -> [G!Entries -> Quiet]]
  <2>1. PICK took \in SUBSET T :
          virqs' = [g \in Guests |->
                      IF g \in took \ {current}
                        THEN [virqs[g] EXCEPT ![G!Smallest(G!FreeEntries(g))] =
                                [virq |-> V[g], pirq |-> p]]
                        ELSE virqs[g]]
    BY DEF G!virq_inject, Guests
  <2>2. \A g \in took \ {current} : [virq |-> V[g], pirq |-> p] \in Quiet
    BY DEF Quiet
  <2> QED
    BY <2>1, <2>2 DEF TickInv
<1>5. TickInv'
  BY <1>3, <1>4 DEF TickInv
<1>6. ASSUME NEW g \in Guests, Gains(g)
      PROVE  g = current /\ g \in T /\ V[g] = VTIMER_IRQ
  <2>1. PICK t \in G!Slots : G!ListRegs(g)'[t].virq = VTIMER_IRQ
                             /\ G!ListRegs(g)[t].virq # VTIMER_IRQ
    BY <1>6 DEF Gains, VtimerSlots
  <2>2. g = current /\ lr'[t].virq = VTIMER_IRQ /\ lr[t].virq # VTIMER_IRQ
    BY <2>1 DEF G!ListRegs
  <2>3. current \in T /\ lr' = [lr EXCEPT ![s] = new]
    BY <1>1, <2>2
  <2>4. lr'[t] = new
    BY <2>2, <2>3 DEF TickInv
  <2> QED
    BY <2>2, <2>3, <2>4
<1> QED
  BY <1>5, <1>6

\* A step that leaves list registers and queues alone.
LEMMA KeepTick ==
  ASSUME TickInv, UNCHANGED <<current, lr, status, virqs>>
  PROVE  TickInv' /\ \A g \in Guests : ~ Gains(g)
BY DEF TickInv, Gains, VtimerSlots, G!ListRegs

\* A step of the running guest's list registers in which none gets that virq.
LEMMA RegsTick ==
  ASSUME TickInv, UNCHANGED <<current, status, virqs>>, lr' \in [G!Slots -> Regs],
         \A s \in G!Slots : lr'[s].virq = VTIMER_IRQ => lr[s].virq = VTIMER_IRQ
  PROVE  TickInv' /\ \A g \in Guests : ~ Gains(g)
BY DEF TickInv, Gains, VtimerSlots, G!ListRegs

\* save_and_restore moves the list registers, and its flush brings in what was queued.
LEMMA SwitchTick ==
  ASSUME TickInv, Running, G!SwitchTo(next), next \in Guests
  PROVE  TickInv' /\ \A g \in Guests : ~ Gains(g)
<1>1. /\ lr' = status[next] /\ current' = next /\ virqs' = virqs /\ next # current
      /\ status' = IF current = NoGuest THEN status ELSE [status EXCEPT ![current] = lr]
  BY DEF G!SwitchTo, G!tables
<1>2. TickInv'
  BY <1>1 DEF TickInv, Running
<1>3. \A g \in Guests : G!ListRegs(g)' = G!ListRegs(g)
  BY <1>1, HypervisorAssumption DEF G!ListRegs, TickInv, Running, Guests
<1> QED
  BY <1>2, <1>3 DEF Gains, VtimerSlots

\* The search for the first valid entry finds one when there is one.
LEMMA SmallestEntry ==
  ASSUME NEW E, E \subseteq Nat, E # {}
  PROVE  G!Smallest(E) \in E
<1> DEFINE R == OpToRel(<, Nat)
<1>1. IsWellFoundedOn(R, Nat)
  BY NatLessThanWellFounded
<1>2. \A x, y \in Nat : <<y, x>> \notin R => x <= y
  BY SMT DEF OpToRel
<1> HIDE DEF R
<1>3. PICK x \in E : \A y \in E : <<y, x>> \notin R
  BY <1>1, WFMin, Zenon
<1>4. \A y \in E : x <= y
  BY <1>2, <1>3, Zenon
<1> QED
  BY <1>4 DEF G!Smallest

LEMMA FlushTick ==
  ASSUME TickInv, current \in Guests, G!FlushOne
  PROVE  TickInv' /\ \A g \in Guests : ~ Gains(g)
<1> DEFINE i == G!Smallest(G!Queued(current))
           s == G!Smallest(G!FreeSlots)
           new == [state |-> "pending", virq |-> virqs[current][i].virq]
<1>1. /\ lr' = [lr EXCEPT ![s] = new]
      /\ virqs' = [virqs EXCEPT ![current][i] = NoEntry]
      /\ UNCHANGED <<current, status>>
  BY DEF G!FlushOne, G!InjectSlot
<1>2. i \in G!Queued(current)
  <2>1. G!Queued(current) # {} /\ G!Queued(current) \subseteq Nat
    BY DEF G!FlushOne, G!Queued, G!Entries
  <2> QED
    BY <2>1, SmallestEntry
<1>3. virqs[current][i] \in Quiet \ {NoEntry}
  BY <1>2 DEF G!Queued, G!FreeEntries, TickInv
<1>4. new \in Regs /\ new.virq # VTIMER_IRQ
  BY <1>3 DEF Regs, Quiet
<1>5. TickInv'
  BY <1>1, <1>4 DEF TickInv, Quiet
<1>6. \A t \in G!Slots : lr'[t].virq = VTIMER_IRQ => lr[t].virq = VTIMER_IRQ
  BY <1>1, <1>4 DEF TickInv
<1> QED
  BY <1>1, <1>5, <1>6 DEF Gains, VtimerSlots, G!ListRegs

\* Every step keeps the queues free of ticks, and only a tick brings one.
LEMMA StepTick ==
  Running /\ TickInv /\ [Next]_vars =>
    TickInv' /\ \A g \in Guests : Gains(g) => pc = "guest" /\ current = g /\ g \notin masked
<1> SUFFICES ASSUME Running, TickInv, [Next]_vars
             PROVE  TickInv' /\ \A g \in Guests :
                      Gains(g) => pc = "guest" /\ current = g /\ g \notin masked
  OBVIOUS
<1>1. pc = "guest" => current \in Guests
  BY DEF Running
<1>2. /\ VTIMER_IRQ \in AllVirqs /\ MONITOR_VIRQ \in AllVirqs /\ MONITOR_VIRQ # VTIMER_IRQ
      /\ \A v \in Sgis : v \in AllVirqs /\ v # VTIMER_IRQ
      /\ \A g \in Guests, p \in Pirqs : Virqmap[g][p] \in AllVirqs
                                        /\ Virqmap[g][p] # VTIMER_IRQ
  BY VirqAssumption DEF AllVirqs, G!Virqs, G!HwVirqs, Guests
<1>4. CASE TimerIrq
  <2>1. pc = "guest" /\ current \in Guests
    BY <1>1, <1>4 DEF TimerIrq, S!Tick, S!Handler
  <2>2. CASE current \in masked
    BY <1>4, <2>2, KeepTick DEF TimerIrq, G!OtherTrap, G!tables
  <2>3. CASE current \notin masked
    <3>1. /\ G!virq_inject({current}, [h \in Guests |-> VTIMER_IRQ], NoIrq)
          /\ UNCHANGED <<current, status>>
      BY <1>4, <2>3 DEF TimerIrq, G!SwInject, Guests
    <3>2. [h \in Guests |-> VTIMER_IRQ] \in [Guests -> AllVirqs]
      BY <1>2
    <3>3. TickInv' /\ \A g \in Guests : Gains(g) => g = current
      BY <2>1, <3>1, <3>2, InjectTick
    <3> QED
      BY <2>1, <2>3, <3>3
  <2> QED
    BY <2>2, <2>3
<1>5. CASE MonitorBreak \/ MonitorNotify
  <2>1. /\ pc = "guest" /\ current \in Guests
        /\ G!virq_inject({S!MonitorVmid}, [h \in Guests |-> MONITOR_VIRQ], NoIrq)
        /\ UNCHANGED <<current, status>>
    BY <1>1, <1>5 DEF MonitorBreak, MonitorNotify, G!SwInject, Guests
  <2>2. [h \in Guests |-> MONITOR_VIRQ] \in [Guests -> AllVirqs]
    BY <1>2
  <2>3. S!MonitorVmid \in Guests
    BY HypervisorAssumption DEF S!MonitorVmid, Guests
  <2>4. \A g \in Guests : [h \in Guests |-> MONITOR_VIRQ][g] # VTIMER_IRQ
    BY <1>2
  <2> QED
    BY <2>1, <2>2, <2>3, <2>4, InjectTick
<1>6. ASSUME NEW p \in Pirqs, DeviceIrq(p)
      PROVE  TickInv' /\ \A g \in Guests : ~ Gains(g)
  <2>1. /\ pc = "guest" /\ current \in Guests
        /\ G!virq_inject(G!Targets(p), [g \in Guests |-> Virqmap[g][p]], p)
        /\ UNCHANGED <<current, status>>
    BY <1>1, <1>6 DEF DeviceIrq, G!GuestIrq, Guests
  <2>2. [g \in Guests |-> Virqmap[g][p]] \in [Guests -> AllVirqs]
    BY <1>2
  <2>3. G!Targets(p) \in SUBSET Guests
    BY DEF G!Targets, Guests
  <2>4. \A g \in Guests : [h \in Guests |-> Virqmap[h][p]][g] # VTIMER_IRQ
    BY <1>2
  <2> QED
    BY <2>1, <2>2, <2>3, <2>4, InjectTick
<1>7. ASSUME NEW T \in SUBSET Guests, NEW v \in Sgis, Sgi(T, v)
      PROVE  TickInv' /\ \A g \in Guests : ~ Gains(g)
  <2>1. /\ pc = "guest" /\ current \in Guests
        /\ G!virq_inject(T, [h \in Guests |-> v], NoIrq)
        /\ UNCHANGED <<current, status>>
    BY <1>1, <1>7 DEF Sgi, G!Sgi, Guests
  <2>2. [h \in Guests |-> v] \in [Guests -> AllVirqs]
    BY <1>2
  <2>3. \A g \in Guests : [h \in Guests |-> v][g] # VTIMER_IRQ
    BY <1>2
  <2> QED
    BY <2>1, <2>2, <2>3, InjectTick
<1>8. ASSUME NEW s \in G!Slots, Ack(s) \/ Eoi(s)
      PROVE  TickInv' /\ \A g \in Guests : ~ Gains(g)
  <2>1. PICK st \in {"active", "eoi"} : lr' = [lr EXCEPT ![s].state = st]
    BY <1>8 DEF Ack, Eoi, G!Ack, G!Eoi
  <2>2. UNCHANGED <<current, status, virqs>>
    BY <1>8 DEF Ack, Eoi, G!Ack, G!Eoi, G!tables
  <2>3. /\ lr' \in [G!Slots -> Regs]
        /\ \A t \in G!Slots : lr'[t].virq = lr[t].virq
    BY <2>1 DEF TickInv, Regs
  <2> QED
    BY <2>2, <2>3, RegsTick
<1>9. CASE Maintenance
  <2>1. /\ lr' = [s \in G!Slots |-> IF s \in G!Ended THEN G!LREmpty ELSE lr[s]]
        /\ UNCHANGED <<current, status, virqs>>
    BY <1>9 DEF Maintenance, G!Maintenance
  <2>2. G!LREmpty \in Regs /\ G!LREmpty.virq # VTIMER_IRQ
    BY VirqAssumption DEF G!LREmpty, Regs, AllVirqs
  <2>3. /\ lr' \in [G!Slots -> Regs]
        /\ \A t \in G!Slots : lr'[t].virq = VTIMER_IRQ => lr[t].virq = VTIMER_IRQ
    BY <2>1, <2>2 DEF TickInv
  <2> QED
    BY <2>1, <2>3, RegsTick
<1>10. CASE Launch \/ Switch
  <2>1. G!SwitchTo(next) /\ next \in Guests
    BY <1>10 DEF Launch, Switch, S!Launch, S!Switch, Running
  <2> QED
    BY <2>1, SwitchTick
<1>11. CASE FlushOne
  <2>1. G!FlushOne /\ current \in Guests
    BY <1>11 DEF FlushOne, G!FlushOne, Running
  <2> QED
    BY <2>1, FlushTick
<1>12. CASE \/ VtimerMask \/ VtimerUnmask \/ Yield \/ MonitorStop \/ MonitorRun
            \/ \E p \in Pirqs : EnableIrq(p) \/ DisableIrq(p)
            \/ Stay \/ Restore \/ Abort \/ UNCHANGED vars
  <2>1. UNCHANGED <<current, lr, status, virqs>>
    BY <1>12 DEF VtimerMask, VtimerUnmask, Yield, MonitorStop, MonitorRun, EnableIrq,
                 DisableIrq, Stay, Restore, Abort, vars, vgicVars, G!OtherTrap, G!EnableIrq,
                 G!DisableIrq, G!Stay, G!FlushDone, G!tables
  <2> QED
    BY <2>1, KeepTick
<1> QED
  BY <1>4, <1>5, <1>6, <1>7, <1>8, <1>9, <1>10, <1>11, <1>12 DEF Next

(***************************************************************************)
(* A guest comes to hold a virtual timer interrupt only in a trap taken    *)
(* from it while its timer is unmasked: none waits in a queue, and none    *)
(* goes to the guest that the same timer interrupt chose to run next.      *)
(***************************************************************************)
THEOREM TimeIsOwn == Spec => TicksToRunner
<1>1. Running /\ TickInv /\ TickInv' /\ [Next]_vars =>
        [\A g \in Guests :
           ~ (VtimerSlots(g)' \subseteq VtimerSlots(g) /\ VtimerEntries(g)' = {}) =>
             pc = "guest" /\ current = g /\ g \notin masked]_vars
  <2> SUFFICES ASSUME Running, TickInv, TickInv', Next, NEW g \in Guests,
                      ~ (VtimerSlots(g)' \subseteq VtimerSlots(g) /\ VtimerEntries(g)' = {})
               PROVE  pc = "guest" /\ current = g /\ g \notin masked
    OBVIOUS
  <2>1. VtimerEntries(g)' = {}
    <3> SUFFICES ASSUME NEW i \in G!Entries, virqs'[g][i] # NoEntry
                 PROVE  virqs'[g][i].virq # VTIMER_IRQ
      BY DEF VtimerEntries
    <3> QED
      BY DEF TickInv, Quiet
  <2>2. Gains(g)
    BY <2>1 DEF Gains
  <2> QED
    BY <2>2, StepTick
<1>2. Spec => []TickInv
  BY InitTick, StepTick, AlwaysRunning, PTL DEF Spec
<1> QED
  BY <1>1, <1>2, AlwaysRunning, PTL DEF Spec, TicksToRunner

-----------------------------------------------------------------------------
(* Contexts *)

\* The registers of guest g, which runs or has just trapped: own values (or, until it is
\* switched out for the first time, those of the boot code), and all others are saved.
Owns(g) ==
  /\ stage2 = g
  /\ \A r \in C!Regs : hw[r] \in {g} \union (IF r \in C!Frame THEN {} ELSE {NoGuest})
  /\ \A h \in Guests \ {g} : saved[h] = C!Regs

\* Before the first launch, and while it has not restored anything yet.
Fresh == \A r \in C!Regs : hw[r] = NoGuest

CtxInv ==
  /\ hw \in [C!Regs -> Guests \union {NoGuest}]
  /\ saved \in [Guests -> SUBSET C!Regs]
  /\ current = NoGuest => Fresh
  /\ current = NoGuest \/ pc = "flush" => \A g \in Guests : saved[g] = C!Regs
  /\ current # NoGuest /\ pc # "flush" => Owns(current)
  /\ pc = "flush" => Fresh \/ ~ C!First

\* The boot code's registers, and contexts filled by guest_hw_init.
LEMMA InitCtx == Init => CtxInv
<1> SUFFICES ASSUME Init PROVE CtxInv
  OBVIOUS
<1>1. pc = "exit" /\ current = NoGuest
  BY DEF Init, S!Init
<1>2. hw = [r \in C!Regs |-> NoGuest] /\ saved = [g \in Guests |-> C!Regs]
  BY DEF Init, C!Init, Guests
<1> QED
  BY <1>1, <1>2 DEF CtxInv, Fresh

\* The other steps are out of sight.
LEMMA KeepCtx ==
  ASSUME CtxInv, UNCHANGED ctxVars, current' = current, pc' = "flush" <=> pc = "flush"
  PROVE  CtxInv'
BY DEF CtxInv, ctxVars, Fresh, Owns, C!First

\* The parts in which guest_hw_save and guest_hw_restore go through the registers.
LEMMA RegsParts == C!Regs = C!Frame \union C!Vmpidr \union C!Cops \union C!Banked /\ C!Frame # {}
BY DEF C!Regs, C!Frame

\* save_and_restore, up to the change of the guest.
LEMMA LeaveCtx ==
  ASSUME Running, CtxInv, C!Leave(current), pc = "exit", pc' = "flush", current' \in Guests
  PROVE  CtxInv'
<1> USE DEF CtxInv
<1>1. current' # NoGuest
  BY HypervisorAssumption DEF Guests
<1>2. CASE current = NoGuest
  <2>1. C!First
    BY <1>2, RegsParts DEF Fresh, C!First
  <2>2. UNCHANGED <<hw, saved>>
    BY <2>1 DEF C!Leave, C!SaveNothing
  <2> QED
    BY <1>1, <1>2, <2>2 DEF Fresh
<1>3. CASE current # NoGuest
  <2>1. current \in Guests /\ Owns(current)
    BY <1>3 DEF Running
  <2>2. ~ C!First
    <3>1. PICK r \in C!Frame : TRUE
      BY RegsParts
    <3>2. hw[r] = current
      BY <2>1, <3>1, RegsParts DEF Owns
    <3> QED
      BY <1>3, <3>1, <3>2 DEF C!First
  <2>3. C!Save(current) /\ UNCHANGED hw
    BY <2>2 DEF C!Leave, C!Save
  <2>4. saved'[current] = C!Regs
    <3>1. \A R \in SUBSET C!Regs : C!Read(current, R) = R
      BY <2>1 DEF Owns, C!Read
    <3>2. saved'[current] = C!Read(current, C!Frame \union C!Vmpidr)
                            \union C!Read(current, C!Cops) \union C!Read(current, C!Banked)
      BY <2>1, <2>3 DEF C!Save, C!SavedCops, C!SavedBanked
    <3> QED
      BY <3>1, <3>2, RegsParts
  <2>5. saved' = [saved EXCEPT ![current] = C!Regs]
    BY <2>1, <2>3, <2>4 DEF C!Save
  <2>6. \A g \in Guests : saved'[g] = C!Regs
    BY <2>1, <2>5 DEF Owns
  <2>7. saved' \in [Guests -> SUBSET C!Regs]
    BY <2>1, <2>5
  <2>8. (~ C!First)'
    BY <2>2, <2>3 DEF C!First
  <2> QED
    BY <1>1, <2>3, <2>6, <2>7, <2>8
<1> QED
  BY <1>2, <1>3

\* The rest of save_and_restore.
LEMMA EnterCtx ==
  ASSUME Running, CtxInv, C!Enter(current), pc = "flush", pc' = "guest", current' = current
  PROVE  CtxInv'
<1> USE DEF CtxInv
<1>1. current \in Guests /\ current # NoGuest
  BY HypervisorAssumption DEF Running, Guests
<1>2. \A r \in C!Regs : C!Written(current, r) = current
  BY <1>1 DEF C!Written
<1>3. stage2' = current /\ saved' = [saved EXCEPT ![current] = {}]
  BY DEF C!Enter, C!Translate, C!Runs
<1>4. /\ hw' \in [C!Regs -> Guests \union {NoGuest}]
      /\ \A r \in C!Regs : hw'[r] \in {current} \union (IF r \in C!Frame THEN {} ELSE {NoGuest})
  <2>1. CASE C!First
    <3>1. hw' = [r \in C!Regs |-> IF r \in C!Frame \union C!Vmpidr
                                  THEN C!Written(current, r) ELSE hw[r]]
      BY <2>1 DEF C!Enter, C!Started
    <3> QED
      BY <1>1, <1>2, <2>1, <3>1 DEF Fresh
  <2>2. CASE ~ C!First
    <3>1. hw' = C!Restored(current)
      BY <2>2 DEF C!Enter
    <3>2. /\ C!Restored(current) = [r \in C!Regs |-> C!Restored(current)[r]]
          /\ \A r \in C!Regs : C!Restored(current)[r] = C!Written(current, r)
      BY RegsParts DEF C!Restored, C!RestoredCops, C!RestoredBanked
    <3> QED
      BY <1>1, <1>2, <3>1, <3>2
  <2> QED
    BY <2>1, <2>2
<1>5. Owns(current)'
  BY <1>1, <1>3, <1>4 DEF Owns
<1>6. saved' \in [Guests -> SUBSET C!Regs]
  BY <1>3
<1> QED
  BY <1>1, <1>4, <1>5, <1>6

\* Every step keeps the invariant; only the switch touches the registers.
LEMMA StepCtx == Running /\ Running' /\ CtxInv /\ [Next]_vars => CtxInv'
<1> SUFFICES ASSUME Running, Running', CtxInv, [Next]_vars PROVE CtxInv'
  OBVIOUS
<1> USE DEF ctxVars
<1>1. CASE TimerIrq \/ Yield \/ VtimerMask \/ VtimerUnmask
  BY <1>1, KeepCtx DEF TimerIrq, Yield, VtimerMask, VtimerUnmask, S!Tick, S!Yield, S!OtherTrap,
                       S!Handler, C!Keep, C!ctxVars
<1>2. CASE MonitorBreak \/ MonitorStop \/ MonitorRun \/ MonitorNotify
  BY <1>2, KeepCtx DEF MonitorBreak, MonitorStop, MonitorRun, MonitorNotify, S!MonitorStop,
                       S!MonitorRun, S!OtherTrap, S!Handler
<1>3. CASE Maintenance \/ \E p \in Pirqs : DeviceIrq(p) \/ EnableIrq(p) \/ DisableIrq(p)
  BY <1>3, KeepCtx DEF Maintenance, DeviceIrq, EnableIrq, DisableIrq, S!OtherTrap, S!Handler
<1>4. CASE \E T \in SUBSET Guests, v \in Sgis : Sgi(T, v)
  <2>1. PICK T \in SUBSET Guests, v \in Sgis : Sgi(T, v)
    BY <1>4
  <2>2. pc = "guest" /\ pc' \in {"exit", "abort"} /\ current' = current /\ UNCHANGED ctxVars
    BY <2>1 DEF Sgi, G!Sgi
  <2> QED
    BY <2>2, KeepCtx
<1>5. CASE \E s \in G!Slots : Ack(s) \/ Eoi(s)
  BY <1>5, KeepCtx DEF Ack, Eoi, G!Ack, G!Eoi
<1>6. CASE Stay \/ FlushOne
  BY <1>6, KeepCtx DEF Stay, FlushOne, S!Stay, G!FlushOne
<1>7. CASE Launch \/ Switch
  <2>1. pc = "exit" /\ pc' = "flush" /\ C!Leave(current)
    BY <1>7 DEF Launch, Switch, S!Launch, S!Switch
  <2>2. current' \in Guests
    BY <2>1 DEF Running
  <2> QED
    BY <2>1, <2>2, LeaveCtx
<1>8. CASE Restore
  BY <1>8, EnterCtx DEF Restore, S!Restore
<1>9. CASE Abort \/ UNCHANGED vars
  BY <1>9, KeepCtx DEF Abort, vars
<1> QED
  BY <1>1, <1>2, <1>3, <1>4, <1>5, <1>6, <1>7, <1>8, <1>9 DEF Next

\* A guest runs on its own registers and its own stage-2 tables.
THEOREM ContextsOwned == Spec => []OwnContext
<1>1. Spec => []CtxInv
  BY InitCtx, StepCtx, AlwaysRunning, PTL DEF Spec
<1>2. Running /\ CtxInv => OwnContext
  BY HypervisorAssumption DEF Running, CtxInv, OwnContext, Owns, Guests
<1> QED
  BY <1>1, <1>2, AlwaysRunning, PTL
=============================================================================
