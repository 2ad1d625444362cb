----------------------------- MODULE VcpuProofs -----------------------------
(***************************************************************************)
(* Proofs about the scheduler, for every number of guests and every slice. *)
(***************************************************************************)
EXTENDS Vcpu, TLAPS

(***************************************************************************)
(* The processor leaves the trap exit only with a guest, and the first     *)
(* launch has one to go to.                                                *)
(***************************************************************************)
Launched ==
  /\ current = NoGuest => pc = "exit" /\ next \in Guests /\ ~ manual
  /\ pc # "exit" => next \in {NoGuest, current}

(***************************************************************************)
(* While the monitor has stopped the system, every trap exit leads to the  *)
(* guest it selected.                                                      *)
(***************************************************************************)
Stopped ==
  manual => /\ selected = MonitorVmid
            /\ \/ next = selected
               \/ current = selected /\ next \in {NoGuest, current}

(***************************************************************************)
(* A request that stands at the trap exit was made in this trap, by the    *)
(* policy for the successor or by a command of the monitor.                *)
(***************************************************************************)
Reason ==
  pc = "exit" /\ current # NoGuest /\ next \notin {NoGuest, current} =>
    \/ cause = "policy" /\ ~ manual /\ next = Successor(current) /\ tick[current] = 0
    \/ cause = "stop" /\ next = MonitorVmid
    \/ cause = "run"  /\ next = TargetVmid

(***************************************************************************)
(* A guest whose slice is used up is on its way out.                       *)
(***************************************************************************)
Slices ==
  current # NoGuest =>
    /\ tick[current] \in 0 .. TickReset
    /\ tick[current] = 0 => pc = "exit" /\ next = Successor(current)

IInv == TypeOK /\ Launched /\ Stopped /\ Reason

-----------------------------------------------------------------------------
(* The round-robin order *)

(***************************************************************************)
(* guest_next_vmid stays inside the guests and never chooses the guest it  *)
(* starts from.                                                            *)
(***************************************************************************)
LEMMA SuccessorType ==
  ASSUME NEW g \in Guests
  PROVE  Successor(g) \in Guests /\ Successor(g) # g
BY VcpuAssumption DEF Successor, Guests

(***************************************************************************)
(* guest_next_vmid, a comparison with guest_last_vmid, is the successor    *)
(* modulo the number of guests.                                            *)
(***************************************************************************)
LEMMA SuccessorModulo ==
  ASSUME NEW g \in Guests
  PROVE  Successor(g) = (g + 1) % NumGuests
BY VcpuAssumption DEF Successor, Guests

(***************************************************************************)
(* The count-down of vcpu_tick_plus_one stays inside the counter's width.  *)
(***************************************************************************)
LEMMA DecType ==
  ASSUME NEW n \in 0 .. TickMod - 1
  PROVE  Dec(n) \in 0 .. TickMod - 1
BY VcpuAssumption DEF Dec

-----------------------------------------------------------------------------
(* Invariants *)

(***************************************************************************)
(* The invariant holds when guest_sched_start asks for the first launch.   *)
(***************************************************************************)
LEMMA InitInv == Init => IInv
<1> SUFFICES ASSUME Init PROVE IInv
  OBVIOUS
<1>1. 0 \in Guests /\ 0 \in 0 .. TickMod - 1
  BY VcpuAssumption DEF Guests
<1>2. TypeOK
  BY <1>1 DEF Init, TypeOK, Causes
<1>3. Launched /\ Stopped /\ Reason
  BY <1>1 DEF Init, Launched, Stopped, Reason
<1> QED
  BY <1>2, <1>3 DEF IInv

(***************************************************************************)
(* A handler that chooses by the policy, the timer's or the yield's,       *)
(* keeps the invariant.                                                    *)
(***************************************************************************)
LEMMA ChooseInv == IInv /\ Tick => IInv'
<1> SUFFICES ASSUME IInv, Tick PROVE IInv'
  OBVIOUS
<1> USE DEF IInv
<1>1. /\ current \in Guests /\ pc' = "exit" /\ UNCHANGED <<current, manual, selected>>
      /\ cause' = "policy" /\ next \in {NoGuest, current}
  BY DEF Tick, Handler, Launched, TypeOK
<1>2. CASE manual
  <2>1. next' = selected /\ tick' = tick /\ selected = MonitorVmid
    BY <1>2 DEF Tick, Choose, Stopped
  <2> QED
    BY <1>1, <1>2, <2>1, VcpuAssumption
    DEF TypeOK, Causes, Launched, Stopped, Reason
<1>3. CASE ~ manual
  <2>1. tick' = [tick EXCEPT ![current] = Dec(@)]
    BY <1>3 DEF Tick, Choose
  <2>2. tick' \in [Guests -> 0 .. TickMod - 1]
    BY <1>1, <2>1, DecType DEF TypeOK
  <2>3. next' = IF tick'[current] = 0 THEN Successor(current) ELSE current
    BY <1>3 DEF Tick, Choose
  <2>4. next' \in Guests
    BY <1>1, <2>3, SuccessorType
  <2> QED
    BY <1>1, <1>3, <2>2, <2>3, <2>4, VcpuAssumption
    DEF TypeOK, Causes, Launched, Stopped, Reason
<1> QED
  BY <1>2, <1>3

(***************************************************************************)
(* Every step keeps the invariant.                                         *)
(***************************************************************************)
LEMMA NextInv == IInv /\ [Next]_vars => IInv'
<1> SUFFICES ASSUME IInv, [Next]_vars PROVE IInv'
  OBVIOUS
<1> USE VcpuAssumption DEF IInv, TypeOK, Causes, Launched, Stopped, Reason
<1>1. CASE Tick
  BY <1>1, ChooseInv
<1>2. CASE Yield
  <2>1. Tick
    BY <1>2 DEF Tick, Yield
  <2> QED
    BY <2>1, ChooseInv
<1>3. CASE MonitorStop
  BY <1>3 DEF MonitorStop, Handler, MonitorVmid, Guests
<1>4. CASE MonitorRun
  <2>1. /\ pc' = "exit" /\ ~ manual' /\ manual' \in BOOLEAN /\ next' = TargetVmid
        /\ cause' = "run" /\ current \in Guests /\ UNCHANGED <<current, selected, tick>>
    BY <1>4 DEF MonitorRun, Handler
  <2>2. TargetVmid \in Guests
    BY DEF TargetVmid, Guests
  <2> QED
    BY <2>1, <2>2
<1>5. CASE OtherTrap
  BY <1>5 DEF OtherTrap, Handler
<1>6. CASE Stay
  BY <1>6 DEF Stay
<1>7. CASE Launch
  <2>1. next \in Guests
    BY <1>7 DEF Launch
  <2>2. tick' \in [Guests -> 0 .. TickMod - 1]
    BY <1>7, <2>1 DEF Launch
  <2> QED
    BY <1>7, <2>1, <2>2 DEF Launch
<1>8. CASE Switch
  <2>1. next \in Guests
    BY <1>8 DEF Switch
  <2>2. tick' \in [Guests -> 0 .. TickMod - 1]
    BY <1>8, <2>1 DEF Switch
  <2> QED
    BY <1>8, <2>1, <2>2 DEF Switch
<1>9. CASE Restore
  BY <1>9 DEF Restore
<1>10. CASE UNCHANGED vars
  BY <1>10 DEF vars
<1> QED
  BY <1>1, <1>2, <1>3, <1>4, <1>5, <1>6, <1>7, <1>8, <1>9, <1>10 DEF Next

(***************************************************************************)
(* The invariant of the scheduler.                                         *)
(***************************************************************************)
THEOREM Invariance == Spec => []IInv
BY InitInv, NextInv, PTL DEF Spec

(***************************************************************************)
(* The variables of vcpu.c keep their types.                               *)
(***************************************************************************)
THEOREM TypeCorrect == Spec => []TypeOK
<1>1. IInv => TypeOK
  BY DEF IInv
<1> QED
  BY <1>1, Invariance, PTL

(***************************************************************************)
(* No request of guest_switchto outlives the trap that made it.            *)
(***************************************************************************)
THEOREM RequestServed == Spec => []NoStaleRequest
<1>1. IInv => NoStaleRequest
  BY DEF IInv, Launched, NoStaleRequest
<1> QED
  BY <1>1, Invariance, PTL

(***************************************************************************)
(* No timer tick and no yield brings back a guest the monitor stopped.     *)
(***************************************************************************)
THEOREM StopHolds == Spec => []StoppedStaysStopped
<1>1. IInv => StoppedStaysStopped
  BY VcpuAssumption DEF IInv, TypeOK, Launched, Stopped, StoppedStaysStopped
<1> QED
  BY <1>1, Invariance, PTL

-----------------------------------------------------------------------------
(* Slices *)

(***************************************************************************)
(* With tick_reset_val set, no step lets a slice out of its bounds.        *)
(***************************************************************************)
LEMMA NextSlices ==
  ASSUME TickReset > 0
  PROVE  IInv /\ Slices /\ [Next]_vars => Slices'
<1> SUFFICES ASSUME IInv, Slices, [Next]_vars PROVE Slices'
  OBVIOUS
<1> USE VcpuAssumption DEF IInv, TypeOK, Launched, Slices
<1>1. CASE Tick \/ Yield
  <2>1. /\ current \in Guests /\ current' = current /\ pc' = "exit"
        /\ tick[current] \in 1 .. TickReset
    BY <1>1 DEF Tick, Yield, Handler
  <2>2. CASE manual
    <3>1. tick' = tick
      BY <1>1, <2>2 DEF Tick, Yield, Choose
    <3> QED
      BY <2>1, <3>1
  <2>3. CASE ~ manual
    <3>1. tick'[current] = tick[current] - 1
      BY <1>1, <2>1, <2>3 DEF Tick, Yield, Choose, Dec
    <3>2. tick'[current] = 0 => next' = Successor(current)
      BY <1>1, <2>3 DEF Tick, Yield, Choose
    <3> QED
      BY <2>1, <3>1, <3>2 DEF Successor
  <2> QED
    BY <2>2, <2>3
<1>2. CASE MonitorStop \/ MonitorRun \/ OtherTrap \/ Restore
  BY <1>2 DEF MonitorStop, MonitorRun, OtherTrap, Restore, Handler
<1>3. CASE Stay
  <2>1. current \in Guests
    BY <1>3 DEF Stay
  <2>2. Successor(current) \in Guests /\ Successor(current) # current
    BY <2>1, SuccessorType
  <2> QED
    BY <1>3, <2>1, <2>2 DEF Stay
<1>4. CASE Launch \/ Switch
  <2>1. next \in Guests /\ current' = next
    BY <1>4 DEF Launch, Switch
  <2>2. tick'[next] = TickReset
    BY <1>4, <2>1 DEF Launch, Switch
  <2> QED
    BY <1>4, <2>1, <2>2 DEF Launch, Switch
<1>5. CASE UNCHANGED vars
  BY <1>5 DEF vars, Successor
<1> QED
  BY <1>1, <1>2, <1>3, <1>4, <1>5 DEF Next

(***************************************************************************)
(* Where vcpu_init has set tick_reset_val, the running guest always has    *)
(* between one tick and a whole slice left.                                *)
(***************************************************************************)
THEOREM SlicesBounded ==
  ASSUME TickReset > 0
  PROVE  Spec => []SliceInBounds
<1>1. Init => Slices
  BY DEF Init, Slices
<1>2. IInv /\ Slices => SliceInBounds
  BY VcpuAssumption DEF IInv, TypeOK, Launched, Slices, SliceInBounds
<1> QED
  BY <1>1, <1>2, NextSlices, Invariance, PTL DEF Spec

-----------------------------------------------------------------------------
(* Round-robin *)

(***************************************************************************)
(* A guest that is switched out has used its slice up with nobody stopped  *)
(* and passes on to its successor, or the trap that is handled is a        *)
(* command of the monitor and the switch the one it asked for.             *)
(***************************************************************************)
THEOREM SchedulesRoundRobin == Spec => RoundRobin
<1>1. IInv /\ [Next]_vars =>
        [current' # current /\ current # NoGuest =>
           \/ /\ cause = "policy" /\ ~ manual
              /\ current' = (current + 1) % NumGuests /\ tick[current] = 0
           \/ cause = "stop" /\ current' = MonitorVmid
           \/ cause = "run"  /\ current' = TargetVmid]_vars
  <2> SUFFICES ASSUME IInv, Next, current' # current, current # NoGuest
               PROVE  \/ /\ cause = "policy" /\ ~ manual
                         /\ current' = (current + 1) % NumGuests /\ tick[current] = 0
                      \/ cause = "stop" /\ current' = MonitorVmid
                      \/ cause = "run"  /\ current' = TargetVmid
    OBVIOUS
  <2>1. Switch
    BY DEF Next, Tick, Yield, MonitorStop, MonitorRun, OtherTrap, Stay, Launch,
           Restore, Handler
  <2>2. current \in Guests
    BY DEF IInv, TypeOK
  <2>3. Successor(current) = (current + 1) % NumGuests
    BY <2>2, SuccessorModulo
  <2> QED
    BY <2>1, <2>3 DEF Switch, IInv, Reason
<1> QED
  BY <1>1, Invariance, PTL DEF Spec, RoundRobin
=============================================================================
