-------------------------------- MODULE Vcpu --------------------------------
(***************************************************************************)
(* The guest scheduler of one processor (hypervisor/vcpu.c): the timer and *)
(* the yield hypercall choose the next guest, the monitor overrides the    *)
(* choice, and guest_perform_switch carries it out when the trap returns.  *)
(*                                                                         *)
(* pc is "guest" while a guest runs, "exit" when a handler has run and     *)
(* guest_perform_switch is next, and "flush" while save_and_restore loads  *)
(* the state of the guest it switched to (see Vgic).  The variable         *)
(* _switch_locked is left out: no caller of guest_switchto sets it.        *)
(***************************************************************************)
EXTENDS Integers

CONSTANTS
  NumGuests,    \* NUM_GUESTS_STATIC
  TickReset,    \* tick_reset_val: 5 after vcpu_init, 0 without it
  TickMod,      \* the modulus of the uint32_t tick counter
  NoGuest       \* VMID_INVALID

Guests == 0 .. NumGuests - 1

\* monitor.c switches to guest 1 to stop the others and to guest 0 to go on.
MonitorVmid == 1
TargetVmid  == 0

ASSUME VcpuAssumption ==
  /\ NumGuests \in Nat /\ NumGuests > 1
  /\ TickReset \in Nat /\ TickMod \in Nat /\ TickReset < TickMod
  /\ NoGuest \notin Guests

VARIABLES
  pc,           \* where the processor is
  current,      \* _current_guest_vmid
  next,         \* _next_guest_vmid
  manual,       \* manually_next_vmid
  selected,     \* selected_manually_next_vmid
  tick,         \* vcpu_arr[g].tick, what is left of g's slice
  cause         \* history: what the trap that is handled asked guest_switchto for

vars == <<pc, current, next, manual, selected, tick, cause>>

\* The policy (a tick or a yield), the monitor's stop or run, or nothing.
Causes == {"policy", "stop", "run", "none"}

\* guest_sched_start up to guest_perform_switch.
Init ==
  /\ pc = "exit"
  /\ current = NoGuest
  /\ next = 0
  /\ manual = FALSE
  /\ selected = 0
  /\ tick = [g \in Guests |-> 0]
  /\ cause = "none"

-----------------------------------------------------------------------------
(* Choosing the next guest *)

\* Fault: guest_last_vmid is one too small.
SuccessorButLast(g) == IF g < NumGuests - 2 THEN g + 1 ELSE 0

Successor(g) == IF g < NumGuests - 1 THEN g + 1 ELSE 0

\* vcpu_tick_plus_one, which counts down and wraps.
Dec(n) == IF n = 0 THEN TickMod - 1 ELSE n - 1

\* Fault: the monitor's choice is not looked at.
ChooseNoManual ==
  /\ tick' = [tick EXCEPT ![current] = Dec(@)]
  /\ next' = IF tick'[current] = 0 THEN Successor(current) ELSE current

\* Fault: the slice ends one tick early.
ChooseEarly ==
  IF manual
    THEN next' = selected /\ UNCHANGED tick
    ELSE /\ tick' = [tick EXCEPT ![current] = Dec(@)]
         /\ next' = IF tick'[current] <= 1 THEN Successor(current) ELSE current

(***************************************************************************)
(* guest_schedule and the yield hypercall: sched_policy_determ_next, then  *)
(* guest_switchto.  Without a manual choice, guest_next_vmid takes a tick  *)
(* off the running guest's slice and passes on when none is left.          *)
(***************************************************************************)
Choose ==
  IF manual
    THEN next' = selected /\ UNCHANGED tick
    ELSE /\ tick' = [tick EXCEPT ![current] = Dec(@)]
         /\ next' = IF tick'[current] = 0 THEN Successor(current) ELSE current

Handler(c) == pc = "guest" /\ pc' = "exit" /\ cause' = c

\* timer_handler: the host callback guest_schedule.  A yield is the same step:
\* it takes a tick of the slice like the timer does.
Tick  == Handler("policy") /\ Choose /\ UNCHANGED <<current, manual, selected>>

\* The yield hypercall.
Yield == Handler("policy") /\ Choose /\ UNCHANGED <<current, manual, selected>>

\* Fault: the wrong guest is kept running.
MonitorStopTarget ==
  /\ Handler("stop")
  /\ manual' = TRUE /\ selected' = TargetVmid
  /\ next' = TargetVmid
  /\ UNCHANGED <<current, tick>>

\* monitor_stop and monitor_break_guest.
MonitorStop ==
  /\ Handler("stop")
  /\ manual' = TRUE /\ selected' = MonitorVmid
  /\ next' = MonitorVmid
  /\ UNCHANGED <<current, tick>>

\* monitor_run_guest.
MonitorRun ==
  /\ Handler("run")
  /\ manual' = FALSE
  /\ next' = TargetVmid
  /\ UNCHANGED <<current, selected, tick>>

\* A trap or interrupt that asks for no switch: cause stays "none".
OtherTrap == Handler(cause) /\ UNCHANGED <<current, next, manual, selected, tick>>

-----------------------------------------------------------------------------
(* guest_perform_switch *)

\* Fault: a trap returns without guest_perform_switch.
StayRequested ==
  /\ pc = "exit" /\ current # NoGuest
  /\ pc' = "guest" /\ cause' = "none"
  /\ UNCHANGED <<current, next, manual, selected, tick>>

\* No switch was asked for, or one to the guest that runs.
Stay ==
  /\ pc = "exit" /\ current # NoGuest /\ next \in {NoGuest, current}
  /\ pc' = "guest" /\ cause' = "none"
  /\ UNCHANGED <<current, next, manual, selected, tick>>

\* The first launch does not return, so the request is left standing.
Launch ==
  /\ pc = "exit" /\ current = NoGuest
  /\ tick' = [tick EXCEPT ![next] = TickReset]
  /\ current' = next
  /\ pc' = "flush" /\ cause' = "none"
  /\ UNCHANGED <<next, manual, selected>>

\* Fault: vcpu_reset_tick is not called.
SwitchNoReset ==
  /\ pc = "exit" /\ current # NoGuest /\ next \notin {NoGuest, current}
  /\ current' = next
  /\ next' = NoGuest
  /\ pc' = "flush" /\ cause' = "none"
  /\ UNCHANGED <<manual, selected, tick>>

Switch ==
  /\ pc = "exit" /\ current # NoGuest /\ next \notin {NoGuest, current}
  /\ tick' = [tick EXCEPT ![next] = TickReset]
  /\ current' = next
  /\ next' = NoGuest
  /\ pc' = "flush" /\ cause' = "none"
  /\ UNCHANGED <<manual, selected>>

\* The rest of save_and_restore: the guest's own state is loaded.
Restore ==
  /\ pc = "flush" /\ pc' = "guest"
  /\ UNCHANGED <<current, next, manual, selected, tick, cause>>

Next ==
  \/ Tick \/ Yield \/ MonitorStop \/ MonitorRun \/ OtherTrap
  \/ Stay \/ Launch \/ Switch \/ Restore

Spec == Init /\ [][Next]_vars

-----------------------------------------------------------------------------
(* Invariants *)

TypeOK ==
  /\ pc \in {"guest", "exit", "flush"}
  /\ current \in Guests \union {NoGuest}
  /\ next \in Guests \union {NoGuest}
  /\ manual \in BOOLEAN
  /\ selected \in Guests
  /\ tick \in [Guests -> 0 .. TickMod - 1]
  /\ cause \in Causes

(***************************************************************************)
(* No request outlives the trap that made it: when a guest runs,           *)
(* _next_guest_vmid names no other guest.  vcpu.c does not clear it after  *)
(* the first launch, nor when the guest asked for is the one that runs.    *)
(***************************************************************************)
NoStaleRequest == pc = "guest" => next \in {NoGuest, current}

(***************************************************************************)
(* While the monitor has stopped the system, only the guest it selected    *)
(* runs: neither the timer nor a yield brings a stopped guest back.        *)
(***************************************************************************)
StoppedStaysStopped == pc = "guest" /\ manual => current = selected

(***************************************************************************)
(* The running guest has between 1 and tick_reset_val ticks left, so the   *)
(* count-down of vcpu_tick_plus_one never wraps below zero.  It rests on   *)
(* vcpu_init having set tick_reset_val.                                    *)
(***************************************************************************)
SliceInBounds ==
  current # NoGuest /\ pc # "exit" => tick[current] \in 1 .. TickReset

-----------------------------------------------------------------------------
(* Action properties *)

(***************************************************************************)
(* Round-robin: a guest is switched out by the policy only for its         *)
(* successor, with its slice used up and nobody stopped.  Any other switch *)
(* is the monitor's: to its own guest in the trap of a stop command or of  *)
(* a breakpoint, to guest 0 in the trap of a run command.                  *)
(***************************************************************************)
RoundRobin ==
  [][current' # current /\ current # NoGuest =>
       \/ /\ cause = "policy" /\ ~ manual
          /\ current' = (current + 1) % NumGuests /\ tick[current] = 0
       \/ cause = "stop" /\ current' = MonitorVmid
       \/ cause = "run"  /\ current' = TargetVmid]_vars

-----------------------------------------------------------------------------
(* Liveness *)

\* The timer interrupt is taken among however many other traps, and every
\* trap returns.
FairSpec ==
  Spec /\ SF_vars(Tick) /\ WF_vars(Stay \/ Launch \/ Switch \/ Restore)

(***************************************************************************)
(* Every guest keeps getting the processor, once the monitor has let the   *)
(* system go and sends no more run commands.                               *)
(***************************************************************************)
NoStarvation ==
  <>[](~ manual) /\ <>[][~ MonitorRun]_vars => \A g \in Guests : []<>(current = g)

(***************************************************************************)
(* A stop command takes effect: the monitor's guest gets the processor,    *)
(* unless a run command comes first.                                       *)
(***************************************************************************)
StopTakesEffect == manual ~> (current = MonitorVmid \/ ~ manual)

-----------------------------------------------------------------------------
(* A claim of the documentation that the code does not keep *)

(***************************************************************************)
(* README.md:8, "Scheduler (Round-robin)": the running guest is never more *)
(* than one slice, the 5 ticks of vcpu.c:388, from passing on.             *)
(***************************************************************************)
Slice == 5
SliceEnds == pc = "guest" => tick[current] <= Slice
=============================================================================
