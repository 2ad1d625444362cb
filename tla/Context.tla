------------------------------ MODULE Context ------------------------------
(***************************************************************************)
(* The registers of the guests of one processor (guest_hw.c) and their     *)
(* stage-2 translation (memory_hw_save and memory_hw_restore).  A register *)
(* is modelled by whose value it holds and whether the copy in vcpu_arr is *)
(* up to date, since the values themselves are only copied.                *)
(***************************************************************************)
CONSTANTS Guests, NoGuest

VARIABLES
  hw,      \* whose value each register holds; NoGuest: that of the boot code
  saved,   \* the registers whose latest value is in vcpu_arr, per guest
  stage2   \* HCR.VM and VTTBR: the guest whose tables are used, or NoGuest

ctxVars == <<hw, saved, stage2>>

(***************************************************************************)
(* The registers of a guest: the trap frame, VMPIDR, the coprocessor       *)
(* registers and those banked for each mode.  The code leaves out SP_fiq   *)
(* and every other coprocessor register (context, thread and fault         *)
(* registers, VFP): these the guests share.                                *)
(***************************************************************************)
Frame  == {"frame"}     \* cpsr, pc, lr and gpr
Vmpidr == {"vmpidr"}
Cops   == {"vbar, sctlr", "ttbr0, ttbr1, ttbcr"}
Banked == {"usr", "svc", "abt", "und", "irq", "fiq"}
Regs == Frame \union Vmpidr \union Cops \union Banked

\* guest_hw_init: the initial values are those of vcpu_arr.
Init ==
  /\ hw = [r \in Regs |-> NoGuest]
  /\ saved = [g \in Guests |-> Regs]
  /\ stage2 = NoGuest

-----------------------------------------------------------------------------
(* Saving and restoring *)

\* Reading registers into the context of guest g.
Read(g, R) == {r \in R : hw[r] \in {g, NoGuest}}
\* Writing registers from it: an old copy is nobody's value.
Written(g, r) == IF r \in saved[g] THEN g ELSE "stale"

\* Fault: the registers of FIQ mode are forgotten.
SavedBankedNoFiq(g) == Read(g, Banked) \ {"fiq"}

SavedCops(g)      == Read(g, Cops)
SavedBanked(g)    == Read(g, Banked)
RestoredCops(g)   == [r \in Cops |-> Written(g, r)]
RestoredBanked(g) == [r \in Banked |-> Written(g, r)]

\* guest_memory_stage2_enable(0): HCR.VM is cleared, also for the hypervisor.
Stage2Disable == stage2' = NoGuest

\* guest_hw_save and memory_hw_save.
Save(g) ==
  /\ saved' = [saved EXCEPT ![g] =
                 Read(g, Frame \union Vmpidr) \union SavedCops(g) \union SavedBanked(g)]
  /\ Stage2Disable
  /\ UNCHANGED hw

\* guest_hw_save for the first launch: there is no frame, nothing is saved.
SaveNothing == Stage2Disable /\ UNCHANGED <<hw, saved>>

\* memory_hw_restore: guest_memory_set_vcpuid_ttbl, then HCR.VM.
Translate(g) == stage2' = g

(***************************************************************************)
(* guest_hw_restore.  The first launch only loads the frame and VMPIDR;    *)
(* the other registers stay as the boot code left them, whatever           *)
(* guest_hw_init has put into the context.                                 *)
(***************************************************************************)
Restored(g) ==
  [r \in Regs |-> CASE r \in Cops -> RestoredCops(g)[r]
                    [] r \in Banked -> RestoredBanked(g)[r]
                    [] OTHER -> Written(g, r)]
Started(g) == [r \in Regs |-> IF r \in Frame \union Vmpidr THEN Written(g, r) ELSE hw[r]]

\* The guest runs from here on and may write any of its registers.
Runs(g) == saved' = [saved EXCEPT ![g] = {}]

\* No guest has run yet: there is no trap frame.
First == \A r \in Frame : hw[r] = NoGuest

\* save_and_restore before and after the change of the current guest.
Leave(g) == IF First THEN SaveNothing ELSE Save(g)
Enter(g) ==
  /\ Translate(g)
  /\ hw' = IF First THEN Started(g) ELSE Restored(g)
  /\ Runs(g)

\* A trap that returns to the guest it came from.
Keep == UNCHANGED ctxVars

=============================================================================
