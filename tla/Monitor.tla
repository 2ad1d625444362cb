------------------------------ MODULE Monitor ------------------------------
(***************************************************************************)
(* The monitoring points of the guest monitor (hypervisor/monitor.c,       *)
(* vdev_hvc_monitor.c, vdev_monitor.c).  A point replaces a word of the    *)
(* target guest's code by an HVC instruction and keeps the word in the     *)
(* table inst.  A break stops the guest there.  A trace notifies, puts the *)
(* word back so that the guest can execute it, and sets a retrap at the    *)
(* next word, which puts the HVC back.                                     *)
(*                                                                         *)
(* The commands come from the monitoring guest, between any two            *)
(* instructions of the target.  Addresses are word numbers, at most one    *)
(* table entry has a given address (monitor_store_inst looks first), and   *)
(* the table is a function of the address.  The target's own code has no   *)
(* HVC_TRAP and no zero word, does not change, and va_to_pa finds each     *)
(* word in the same place every time.                                      *)
(***************************************************************************)
EXTENDS Integers, FiniteSets

CONSTANTS
  NumWords,     \* words of the target's code
  NumDI,        \* NUM_DI, the entries of the table
  BreakWords,   \* where the monitoring guest sets and cleans breaks
  TraceWords    \* where it sets and cleans traces

Words == 0 .. NumWords - 1

ASSUME MonitorAssumption ==
  /\ NumWords \in Nat \ {0} /\ NumDI \in Nat
  /\ BreakWords \subseteq Words
  /\ TraceWords \subseteq Words \ {NumWords - 1}

\* enum breakpoint_type: flags that an entry combines.
Types == {"trace", "retrap", "break"}

VARIABLES
  mem,          \* the target's code: each word its "own" or HVC_TRAP ("hvc")
  type,         \* inst[INST_TYPE] of the entry with this address, {} without
  saved,        \* inst[INST] of that entry
  at,           \* the target's program counter
  stopped       \* manually_next_vmid: the target does not run (see Vcpu)

vars == <<mem, type, saved, at, stopped>>

Init ==
  /\ mem = [a \in Words |-> "own"]
  /\ type = [a \in Words |-> {}]
  /\ saved = [a \in Words |-> "none"]
  /\ at = 0
  /\ stopped = FALSE

-----------------------------------------------------------------------------
(* The table *)

Found(a)  == type[a] # {}
Room      == Cardinality({a \in Words : Found(a)}) < NumDI

\* Fault: a word that has a point is stored again.
StoresAgain(a) == Room

\* Does monitor_store_inst take a new entry for a?  An entry that is there
\* already only gets one more flag.
Stores(a) == ~ Found(a) /\ Room

monitor_store_inst(a, t) ==
  /\ type' = IF Found(a) \/ Room THEN [type EXCEPT ![a] = @ \union {t}] ELSE type
  /\ saved' = IF Stores(a) THEN [saved EXCEPT ![a] = mem[a]] ELSE saved

\* monitor_clean_inst returns FOUND: no flag is left and the entry is free.
Empties(a, T) == Found(a) /\ type[a] \subseteq T

(***************************************************************************)
(* monitor_clean_guest: the flags T of word a, and the retrap that a trace *)
(* at a may have left at the next word.  A word is put back when its entry *)
(* becomes free.                                                           *)
(***************************************************************************)
Flags(a, T, b) ==
  IF b = a THEN T ELSE IF b = a + 1 THEN {"retrap"} ELSE {}

Freed(a, T) == {b \in Words : Empties(b, Flags(a, T, b))}

monitor_clean_guest(a, T) ==
  /\ type' = [b \in Words |-> type[b] \ Flags(a, T, b)]
  /\ saved' = [b \in Words |-> IF b \in Freed(a, T) THEN "none" ELSE saved[b]]

-----------------------------------------------------------------------------
(* Commands of the monitoring guest *)

\* monitor_insert_break_to_guest, monitor_insert_trace_to_guest
Insert(a, t) ==
  /\ monitor_store_inst(a, t)
  /\ mem' = IF Stores(a) THEN [mem EXCEPT ![a] = "hvc"] ELSE mem
  /\ UNCHANGED <<at, stopped>>

\* monitor_clean_break_guest, monitor_clean_trace_guest
Clean(a, t) ==
  /\ monitor_clean_guest(a, {t})
  /\ mem' = [b \in Words |-> IF b \in Freed(a, {t}) THEN saved[b] ELSE mem[b]]
  /\ UNCHANGED <<at, stopped>>

\* monitor_write_memory: the debugger's breakpoint is an Insert; the word that
\* is saved for a is written, and then the break is cleaned (Restore); all
\* else is written byte by byte to addresses cut to eight bits, which are not
\* the target's (WriteAside).
Restore(a) ==
  /\ Found(a)
  /\ monitor_clean_guest(a, {"break"})
  /\ mem' = [b \in Words |-> IF b = a \/ b \in Freed(a, {"break"}) THEN saved[b]
                                                                   ELSE mem[b]]
  /\ UNCHANGED <<at, stopped>>

WriteAside == UNCHANGED vars

\* Every entry is cleaned of every flag.
CleanTable ==
  /\ type' = [a \in Words |-> {}]
  /\ saved' = [a \in Words |-> "none"]
  /\ mem' = [a \in Words |-> IF Found(a) THEN saved[a] ELSE mem[a]]

\* monitor_clean_all_guest
CleanAll == CleanTable /\ UNCHANGED <<at, stopped>>

\* monitor_reboot: the target starts again at its first instruction.
Reboot == CleanTable /\ at' = 0 /\ UNCHANGED stopped

\* monitor_stop, monitor_run_guest
Stop == stopped' = TRUE /\ UNCHANGED <<mem, type, saved, at>>
Run  == stopped' = FALSE /\ UNCHANGED <<mem, type, saved, at>>

-----------------------------------------------------------------------------
(* The target *)

\* The target executes a word of its own and goes on anywhere.
Execute ==
  /\ ~ stopped /\ mem[at] = "own"
  /\ at' \in Words
  /\ UNCHANGED <<mem, type, saved, stopped>>

\* vdev_hvc_monitor_write looks at the type of the word that trapped.
Trap(T) == ~ stopped /\ mem[at] = "hvc" /\ type[at] = T

\* Fault: monitor_hvc_pre_handler, which is commented out, puts the word back.
BreakTrapOnce ==
  /\ Trap({"break"})
  /\ stopped' = TRUE
  /\ mem' = [mem EXCEPT ![at] = saved[at]]
  /\ UNCHANGED <<type, saved, at>>

\* The target stops and will trap here again.
BreakTrap ==
  /\ Trap({"break"})
  /\ stopped' = TRUE
  /\ UNCHANGED <<mem, type, saved, at>>

\* monitor_hvc_pre_handler puts the word back, monitor_hvc_trace_handler sets
\* the retrap, and the target executes the word next.
TraceTrap ==
  /\ Trap({"trace"})
  /\ monitor_store_inst(at + 1, "retrap")
  /\ mem' = [b \in Words |-> IF b = at THEN saved[b]
                             ELSE IF b = at + 1 /\ Stores(b) THEN "hvc"
                             ELSE mem[b]]
  /\ UNCHANGED <<at, stopped>>

\* Fault: the trace point is not armed again.
RetrapTrapOnce ==
  /\ Trap({"retrap"})
  /\ type' = [type EXCEPT ![at] = {}]
  /\ saved' = [saved EXCEPT ![at] = "none"]
  /\ mem' = [mem EXCEPT ![at] = saved[at]]
  /\ UNCHANGED <<at, stopped>>

\* Fault: the program counter stays behind the retrap.
RetrapTrapPast ==
  /\ Trap({"retrap"})
  /\ type' = [type EXCEPT ![at] = {}]
  /\ saved' = [saved EXCEPT ![at] = "none"]
  /\ mem' = [mem EXCEPT ![at] = saved[at], ![at - 1] = "hvc"]
  /\ at' \in {a \in Words : a = at + 1}
  /\ UNCHANGED stopped

\* monitor_hvc_retrap_handler: this point is done, the one before is set again.
RetrapTrap ==
  /\ Trap({"retrap"})
  /\ type' = [type EXCEPT ![at] = {}]
  /\ saved' = [saved EXCEPT ![at] = "none"]
  /\ mem' = [mem EXCEPT ![at] = saved[at], ![at - 1] = "hvc"]
  /\ UNCHANGED <<at, stopped>>

\* A type that is no case of the switch: the HVC is all the target executes.
OtherTrap ==
  /\ \E T \in SUBSET Types : Cardinality(T) # 1 /\ Trap(T)
  /\ at' \in {a \in Words : a = at + 1}
  /\ UNCHANGED <<mem, type, saved, stopped>>

Next ==
  \/ \E a \in BreakWords : Insert(a, "break") \/ Clean(a, "break") \/ Restore(a)
  \/ \E a \in TraceWords : Insert(a, "trace") \/ Clean(a, "trace")
  \/ CleanAll \/ Reboot \/ Stop \/ Run
  \/ Execute \/ BreakTrap \/ TraceTrap \/ RetrapTrap \/ OtherTrap

Spec == Init /\ [][Next]_vars

-----------------------------------------------------------------------------
(* Invariants *)

TypeOK ==
  /\ mem \in [Words -> {"own", "hvc"}]
  /\ type \in [Words -> SUBSET Types]
  /\ saved \in [Words -> {"own", "hvc", "none"}]
  /\ at \in Words
  /\ stopped \in BOOLEAN

(***************************************************************************)
(* The target's code can always be put back: a word that is not its own is *)
(* in the table, and what the table saves is the target's own word, never  *)
(* an HVC_TRAP that some other point put there.  monitor_store_inst saves  *)
(* whatever the memory holds, and monitor_hvc_retrap_handler writes the    *)
(* word before without looking for its entry.                              *)
(***************************************************************************)
CodeIntact ==
  \A a \in Words : /\ mem[a] = "hvc" => Found(a)
                   /\ Found(a) => saved[a] = "own"

(***************************************************************************)
(* A retrap always has the trace it belongs to at the word before, whatever*)
(* was cleaned since it was set.                                           *)
(***************************************************************************)
RetrapHasTrace ==
  \A a \in Words : "retrap" \in type[a] => a > 0 /\ "trace" \in type[a - 1]

-----------------------------------------------------------------------------
(* Conditions on the use of the monitor *)

\* The words behind a traced word, which can get a retrap.
RetrapWords == {a \in Words : a - 1 \in TraceWords}

Points == BreakWords \union TraceWords \union RetrapWords

\* The words that can get at most one kind of point.
Single ==
  Words \ ((BreakWords \intersect TraceWords) \union
           (RetrapWords \intersect (BreakWords \union TraceWords)))

\* The table has room for every point.
Enough == Cardinality(Points) <= NumDI

(***************************************************************************)
(* A trace point that is not armed will be: the retrap at the next word is *)
(* there ("Set next trap for retrap", vdev_hvc_monitor.c:63).  This needs  *)
(* both words to be single, whatever is set elsewhere, and a table that is *)
(* never full.                                                             *)
(***************************************************************************)
TraceRearmed ==
  \A a \in TraceWords :
    a \in Single /\ a + 1 \in Single /\ "trace" \in type[a] /\ mem[a] = "own" =>
      "retrap" \in type[a + 1] /\ mem[a + 1] = "hvc"

(***************************************************************************)
(* Traces and retraps belong together: whatever is set and cleaned between *)
(* the two traps of a trace, no retrap outlives its trace and no trace is  *)
(* left without the retrap that arms it again.                             *)
(***************************************************************************)
TracePaired == RetrapHasTrace /\ TraceRearmed

-----------------------------------------------------------------------------
(* Action properties *)

(***************************************************************************)
(* The target executes every word that it passes and that can have only    *)
(* one kind of point: it leaves such a word only when it holds the target's*)
(* own instruction, or by a reboot, which empties the table.  A word with  *)
(* combined points is not meant: the code steps over it (OtherTrap).       *)
(***************************************************************************)
NeverSkipped ==
  [][at' # at /\ at \in Single =>
       mem[at] = "own" \/ (\A a \in Words : type'[a] = {})]_vars

(***************************************************************************)
(* The target does not get past a break while the break is set             *)
(* (vdev_hvc_monitor_write leaves the HVC_TRAP there and takes the program *)
(* counter back, so that the target meets it again when it runs).          *)
(***************************************************************************)
BreakStops ==
  [][at' # at /\ at \in Single =>
       "break" \notin type[at] \/ "break" \notin type'[at]]_vars

(***************************************************************************)
(* The same at any word ("Run other guest for stop this guest",            *)
(* monitor.c:128, of every break).                                         *)
(***************************************************************************)
EveryBreakStops ==
  [][at' # at => "break" \notin type[at] \/ "break" \notin type'[at]]_vars
=============================================================================
