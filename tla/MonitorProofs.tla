---------------------------- MODULE MonitorProofs ----------------------------
(***************************************************************************)
(* The target's code survives any use of the monitoring points, for any    *)
(* code, any table and any points; and where a word can get only one kind  *)
(* of point, breaks and traces do what they are for.  The second part is   *)
(* about the GDB stub, which uses the points: what it answers is true of   *)
(* the target.  The third is about the loader around them: its symbol      *)
(* table, by induction over the file and over the halves of the search,    *)
(* and the tags of the guest it starts.                                    *)
(***************************************************************************)
EXTENDS Loader, FiniteSetTheorems, SequenceTheorems, TLAPS

\* Only the words the monitoring guest chose have a break or a trace; so the
\* last word of the code has no trace, and the word behind a trace exists.
PointsKnown ==
  \A a \in Words : /\ "trace" \in type[a] => a \in TraceWords
                   /\ "break" \in type[a] => a \in BreakWords

IInv == TypeOK /\ CodeIntact /\ RetrapHasTrace /\ PointsKnown

\* The word before one that is not the first.
LEMMA WordBefore ==
  ASSUME NEW b \in Words, b > 0 PROVE b - 1 \in Words
<1>1. NumWords \in Nat BY MonitorAssumption
<1> QED BY <1>1 DEF Words

LEMMA InitIInv == Init => IInv
<1> SUFFICES ASSUME Init PROVE IInv OBVIOUS
<1>1. 0 \in Words BY MonitorAssumption DEF Words
<1>2. TypeOK BY <1>1 DEF Init, TypeOK
<1>3. CodeIntact /\ RetrapHasTrace /\ PointsKnown
  BY DEF Init, CodeIntact, RetrapHasTrace, PointsKnown, Found
<1> QED BY <1>2, <1>3 DEF IInv

LEMMA StoreType ==
  ASSUME TypeOK, NEW a \in Words, NEW t \in Types, monitor_store_inst(a, t)
  PROVE  /\ type' \in [Words -> SUBSET Types]
         /\ saved' \in [Words -> {"own", "hvc", "none"}]
         /\ \A b \in Words : type'[b] \in {type[b], type[b] \union {t}}
         /\ \A b \in Words : b # a => type'[b] = type[b] /\ saved'[b] = saved[b]
         /\ Stores(a) => type'[a] = type[a] \union {t} /\ saved'[a] = mem[a]
         /\ ~ Stores(a) => saved' = saved
         /\ ~ Found(a) /\ ~ Stores(a) => type' = type
  BY DEF TypeOK, monitor_store_inst, Stores, Found, Types

LEMMA InsertStep ==
  ASSUME IInv, NEW a \in Words, NEW t \in {"break", "trace"}, Insert(a, t),
         t = "trace" => a \in TraceWords,
         t = "break" => a \in BreakWords
  PROVE  IInv'
<1>0. t \in Types /\ t # "retrap" BY DEF Types
<1>1. monitor_store_inst(a, t) BY DEF Insert
<1>2. TypeOK'
  BY <1>0, <1>1, StoreType DEF IInv, TypeOK, Insert
<1>3. CodeIntact'
  <2> SUFFICES ASSUME NEW b \in Words
               PROVE  /\ mem'[b] = "hvc" => type'[b] # {}
                      /\ type'[b] # {} => saved'[b] = "own"
    BY DEF CodeIntact, Found
  <2>1. CASE b # a
    BY <2>1, <1>0, <1>1, StoreType DEF IInv, TypeOK, CodeIntact, Found, Insert
  <2>2. CASE b = a /\ Stores(a)
    BY <2>2, <1>0, <1>1, StoreType DEF IInv, TypeOK, CodeIntact, Found, Insert, Stores
  <2>3. CASE b = a /\ ~ Stores(a)
    BY <2>3, <1>0, <1>1, StoreType DEF IInv, TypeOK, CodeIntact, Found, Insert
  <2> QED BY <2>1, <2>2, <2>3
<1>4. RetrapHasTrace'
  <2> SUFFICES ASSUME NEW b \in Words, "retrap" \in type'[b]
               PROVE  b > 0 /\ "trace" \in type'[b - 1]
    BY DEF RetrapHasTrace
  <2>1. "retrap" \in type[b] BY <1>0, <1>1, StoreType DEF IInv
  <2>2. b > 0 /\ "trace" \in type[b - 1] BY <2>1 DEF IInv, RetrapHasTrace
  <2>3. b - 1 \in Words BY <2>2, MonitorAssumption DEF Words
  <2> QED BY <2>2, <2>3, <1>0, <1>1, StoreType DEF IInv
<1>5. PointsKnown'
  BY <1>0, <1>1, StoreType DEF IInv, PointsKnown
<1> QED BY <1>2, <1>3, <1>4, <1>5 DEF IInv

\* monitor_clean_guest leaves what it does not free, and the retrap of a
\* cleaned trace goes with the trace.
LEMMA CleanStep ==
  ASSUME IInv, NEW a \in Words, NEW t \in {"break", "trace"},
         monitor_clean_guest(a, {t}),
         \A b \in Words : mem'[b] \in IF b \in Freed(a, {t}) THEN {saved[b]}
                                      ELSE IF Found(b) THEN {saved[b], mem[b]}
                                      ELSE {mem[b]},
         mem' \in [Words -> {mem'[b] : b \in Words}],
         UNCHANGED <<at, stopped>>
  PROVE  IInv'
<1>1. \A b \in Words : type'[b] = type[b] \ Flags(a, {t}, b)
  BY DEF monitor_clean_guest
<1>2. \A b \in Words : saved'[b] = IF b \in Freed(a, {t}) THEN "none" ELSE saved[b]
  BY DEF monitor_clean_guest
<1>3. \A b \in Words : b \in Freed(a, {t}) <=> type[b] # {} /\ type'[b] = {}
  BY <1>1 DEF Freed, Empties, Found
<1>4. \A b \in Words : Found(b) => saved[b] = "own"
  BY DEF IInv, CodeIntact
<1>5. TypeOK'
  <2>1. \A b \in Words : mem'[b] \in {"own", "hvc"}
    BY <1>3, <1>4 DEF IInv, TypeOK, Found
  <2>2. mem' \in [Words -> {"own", "hvc"}] BY <2>1
  <2>3. type' \in [Words -> SUBSET Types]
    BY DEF IInv, TypeOK, monitor_clean_guest
  <2>4. saved' \in [Words -> {"own", "hvc", "none"}]
    BY DEF IInv, TypeOK, monitor_clean_guest
  <2> QED BY <2>2, <2>3, <2>4 DEF IInv, TypeOK
<1>6. CodeIntact'
  <2> SUFFICES ASSUME NEW b \in Words
               PROVE  /\ mem'[b] = "hvc" => type'[b] # {}
                      /\ type'[b] # {} => saved'[b] = "own"
    BY DEF CodeIntact, Found
  <2>1. mem'[b] = "hvc" => type'[b] # {}
    BY <1>3, <1>4 DEF IInv, CodeIntact, Found
  <2>2. type'[b] # {} => saved'[b] = "own"
    BY <1>1, <1>2, <1>3, <1>4 DEF Found
  <2> QED BY <2>1, <2>2
<1>7. RetrapHasTrace'
  <2> SUFFICES ASSUME NEW b \in Words, "retrap" \in type'[b]
               PROVE  b > 0 /\ "trace" \in type'[b - 1]
    BY DEF RetrapHasTrace
  <2>1. "retrap" \in type[b] /\ "retrap" \notin Flags(a, {t}, b)
    BY <1>1
  <2>2. b > 0 /\ "trace" \in type[b - 1] BY <2>1 DEF IInv, RetrapHasTrace
  <2>3. b - 1 \in Words BY <2>2, WordBefore, Zenon
  <2>4. b # a + 1 BY <2>1, MonitorAssumption DEF Flags, Words
  <2>5. b - 1 # a BY <2>4, MonitorAssumption DEF Words
  <2>6. "trace" \notin Flags(a, {t}, b - 1) BY <2>5 DEF Flags
  <2> QED BY <2>2, <2>3, <2>6, <1>1
<1>8. PointsKnown' BY <1>1 DEF IInv, PointsKnown
<1> QED BY <1>5, <1>6, <1>7, <1>8 DEF IInv

LEMMA CleanTableStep ==
  ASSUME IInv, CleanTable, at' \in Words, stopped' \in BOOLEAN
  PROVE  IInv'
<1>1. TypeOK'
  BY DEF CleanTable, IInv, TypeOK, CodeIntact, Found
<1>2. CodeIntact' /\ RetrapHasTrace' /\ PointsKnown'
  BY DEF CleanTable, IInv, TypeOK, CodeIntact, RetrapHasTrace, PointsKnown, Found
<1> QED BY <1>1, <1>2 DEF IInv

LEMMA TraceNext ==
  ASSUME IInv, "trace" \in type[at]
  PROVE  at \in Words /\ at + 1 \in Words /\ at # at + 1
<1>1. at \in Words BY DEF IInv, TypeOK
<1>2. at \in TraceWords BY <1>1 DEF IInv, PointsKnown
<1> QED BY <1>1, <1>2, MonitorAssumption DEF Words

LEMMA TraceTrapStep ==
  ASSUME IInv, TraceTrap
  PROVE  IInv'
<1>0. at \in Words /\ at + 1 \in Words /\ at # at + 1 /\ "retrap" \in Types
  BY TraceNext DEF TraceTrap, Trap, Types
<1>1. monitor_store_inst(at + 1, "retrap") BY DEF TraceTrap
<1>2. type[at] = {"trace"} /\ saved[at] = "own"
  BY <1>0 DEF TraceTrap, Trap, IInv, CodeIntact, Found
<1>3. TypeOK'
  BY <1>0, <1>1, <1>2, StoreType DEF IInv, TypeOK, TraceTrap
<1>4. CodeIntact'
  <2> SUFFICES ASSUME NEW b \in Words
               PROVE  /\ mem'[b] = "hvc" => type'[b] # {}
                      /\ type'[b] # {} => saved'[b] = "own"
    BY DEF CodeIntact, Found
  <2>1. CASE b # at + 1
    BY <2>1, <1>0, <1>1, <1>2, StoreType
    DEF IInv, TypeOK, CodeIntact, Found, TraceTrap
  <2>2. CASE b = at + 1 /\ Stores(at + 1)
    BY <2>2, <1>0, <1>1, StoreType
    DEF IInv, TypeOK, CodeIntact, Found, TraceTrap, Stores
  <2>3. CASE b = at + 1 /\ ~ Stores(at + 1)
    <3>1. mem'[b] = mem[b] /\ saved'[b] = saved[b]
      BY <2>3, <1>0, <1>1, StoreType DEF IInv, TraceTrap
    <3>2. type[b] # {} => type'[b] # {}
      BY <2>3, <1>0, <1>1, StoreType DEF IInv
    <3>3. type[b] = {} => type' = type
      BY <2>3, <1>0, <1>1, StoreType DEF IInv, Found
    <3> QED BY <3>1, <3>2, <3>3 DEF IInv, CodeIntact, Found
  <2> QED BY <2>1, <2>2, <2>3
<1>5. RetrapHasTrace'
  <2> SUFFICES ASSUME NEW b \in Words, "retrap" \in type'[b]
               PROVE  b > 0 /\ "trace" \in type'[b - 1]
    BY DEF RetrapHasTrace
  <2>1. b > 0 /\ b - 1 \in Words /\ "trace" \in type[b - 1]
    <3>1. CASE b = at + 1
      BY <3>1, <1>0, <1>2, MonitorAssumption DEF Words
    <3>2. CASE b # at + 1
      <4>1. "retrap" \in type[b] BY <3>2, <1>0, <1>1, StoreType DEF IInv
      <4>2. b > 0 /\ "trace" \in type[b - 1] BY <4>1 DEF IInv, RetrapHasTrace
      <4> QED BY <4>2, MonitorAssumption DEF Words
    <3> QED BY <3>1, <3>2
  <2> QED BY <2>1, <1>0, <1>1, StoreType DEF IInv
<1>6. PointsKnown' BY <1>0, <1>1, StoreType DEF IInv, PointsKnown
<1> QED BY <1>3, <1>4, <1>5, <1>6 DEF IInv

LEMMA RetrapTrapStep ==
  ASSUME IInv, RetrapTrap
  PROVE  IInv'
<1>0. at \in Words /\ type[at] = {"retrap"} /\ saved[at] = "own"
  BY DEF RetrapTrap, Trap, IInv, TypeOK, CodeIntact, Found
<1>1. at > 0 /\ "trace" \in type[at - 1]
  BY <1>0 DEF IInv, RetrapHasTrace
<1>2. at - 1 \in Words /\ at - 1 # at
  BY <1>0, <1>1, MonitorAssumption DEF Words
<1>3. /\ \A b \in Words : type'[b] = IF b = at THEN {} ELSE type[b]
      /\ \A b \in Words : saved'[b] = IF b = at THEN "none" ELSE saved[b]
      /\ \A b \in Words : mem'[b] = IF b = at THEN "own"
                                    ELSE IF b = at - 1 THEN "hvc" ELSE mem[b]
  BY <1>0, <1>2 DEF RetrapTrap, IInv, TypeOK
<1>4. TypeOK'
  BY <1>0, <1>2 DEF RetrapTrap, IInv, TypeOK
<1>5. CodeIntact'
  BY <1>1, <1>2, <1>3 DEF IInv, CodeIntact, Found
<1>6. RetrapHasTrace'
  <2> SUFFICES ASSUME NEW b \in Words, "retrap" \in type'[b]
               PROVE  b > 0 /\ "trace" \in type'[b - 1]
    BY DEF RetrapHasTrace
  <2>1. "retrap" \in type[b] BY <1>3
  <2>2. b > 0 /\ "trace" \in type[b - 1] BY <2>1 DEF IInv, RetrapHasTrace
  <2>3. b - 1 \in Words BY <2>2, MonitorAssumption DEF Words
  <2>4. b - 1 # at BY <2>2, <1>0
  <2> QED BY <2>2, <2>3, <2>4, <1>3
<1>7. PointsKnown' BY <1>3 DEF IInv, PointsKnown
<1> QED BY <1>4, <1>5, <1>6, <1>7 DEF IInv

\* Steps that leave the code and the table alone.
LEMMA QuietStep ==
  ASSUME IInv, UNCHANGED <<mem, type, saved>>, at' \in Words, stopped' \in BOOLEAN
  PROVE  IInv'
BY DEF IInv, TypeOK, CodeIntact, RetrapHasTrace, PointsKnown, Found

LEMMA StepIInv == IInv /\ [Next]_vars => IInv'
<1> SUFFICES ASSUME IInv, [Next]_vars PROVE IInv' OBVIOUS
<1>0. at \in Words /\ stopped \in BOOLEAN /\ 0 \in Words
  BY MonitorAssumption DEF IInv, TypeOK, Words
<1>1. ASSUME NEW a \in BreakWords, Insert(a, "break") PROVE IInv'
  BY <1>1, InsertStep, MonitorAssumption
<1>2. ASSUME NEW a \in BreakWords, Clean(a, "break") PROVE IInv'
  BY <1>2, CleanStep, MonitorAssumption DEF Clean
<1>3. ASSUME NEW a \in BreakWords, Restore(a) PROVE IInv'
  BY <1>3, CleanStep, MonitorAssumption DEF Restore
<1>4. ASSUME NEW a \in TraceWords, Insert(a, "trace") PROVE IInv'
  BY <1>4, InsertStep, MonitorAssumption
<1>5. ASSUME NEW a \in TraceWords, Clean(a, "trace") PROVE IInv'
  BY <1>5, CleanStep, MonitorAssumption DEF Clean
<1>6. CASE CleanAll BY <1>6, <1>0, CleanTableStep DEF CleanAll
<1>7. CASE Reboot BY <1>7, <1>0, CleanTableStep DEF Reboot
<1>8. CASE Stop BY <1>8, <1>0, QuietStep DEF Stop
<1>9. CASE Run BY <1>9, <1>0, QuietStep DEF Run
<1>10. CASE Execute BY <1>10, <1>0, QuietStep DEF Execute
<1>11. CASE BreakTrap BY <1>11, <1>0, QuietStep DEF BreakTrap
<1>12. CASE TraceTrap BY <1>12, TraceTrapStep
<1>13. CASE RetrapTrap BY <1>13, RetrapTrapStep
<1>14. CASE OtherTrap BY <1>14, <1>0, QuietStep DEF OtherTrap
<1>15. CASE UNCHANGED vars BY <1>15, <1>0, QuietStep DEF vars
<1> QED
  BY <1>1, <1>2, <1>3, <1>4, <1>5, <1>6, <1>7, <1>8, <1>9, <1>10, <1>11,
     <1>12, <1>13, <1>14, <1>15 DEF Next

THEOREM Invariance == Spec => []IInv
  BY InitIInv, StepIInv, PTL DEF Spec

(***************************************************************************)
(* Memory, table and program counter of the monitored guest keep their     *)
(* types under every sequence of commands and traps.                       *)
(***************************************************************************)
THEOREM TypeCorrect == Spec => []TypeOK
  BY Invariance, PTL DEF IInv

(***************************************************************************)
(* Every HVC_TRAP in the target's code has an entry, and every entry saves *)
(* the target's own word: cleaning gives the original code back, wherever  *)
(* the points are and however small the table.                             *)
(***************************************************************************)
THEOREM CodeRecoverable == Spec => []CodeIntact
  BY Invariance, PTL DEF IInv

(***************************************************************************)
(* No retrap outlives the trace it belongs to, so the handler of a retrap  *)
(* writes HVC_TRAP only over a word that has an entry.                     *)
(***************************************************************************)
THEOREM RetrapsOwned == Spec => []RetrapHasTrace
  BY Invariance, PTL DEF IInv

-----------------------------------------------------------------------------
(* Single words *)

\* At a single word a break or a retrap is in the code as long as it is in the
\* table.
Armed ==
  \A a \in Single : "break" \in type[a] \/ "retrap" \in type[a] => mem[a] = "hvc"

LEMMA OneFlag ==
  ASSUME IInv, NEW a \in Single
  PROVE  /\ a \in Words
         /\ "trace" \in type[a] => type[a] = {"trace"}
         /\ "break" \in type[a] => type[a] = {"break"}
         /\ "retrap" \in type[a] => type[a] = {"retrap"}
         /\ a \in BreakWords => type[a] \subseteq {"break"}
         /\ a - 1 \in TraceWords => type[a] \subseteq {"retrap"}
<1>0. a \in Words BY DEF Single
<1>1. type[a] \subseteq {"trace", "retrap", "break"}
  BY <1>0 DEF IInv, TypeOK, Types
<1>2. "trace" \in type[a] => a \in TraceWords
  BY <1>0 DEF IInv, PointsKnown
<1>3. "break" \in type[a] => a \in BreakWords
  BY <1>0 DEF IInv, PointsKnown
<1>4. "retrap" \in type[a] => a - 1 \in TraceWords
  <2>1. "retrap" \in type[a] => a > 0 /\ "trace" \in type[a - 1]
    BY <1>0 DEF IInv, RetrapHasTrace
  <2>2. a > 0 => a - 1 \in Words BY <1>0, MonitorAssumption DEF Words
  <2> QED BY <2>1, <2>2 DEF IInv, PointsKnown
<1>5. a - 1 \in TraceWords => a \notin BreakWords \union TraceWords
  BY <1>0 DEF Single, RetrapWords
<1>6. a \in TraceWords => a \notin BreakWords BY DEF Single
<1> QED BY <1>0, <1>1, <1>2, <1>3, <1>4, <1>5, <1>6

LEMMA OneFlagSet ==
  ASSUME IInv, NEW a \in Single, Found(a)
  PROVE  Cardinality(type[a]) = 1
<1>1. type[a] = {"trace"} \/ type[a] = {"break"} \/ type[a] = {"retrap"}
  BY OneFlag DEF Found, IInv, TypeOK, Types
<1> QED BY <1>1, FS_Singleton

LEMMA NoOtherTrap ==
  ASSUME IInv, OtherTrap
  PROVE  at \notin Single
<1>1. at \in Words /\ Found(at)
  BY DEF OtherTrap, Trap, IInv, TypeOK, CodeIntact
<1>2. Cardinality(type[at]) # 1 BY DEF OtherTrap, Trap
<1> QED BY <1>1, <1>2, OneFlagSet

\* What monitor_clean_guest does, word by word.
LEMMA CleanEffect ==
  ASSUME IInv, NEW a \in Words, NEW t \in {"break", "trace"},
         monitor_clean_guest(a, {t}), NEW b \in Words
  PROVE  /\ type'[b] = type[b] \ Flags(a, {t}, b)
         /\ b \in Freed(a, {t}) => type'[b] = {}
BY DEF monitor_clean_guest, Freed, Empties

LEMMA StepArmed ==
  ASSUME IInv, Armed, [Next]_vars
  PROVE  Armed'
<1> SUFFICES ASSUME NEW b \in Single, "break" \in type'[b] \/ "retrap" \in type'[b]
             PROVE  mem'[b] = "hvc"
  BY DEF Armed
<1>0. b \in Words /\ mem \in [Words -> {"own", "hvc"}] BY DEF Single, IInv, TypeOK
<1>1. ASSUME NEW a \in BreakWords, Insert(a, "break") PROVE mem'[b] = "hvc"
  <2>0. a \in Words /\ "break" \in Types BY MonitorAssumption DEF Types
  <2>1. monitor_store_inst(a, "break") BY <1>1 DEF Insert
  <2>2. CASE b # a
    BY <2>2, <2>0, <2>1, <1>0, <1>1, StoreType DEF Insert, IInv, Armed
  <2>3. CASE b = a /\ Stores(a) BY <2>3, <1>0, <1>1 DEF Insert
  <2>4. CASE b = a /\ ~ Stores(a)
    <3>1. mem'[b] = mem[b] BY <2>4, <1>1 DEF Insert
    <3>2. type[a] # {}
      <4>1. type[a] = {} => type' = type
        BY <2>4, <2>0, <2>1, StoreType DEF IInv, Found
      <4> QED BY <4>1, <2>4
    <3>3. "break" \in type[a] BY <3>2, <2>4, OneFlag
    <3> QED BY <3>1, <3>3, <2>4 DEF Armed
  <2> QED BY <2>2, <2>3, <2>4
<1>2. ASSUME NEW a \in TraceWords, Insert(a, "trace") PROVE mem'[b] = "hvc"
  <2>0. a \in Words /\ "trace" \in Types BY MonitorAssumption DEF Types
  <2>1. monitor_store_inst(a, "trace") BY <1>2 DEF Insert
  <2>2. "break" \in type[b] \/ "retrap" \in type[b]
    BY <2>0, <2>1, <1>0, StoreType DEF IInv
  <2>3. mem[b] = "hvc" BY <2>2 DEF Armed
  <2> QED BY <2>3, <1>0, <1>2 DEF Insert
<1>3. ASSUME NEW a \in Words, NEW t \in {"break", "trace"}, Clean(a, t)
      PROVE  mem'[b] = "hvc"
  <2>1. monitor_clean_guest(a, {t}) BY <1>3 DEF Clean
  <2>2. b \notin Freed(a, {t}) BY <2>1, <1>0, CleanEffect
  <2>3. "break" \in type[b] \/ "retrap" \in type[b] BY <2>1, <1>0, CleanEffect
  <2>4. mem'[b] = mem[b] BY <1>3, <2>2, <1>0 DEF Clean
  <2> QED BY <2>3, <2>4 DEF Armed
<1>4. ASSUME NEW a \in BreakWords, Restore(a) PROVE mem'[b] = "hvc"
  <2>0. a \in Words BY MonitorAssumption
  <2>1. monitor_clean_guest(a, {"break"}) BY <1>4 DEF Restore
  <2>2. b \notin Freed(a, {"break"}) BY <2>0, <2>1, <1>0, CleanEffect
  <2>3. "break" \in type[b] \/ "retrap" \in type[b] BY <2>0, <2>1, <1>0, CleanEffect
  <2>4. b # a
    <3>1. type'[a] = type[a] \ {"break"} BY <2>0, <2>1, CleanEffect DEF Flags
    <3> QED BY <3>1, OneFlag
  <2>5. mem'[b] = mem[b] BY <1>4, <2>2, <2>4, <1>0 DEF Restore
  <2> QED BY <2>3, <2>5 DEF Armed
<1>5. CASE CleanAll \/ Reboot BY <1>5, <1>0 DEF CleanAll, Reboot, CleanTable
<1>6. CASE TraceTrap
  <2>0. "trace" \in type[at] /\ type[at] = {"trace"} /\ "retrap" \in Types
    BY <1>6 DEF TraceTrap, Trap, Types
  <2>1. at \in Words /\ at + 1 \in Words /\ at # at + 1 BY <2>0, TraceNext
  <2>2. monitor_store_inst(at + 1, "retrap") BY <1>6 DEF TraceTrap
  <2>3. CASE b = at + 1 /\ Stores(at + 1)
    BY <2>3, <2>1, <1>6 DEF TraceTrap
  <2>4. CASE b = at + 1 /\ ~ Stores(at + 1)
    <3>1. mem'[b] = mem[b] BY <2>4, <2>1, <1>6 DEF TraceTrap
    <3>2. type[b] # {}
      <4>1. type[b] = {} => type' = type
        BY <2>4, <2>0, <2>1, <2>2, StoreType DEF IInv, Found
      <4> QED BY <4>1
    <3>3. b - 1 \in TraceWords
      <4>1. at \in TraceWords BY <2>0, <2>1 DEF IInv, PointsKnown
      <4> QED BY <4>1, <2>4, <2>1, MonitorAssumption DEF Words
    <3>4. "retrap" \in type[b] BY <3>2, <3>3, OneFlag
    <3> QED BY <3>1, <3>4 DEF Armed
  <2>5. CASE b # at + 1
    <3>1. type'[b] = type[b] BY <2>5, <2>0, <2>1, <2>2, <1>0, StoreType DEF IInv
    <3>2. b # at BY <3>1, <2>0
    <3>3. mem'[b] = mem[b] BY <2>5, <3>2, <1>0, <1>6 DEF TraceTrap
    <3> QED BY <3>1, <3>3 DEF Armed
  <2> QED BY <2>3, <2>4, <2>5
<1>7. CASE RetrapTrap
  <2>0. at \in Words BY DEF IInv, TypeOK
  <2>1. type'[b] = IF b = at THEN {} ELSE type[b]
    BY <1>7, <1>0, <2>0 DEF RetrapTrap, IInv, TypeOK
  <2>2. b # at BY <2>1
  <2>3. mem'[b] = mem[b] \/ mem'[b] = "hvc"
    BY <1>7, <2>2, <1>0 DEF RetrapTrap
  <2> QED BY <2>1, <2>2, <2>3 DEF Armed
<1>8. CASE UNCHANGED <<mem, type>> BY <1>8 DEF Armed
<1>9. CASE Stop \/ Run \/ Execute \/ BreakTrap \/ OtherTrap \/ UNCHANGED vars
  BY <1>8, <1>9 DEF Stop, Run, Execute, BreakTrap, OtherTrap, vars
<1> QED
  BY <1>1, <1>2, <1>3, <1>4, <1>5, <1>6, <1>7, <1>9, MonitorAssumption DEF Next

THEOREM ArmedInvariance == Spec => [](IInv /\ Armed)
<1>1. Init => Armed BY DEF Init, Armed, Single
<1>2. IInv /\ Armed /\ [Next]_vars => Armed' BY StepArmed
<1> QED BY <1>1, <1>2, Invariance, PTL DEF Spec

(***************************************************************************)
(* The target executes each word that it passes, of those that can have    *)
(* one kind of point only (Single), whatever points are set elsewhere.     *)
(* Where points combine the theorem says nothing: there                    *)
(* vdev_hvc_monitor_write has no case for the type, and the target does    *)
(* step over its word (OtherTrap).                                         *)
(***************************************************************************)
THEOREM NothingSkipped == Spec => NeverSkipped
<1>1. ASSUME IInv, Next, at' # at, at \in Single
      PROVE  mem[at] = "own" \/ \A a \in Words : type'[a] = {}
  <2>1. CASE Execute BY <2>1 DEF Execute
  <2>2. CASE Reboot BY <2>2 DEF Reboot, CleanTable
  <2>3. ~ OtherTrap BY <1>1, NoOtherTrap
  <2> QED
    BY <1>1, <2>1, <2>2, <2>3
    DEF Next, Insert, Clean, Restore, CleanAll, Stop, Run, BreakTrap,
        TraceTrap, RetrapTrap
<1>2. IInv /\ [Next]_vars =>
        [at' # at /\ at \in Single =>
           mem[at] = "own" \/ (\A a \in Words : type'[a] = {})]_vars
  BY <1>1 DEF vars
<1> QED BY <1>2, Invariance, PTL DEF Spec, NeverSkipped

(***************************************************************************)
(* A break on a single word holds the target, however often it runs again. *)
(***************************************************************************)
THEOREM BreaksHold == Spec => BreakStops
<1>1. ASSUME IInv, Armed, Next, at' # at, at \in Single
      PROVE  "break" \notin type[at] \/ "break" \notin type'[at]
  <2>0. at \in Words BY <1>1 DEF IInv, TypeOK
  <2>1. CASE Execute
    <3>1. mem[at] # "hvc" BY <2>1 DEF Execute
    <3> QED BY <3>1, <2>0, <1>1 DEF Armed
  <2>2. CASE Reboot BY <2>2, <2>0 DEF Reboot, CleanTable
  <2>3. ~ OtherTrap BY <1>1, NoOtherTrap
  <2> QED
    BY <1>1, <2>1, <2>2, <2>3
    DEF Next, Insert, Clean, Restore, CleanAll, Stop, Run, BreakTrap,
        TraceTrap, RetrapTrap
<1>2. IInv /\ Armed /\ [Next]_vars =>
        [at' # at /\ at \in Single =>
           "break" \notin type[at] \/ "break" \notin type'[at]]_vars
  BY <1>1 DEF vars
<1> QED BY <1>2, ArmedInvariance, PTL DEF Spec, BreakStops

-----------------------------------------------------------------------------
(* A table with room for every point *)

LEMMA RoomForPoint ==
  ASSUME Enough, IInv, NEW a \in Points, a \in Words, ~ Found(a)
  PROVE  Room
<1> DEFINE F == {b \in Words : Found(b)}
<1>1. IsFiniteSet(Words) BY MonitorAssumption, FS_Interval DEF Words
<1>2. Points \subseteq Words BY MonitorAssumption DEF Points, RetrapWords
<1>3. IsFiniteSet(Points) BY <1>1, <1>2, FS_Subset
<1>4. F \subseteq Points
  <2> SUFFICES ASSUME NEW b \in Words, type[b] # {} PROVE b \in Points
    BY DEF Found
  <2>1. "trace" \in type[b] \/ "break" \in type[b] \/ "retrap" \in type[b]
    BY DEF IInv, TypeOK, Types
  <2>2. CASE "trace" \in type[b] \/ "break" \in type[b]
    BY <2>2 DEF IInv, PointsKnown, Points
  <2>3. CASE "retrap" \in type[b]
    <3>1. b > 0 /\ "trace" \in type[b - 1] BY <2>3 DEF IInv, RetrapHasTrace
    <3>2. b - 1 \in Words BY <3>1, MonitorAssumption DEF Words
    <3> QED BY <3>1, <3>2 DEF IInv, PointsKnown, Points, RetrapWords
  <2> QED BY <2>1, <2>2, <2>3
<1>5. F # Points OBVIOUS
<1>6. Cardinality(F) < Cardinality(Points)
  <2>1. /\ IsFiniteSet(F) /\ Cardinality(F) <= Cardinality(Points)
        /\ Cardinality(F) = Cardinality(Points) => F = Points
    BY <1>3, <1>4, FS_Subset
  <2>2. Cardinality(F) \in Nat /\ Cardinality(Points) \in Nat
    BY <2>1, <1>3, FS_CardinalityType
  <2>3. Cardinality(F) # Cardinality(Points) BY <2>1, <1>5
  <2> HIDE DEF F
  <2> QED BY <2>1, <2>2, <2>3
<1>7. Cardinality(F) \in Nat /\ Cardinality(Points) \in Nat
  BY <1>3, <1>4, FS_Subset, FS_CardinalityType
<1> QED BY <1>6, <1>7, MonitorAssumption DEF Enough, Room

LEMMA StepRearmed ==
  ASSUME Enough, IInv, Armed, TraceRearmed, [Next]_vars
  PROVE  TraceRearmed'
<1> SUFFICES ASSUME NEW b \in TraceWords, b \in Single, b + 1 \in Single,
                    "trace" \in type'[b], mem'[b] = "own"
             PROVE  "retrap" \in type'[b + 1] /\ mem'[b + 1] = "hvc"
  BY DEF TraceRearmed
<1>0. /\ b \in Words /\ b + 1 \in Words /\ b # b + 1 /\ b + 1 \in Points
      /\ b \notin BreakWords /\ b + 1 \notin BreakWords \union TraceWords
      /\ (b + 1) - 1 = b
  <2>1. b \in Words /\ b + 1 \in Words /\ b # b + 1 /\ (b + 1) - 1 = b
    BY MonitorAssumption DEF Words
  <2>2. b + 1 \in RetrapWords BY <2>1 DEF RetrapWords
  <2> QED BY <2>1, <2>2 DEF Single, Points
<1>a. mem \in [Words -> {"own", "hvc"}] BY DEF IInv, TypeOK
\* It is enough that the point was not armed before and its retrap stays.
<1>b. ASSUME "trace" \in type[b], mem[b] = "own",
             type'[b + 1] = type[b + 1], mem'[b + 1] = mem[b + 1]
      PROVE  "retrap" \in type'[b + 1] /\ mem'[b + 1] = "hvc"
  BY <1>b DEF TraceRearmed
<1>1. ASSUME NEW a \in BreakWords, Insert(a, "break")
      PROVE  "retrap" \in type'[b + 1] /\ mem'[b + 1] = "hvc"
  <2>0. a \in Words /\ "break" \in Types /\ a # b /\ a # b + 1
    BY <1>0, MonitorAssumption DEF Types
  <2>1. monitor_store_inst(a, "break") BY <1>1 DEF Insert
  <2>2. type'[b] = type[b] /\ type'[b + 1] = type[b + 1]
    BY <2>0, <2>1, <1>0, StoreType DEF IInv
  <2>3. mem'[b] = mem[b] /\ mem'[b + 1] = mem[b + 1]
    BY <2>0, <1>0, <1>a, <1>1 DEF Insert
  <2> QED BY <2>2, <2>3, <1>b
<1>2. ASSUME NEW a \in TraceWords, Insert(a, "trace")
      PROVE  "retrap" \in type'[b + 1] /\ mem'[b + 1] = "hvc"
  <2>0. a \in Words /\ "trace" \in Types /\ a # b + 1
    BY <1>0, MonitorAssumption DEF Types
  <2>1. monitor_store_inst(a, "trace") BY <1>2 DEF Insert
  <2>2. type'[b + 1] = type[b + 1] /\ mem'[b + 1] = mem[b + 1]
    BY <2>0, <2>1, <1>0, <1>a, <1>2, StoreType DEF IInv, Insert
  <2>3. CASE b # a
    BY <2>3, <2>0, <2>1, <2>2, <1>0, <1>a, <1>b, <1>2, StoreType DEF IInv, Insert
  <2>4. CASE b = a /\ Stores(a)
    BY <2>4, <1>0, <1>a, <1>2 DEF Insert
  <2>5. CASE b = a /\ ~ Stores(a)
    <3>1. mem'[b] = mem[b] BY <2>5, <1>2 DEF Insert
    <3>2. type[b] # {}
      <4>1. type[b] = {} => type' = type
        BY <2>5, <2>0, <2>1, StoreType DEF IInv, Found
      <4> QED BY <4>1
    <3>3. "trace" \in type[b]
      <4>1. "break" \notin type[b] BY <1>0 DEF IInv, PointsKnown
      <4>2. "retrap" \notin type[b]
        <5> SUFFICES ASSUME "retrap" \in type[b] PROVE FALSE OBVIOUS
        <5>1. mem[b] = "hvc" BY <1>0 DEF Armed
        <5> QED BY <5>1, <3>1
      <4> QED BY <3>2, <4>1, <4>2, <1>0 DEF IInv, TypeOK, Types
    <3> QED BY <3>1, <3>3, <2>2, <1>b
  <2> QED BY <2>3, <2>4, <2>5
<1>3. ASSUME NEW a \in Words, NEW t \in {"break", "trace"}, Clean(a, t),
             t = "trace" \/ a \in BreakWords
      PROVE  "retrap" \in type'[b + 1] /\ mem'[b + 1] = "hvc"
  <2>1. monitor_clean_guest(a, {t}) BY <1>3 DEF Clean
  <2>2. type'[b] = type[b] \ Flags(a, {t}, b) /\ b \notin Freed(a, {t})
    BY <2>1, <1>0, CleanEffect
  <2>3. mem'[b] = mem[b] BY <2>2, <1>0, <1>3 DEF Clean
  <2>4. "retrap" \in type[b + 1] /\ mem[b + 1] = "hvc"
    BY <2>2, <2>3 DEF TraceRearmed
  <2>5. b # a
    <3>1. CASE t = "trace" BY <3>1, <2>2 DEF Flags
    <3>2. CASE a \in BreakWords BY <3>2, <1>0
    <3> QED BY <3>1, <3>2, <1>3
  <2>6. b + 1 # a + 1 BY <2>5, <1>0, MonitorAssumption DEF Words
  <2>7. "retrap" \notin Flags(a, {t}, b + 1) BY <2>6 DEF Flags
  <2>70. b + 1 \in Words BY <1>0
  <2>71. type'[b + 1] = type[b + 1] \ Flags(a, {t}, b + 1)
    BY <2>1, <2>70, CleanEffect
  <2>8. "retrap" \in type'[b + 1] BY <2>4, <2>7, <2>71
  <2>9. b + 1 \notin Freed(a, {t}) BY <2>8, <2>1, <1>0, CleanEffect
  <2> QED BY <2>4, <2>8, <2>9, <1>0, <1>3 DEF Clean
<1>4. ASSUME NEW a \in BreakWords, Restore(a)
      PROVE  "retrap" \in type'[b + 1] /\ mem'[b + 1] = "hvc"
  <2>0. a \in Words /\ a # b /\ a # b + 1 BY <1>0, MonitorAssumption
  <2>1. monitor_clean_guest(a, {"break"}) BY <1>4 DEF Restore
  <2>2. /\ type'[b] = type[b] \ Flags(a, {"break"}, b)
        /\ b \notin Freed(a, {"break"})
    BY <2>0, <2>1, <1>0, CleanEffect
  <2>3. mem'[b] = mem[b] BY <2>0, <2>2, <1>0, <1>4 DEF Restore
  <2>4. "retrap" \in type[b + 1] /\ mem[b + 1] = "hvc"
    BY <2>2, <2>3 DEF TraceRearmed
  <2>6. b + 1 # a + 1 BY <2>0, <1>0, MonitorAssumption DEF Words
  <2>7. "retrap" \notin Flags(a, {"break"}, b + 1) BY <2>6 DEF Flags
  <2>8. "retrap" \in type'[b + 1] BY <2>0, <2>1, <2>4, <2>7, <1>0, CleanEffect
  <2>9. b + 1 \notin Freed(a, {"break"}) BY <2>0, <2>8, <2>1, <1>0, CleanEffect
  <2> QED BY <2>0, <2>4, <2>8, <2>9, <1>0, <1>4 DEF Restore
<1>5. CASE CleanAll \/ Reboot
  BY <1>5, <1>0 DEF CleanAll, Reboot, CleanTable
<1>6. CASE TraceTrap
  <2>0. "trace" \in type[at] /\ "retrap" \in Types
    BY <1>6 DEF TraceTrap, Trap, Types
  <2>1. at \in Words /\ at + 1 \in Words /\ at # at + 1 BY <2>0, TraceNext
  <2>2. at \in TraceWords BY <2>0, <2>1 DEF IInv, PointsKnown
  <2>3. monitor_store_inst(at + 1, "retrap") BY <1>6 DEF TraceTrap
  <2>4. b + 1 # at /\ b # at + 1
    <3>1. b + 1 # at BY <2>2, <1>0
    <3>2. b = at + 1 => b - 1 = at BY <2>1, MonitorAssumption DEF Words
    <3>3. b # at + 1 BY <3>2, <2>2, <1>0 DEF Single, RetrapWords
    <3> QED BY <3>1, <3>3
  <2>5. CASE b # at
    <3>1. b + 1 # at + 1 BY <2>5, <2>1, <1>0, MonitorAssumption DEF Words
    <3>2. type'[b] = type[b] /\ type'[b + 1] = type[b + 1]
      BY <2>0, <2>1, <2>3, <2>4, <3>1, <1>0, StoreType DEF IInv
    <3>3. mem'[b] = mem[b] /\ mem'[b + 1] = mem[b + 1]
      BY <2>4, <2>5, <3>1, <1>0, <1>6 DEF TraceTrap
    <3> QED BY <3>2, <3>3, <1>b
  <2>6. CASE b = at /\ Found(at + 1)
    <3>1. "retrap" \in type[b + 1] BY <2>6, <1>0, OneFlag DEF Found
    <3>2. mem[b + 1] = "hvc" BY <3>1, <1>0 DEF Armed
    <3>3. mem'[b + 1] = "hvc" BY <3>2, <2>6, <2>1, <1>0, <1>6 DEF TraceTrap
    <3>4. "retrap" \in type'[b + 1]
      BY <3>1, <2>0, <2>1, <2>3, <1>0, StoreType DEF IInv
    <3> QED BY <3>3, <3>4
  <2>7. CASE b = at /\ ~ Found(at + 1)
    <3>1. Stores(at + 1) BY <2>7, <1>0, RoomForPoint DEF Stores
    <3>2. "retrap" \in type'[b + 1]
      BY <3>1, <2>7, <2>0, <2>1, <2>3, StoreType DEF IInv
    <3>3. mem'[b + 1] = "hvc" BY <3>1, <2>7, <2>1, <1>6 DEF TraceTrap
    <3> QED BY <3>2, <3>3
  <2> QED BY <2>5, <2>6, <2>7
<1>7. CASE RetrapTrap
  <2>0. at \in Words /\ "retrap" \in type[at]
    BY <1>7 DEF IInv, TypeOK, RetrapTrap, Trap
  <2>1. \A c \in Words : type'[c] = IF c = at THEN {} ELSE type[c]
    BY <1>7, <2>0 DEF RetrapTrap, IInv, TypeOK
  <2>2. b # at BY <2>1, <1>0
  <2>3. at # b + 1
    <3> SUFFICES ASSUME at = b + 1 PROVE FALSE OBVIOUS
    <3>1. at - 1 = b BY <1>0
    <3>2. mem'[b] = "hvc" BY <3>1, <2>2, <1>0, <1>a, <1>7 DEF RetrapTrap
    <3> QED BY <3>2
  <2>4. mem'[b] = mem[b]
    BY <2>2, <1>0, <1>a, <1>7 DEF RetrapTrap
  <2>5. "retrap" \in type[b + 1] /\ mem[b + 1] = "hvc"
    BY <2>1, <2>2, <2>4, <1>0 DEF TraceRearmed
  <2>6. mem'[b + 1] = "hvc"
    BY <2>3, <2>5, <1>0, <1>a, <1>7 DEF RetrapTrap
  <2> QED BY <2>1, <2>3, <2>5, <2>6, <1>0
<1>8. CASE UNCHANGED <<mem, type>> BY <1>8 DEF TraceRearmed
<1>9. CASE Stop \/ Run \/ Execute \/ BreakTrap \/ OtherTrap \/ UNCHANGED vars
  BY <1>8, <1>9 DEF Stop, Run, Execute, BreakTrap, OtherTrap, vars
<1> QED
  BY <1>1, <1>2, <1>3, <1>4, <1>5, <1>6, <1>7, <1>9, MonitorAssumption DEF Next

(***************************************************************************)
(* With a table that has room for every point, a trace point on a single   *)
(* word with a single word behind it is armed or has its retrap waiting    *)
(* there.                                                                  *)
(***************************************************************************)
THEOREM TracesRearmed ==
  ASSUME Enough
  PROVE  Spec => []TraceRearmed
<1>1. Init => TraceRearmed
  BY MonitorAssumption DEF Init, TraceRearmed
<1>2. IInv /\ Armed /\ TraceRearmed /\ [Next]_vars => TraceRearmed'
  BY StepRearmed
<1> QED BY <1>1, <1>2, ArmedInvariance, PTL DEF Spec

(***************************************************************************)
(* With room in the table for its retraps, every trace that waits to be    *)
(* armed again has one, and no retrap is left over from a trace that went. *)
(***************************************************************************)
THEOREM TracesPaired ==
  ASSUME Enough
  PROVE  Spec => []TracePaired
BY RetrapsOwned, TracesRearmed, PTL DEF TracePaired

-----------------------------------------------------------------------------
(***************************************************************************)
(* The GDB stub.  What is on the line at any time is a short sequence that *)
(* the places of gdb() and of the debugger determine: the exchange goes    *)
(* through seven phases, and in each the command that is worked on, and    *)
(* the answer that is on its way, is the one the debugger waits for.       *)
(***************************************************************************)

Plus  == Char("+")
Minus == Char("-")
Sent(ok) == Packet(host.cmd, ok)

\* What the debugger may still find on the line before an answer: the + of its command and
\* the echo of its last + or -.
Lead(d) ==
  \/ host.does = "acking" /\ d \in {<<Plus>>, <<Plus, Plus>>}
  \/ host.does \in {"waiting", "away"} /\ d \in {<<>>, <<Plus>>, <<Minus>>}

\* A break is still to be set, or away to be taken.
Due == /\ host.cmd.op = "break" => mem[host.cmd.a] = "own"
       /\ host.cmd.op = "restore" => type[host.cmd.a] = {"break"}

\* The stub waits for a command.
Waits == main.at = "get" /\ handler = "none" /\ virqs = 0 /\ stopped

\* The target was resumed by the last command; before the first, it was never stopped.
Resumed == \/ main.at = "get" /\ host.cmd.op = "c"
           \/ main.at = "cli" /\ host.cmd.op \in {"k", "none"}

\* Nothing is asked of the stub.  A refused command will come again; one whose + was in fact
\* an echo will not.
Listening ==
  /\ Waits /\ up = <<>>
  /\ \/ host.does = "idle" /\ down \in {<<>>, <<Plus>>}
     \/ host.does = "acking" /\ Due /\ down \in {<<Minus>>, <<Plus, Minus>>}
     \/ Lead(down)

\* The command is on the line, behind the echo of the last answer's +.
Commanded ==
  /\ Waits /\ Due
  /\ \E ok \in BOOLEAN : up = <<Sent(ok)>>
  /\ \/ host.does = "acking" /\ down \in {<<>>, <<Plus>>}
     \/ host.does \in {"waiting", "away"} /\ down = <<>>

\* How far the command is.
Progress ==
  \/ main.at = "execute" /\ main.cmd = host.cmd /\ virqs = 0 /\ Due
  \/ main.at = "registers" /\ host.cmd.op = "g" /\ virqs = 1 /\ mail.type = "REGISTER" /\ mail.regs = at
  \/ main.at = "registers" /\ host.cmd.op = "g" /\ virqs = 0 /\ (target_regs = at \/ refused)
  \/ main.at = "memory" /\ host.cmd.op = "m" /\ virqs \in {0, 1} /\ mail.type = "MEMORY"
       /\ mail.dump = View(host.cmd.a)
  \/ main.at = "put" /\ virqs = 0 /\ True(host.cmd, reply_buf)

Working ==
  /\ handler = "none" /\ stopped
  /\ up = <<>> /\ Lead(down)
  /\ Progress

\* The target runs, or has met a break that the stub does not yet report, or never will.
Running ==
  /\ Resumed /\ up = <<>> /\ Lead(down)
  /\ \/ ~ stopped /\ handler = "none" /\ virqs = 0
     \/ stopped /\ handler = "none" /\ virqs = 1 /\ mail.type = "BREAK"
     \/ stopped /\ handler \in {"none", "signal"} /\ virqs = 0

\* put_packet waits in uart_getc, in gdb() or in the handler.
Reports == handler = "signalled" /\ main.at \in {"get", "cli"}
Asks == stopped /\ virqs = 0 /\ (Reports \/ (handler = "none" /\ main.at = "ack"))
Body == IF Reports THEN "S05" ELSE reply_buf
Valid == IF Reports THEN Resumed ELSE True(host.cmd, reply_buf)

Replied ==
  /\ Asks /\ Valid /\ up = <<>>
  /\ \/ host.does = "away" /\ Lead(down)
     \/ \E ok \in BOOLEAN, d \in {<<>>, <<Plus>>, <<Minus>>, <<Plus, Plus>>} :
          Lead(d) /\ down = Append(d, Packet(Body, ok))

RefusedReply == Asks /\ Valid /\ host.does = "waiting" /\ up = <<Minus>> /\ down = <<>>

\* The debugger has its answer, and perhaps already sent the next command.
Accepted ==
  /\ Asks /\ main.at # "cli" /\ down = <<>>
  /\ \/ host.does = "idle" /\ up = <<Plus>>
     \/ host.does = "acking" /\ Due /\ \E ok \in BOOLEAN : up = <<Plus, Sent(ok)>>

Exchange == \/ Listening \/ Commanded \/ Working \/ Running
            \/ Replied \/ RefusedReply \/ Accepted

GdbTypes ==
  /\ host \in [does : {"away", "idle", "acking", "waiting"}, cmd : Commands \union {NoCommand}]
  /\ main \in [at : {"cli", "get", "execute", "registers", "memory", "put", "ack"},
               cmd : Commands \union {NoCommand}]
  /\ mail \in [type : {"LIST", "REGISTER", "MEMORY", "BREAK"}, va : {0}, regs : Words,
               dump : {"own", "break", "zero", "data"}, list : {<<>>}]

\* k ends the debugger's session, and every other command waits for an answer.
Session ==
  /\ host.does = "away" => host.cmd.op \in {"k", "none"}
  /\ host.does = "acking" => host.cmd.op # "none"
  /\ host.does = "waiting" => host.cmd.op \notin {"k", "none"}

\* The stub only sets breaks.
OnlyBreaks ==
  \A a \in Words : type[a] \in {{}, {"break"}} /\ (Found(a) <=> mem[a] = "hvc")

GdbInv == GdbTypes /\ Session /\ OnlyBreaks /\ Exchange

-----------------------------------------------------------------------------
(* The line *)

LEMMA Kinds ==
  /\ Plus.kind = "+" /\ Minus.kind = "-" /\ Plus # Minus
  /\ \A b, ok : Packet(b, ok).kind = "packet" /\ Packet(b, ok).body = b
<1>1. Plus.kind = "+" /\ Minus.kind = "-" BY DEF Plus, Minus, Char
<1>2. \A b, ok : Packet(b, ok).kind = "packet" /\ Packet(b, ok).body = b BY DEF Packet
<1> QED BY <1>1, <1>2

LEMMA Pair == ASSUME NEW x, NEW y PROVE Append(<<x>>, y) = <<x, y>>
<1> DEFINE S == {x, y}
<1>1. <<x>> \in Seq(S) /\ <<x, y>> \in Seq(S) /\ y \in S OBVIOUS
<1>2. Len(<<x>>) = 1 /\ Len(<<x, y>>) = 2 /\ <<x>>[1] = x /\ <<x, y>>[1] = x /\ <<x, y>>[2] = y
  OBVIOUS
<1>3. /\ Append(<<x>>, y) \in Seq(S)
      /\ Len(Append(<<x>>, y)) = Len(<<x>>) + 1
      /\ \A i \in 1 .. Len(<<x>>) : Append(<<x>>, y)[i] = <<x>>[i]
      /\ Append(<<x>>, y)[Len(<<x>>) + 1] = y
  BY <1>1, AppendProperties, Zenon
<1> DEFINE s == Append(<<x>>, y)
           t == <<x, y>>
<1>4. Len(s) = 2 /\ s[1] = x /\ s[2] = y
  <2>1. Len(s) = 1 + 1 /\ s[1 + 1] = y /\ \A i \in 1 .. 1 : s[i] = <<x>>[i] BY <1>2, <1>3, Zenon
  <2>2. 1 + 1 = 2 /\ 1 \in 1 .. 1 OBVIOUS
  <2> QED BY <2>1, <2>2, <1>2, Zenon
<1>5. \A i \in 1 .. Len(s) : s[i] = t[i]
  <2>1. \A i \in 1 .. 2 : i = 1 \/ i = 2 OBVIOUS
  <2> QED BY <2>1, <1>2, <1>4, Zenon
<1>6. Len(t) = 2 BY <1>2, Zenon
<1> HIDE DEF s, t
<1>7. s \in Seq(S) /\ t \in Seq(S) BY <1>1, <1>3, Zenon DEF s, t
<1>8. s = t BY <1>4, <1>5, <1>6, <1>7, SeqEqual, Zenon
<1> QED BY <1>8 DEF s, t

LEMMA Triple == ASSUME NEW x, NEW y, NEW z PROVE Append(<<x, y>>, z) = <<x, y, z>>
<1> DEFINE S == {x, y, z}
           p == <<x, y>>
           t == <<x, y, z>>
           s == Append(p, z)
<1>1. p \in Seq(S) /\ t \in Seq(S) /\ z \in S OBVIOUS
<1>2. /\ Len(p) = 2 /\ p[1] = x /\ p[2] = y
      /\ Len(t) = 3 /\ t[1] = x /\ t[2] = y /\ t[3] = z
  OBVIOUS
<1> HIDE DEF p, t
<1>3. /\ s \in Seq(S)
      /\ Len(s) = Len(p) + 1
      /\ \A i \in 1 .. Len(p) : s[i] = p[i]
      /\ s[Len(p) + 1] = z
  <2>1. p \in Seq(S) /\ z \in S BY <1>1
  <2> HIDE DEF S
  <2>2. /\ Append(p, z) \in Seq(S)
        /\ Len(Append(p, z)) = Len(p) + 1
        /\ \A i \in 1 .. Len(p) : Append(p, z)[i] = p[i]
        /\ Append(p, z)[Len(p) + 1] = z
    BY <2>1, AppendProperties
  <2> QED BY <2>2
<1> HIDE DEF s
<1>4. Len(s) = 3 /\ s[1] = x /\ s[2] = y /\ s[3] = z
  <2>1. Len(s) = 2 + 1 /\ s[2 + 1] = z /\ \A i \in 1 .. 2 : s[i] = p[i] BY <1>2, <1>3, Zenon
  <2>2. 2 + 1 = 3 /\ 1 \in 1 .. 2 /\ 2 \in 1 .. 2 OBVIOUS
  <2> QED BY <2>1, <2>2, <1>2, Zenon
<1>5. \A i \in 1 .. Len(s) : s[i] = t[i]
  <2>1. \A i \in 1 .. 3 : i = 1 \/ i = 2 \/ i = 3 OBVIOUS
  <2> QED BY <2>1, <1>2, <1>4, Zenon
<1>6. s = t BY <1>1, <1>2, <1>3, <1>4, <1>5, SeqEqual, Zenon
<1> QED BY <1>6 DEF s, t, p

LEMMA Short ==
  /\ \A x : /\ <<x>> # <<>> /\ Head(<<x>>) = x /\ Tail(<<x>>) = <<>>
            /\ Append(<<>>, x) = <<x>>
  /\ \A x, y : /\ <<x, y>> # <<>> /\ Head(<<x, y>>) = x /\ Tail(<<x, y>>) = <<y>>
               /\ Append(<<x>>, y) = <<x, y>>
  /\ \A x, y, z : /\ <<x, y, z>> # <<>> /\ Head(<<x, y, z>>) = x
                  /\ Tail(<<x, y, z>>) = <<y, z>> /\ Append(<<x, y>>, z) = <<x, y, z>>
<1>1. \A x : <<x>> # <<>> /\ Head(<<x>>) = x /\ Tail(<<x>>) = <<>> /\ Append(<<>>, x) = <<x>>
  OBVIOUS
<1>2. \A x, y : <<x, y>> # <<>> /\ Head(<<x, y>>) = x /\ Tail(<<x, y>>) = <<y>>
  OBVIOUS
<1>3. \A x, y, z : /\ <<x, y, z>> # <<>> /\ Head(<<x, y, z>>) = x
                  /\ Tail(<<x, y, z>>) = <<y, z>>
  OBVIOUS
<1>4. \A x, y : Append(<<x>>, y) = <<x, y>> BY Pair, Zenon
<1>5. \A x, y, z : Append(<<x, y>>, z) = <<x, y, z>> BY Triple, Zenon
<1>6. \A x, y : /\ <<x, y>> # <<>> /\ Head(<<x, y>>) = x /\ Tail(<<x, y>>) = <<y>>
               /\ Append(<<x>>, y) = <<x, y>>
  BY <1>2, <1>4, Zenon
<1>7. \A x, y, z : /\ <<x, y, z>> # <<>> /\ Head(<<x, y, z>>) = x
                  /\ Tail(<<x, y, z>>) = <<y, z>> /\ Append(<<x, y>>, z) = <<x, y, z>>
  BY <1>3, <1>5, Zenon
<1> QED BY <1>1, <1>6, <1>7

-----------------------------------------------------------------------------
(* The steps of the debugger *)

LEMMA HostFields ==
  ASSUME GdbTypes
  PROVE  /\ host = [does |-> host.does, cmd |-> host.cmd]
         /\ \A d : [host EXCEPT !.does = d] = [does |-> d, cmd |-> host.cmd]
BY DEF GdbTypes

LEMMA HostAttachStep ==
  ASSUME GdbInv, HostAttach PROVE GdbInv'
<1>1. /\ host.does = "away" /\ main.at = "get" /\ up = <<>> /\ down' = <<>>
      /\ UNCHANGED <<up, main, handler, reply_buf, target_regs, mail, virqs, refused, mem, type, saved, at, stopped>>
  BY DEF HostAttach, stub, vars
<1>2. host' = [does |-> "idle", cmd |-> host.cmd]
  BY HostFields DEF HostAttach, GdbInv
<1>3. Listening
  <2>1. host.cmd.op \in {"k", "none"} BY <1>1 DEF GdbInv, Session
  <2>2. ~ Commanded /\ ~ Accepted BY <1>1, Short DEF Commanded, Accepted
  <2>3. ~ Working BY <1>1 DEF Working, Progress
  <2>4. ~ Running BY <1>1, <2>1 DEF Running, Resumed
  <2>5. ~ Replied BY <1>1, <2>1 DEF Replied, Asks, Valid, Reports, Resumed
  <2>6. ~ RefusedReply BY <1>1 DEF RefusedReply
  <2> QED BY <2>2, <2>3, <2>4, <2>5, <2>6 DEF GdbInv, Exchange
<1>4. Listening' BY <1>1, <1>2, <1>3 DEF Listening, Waits
<1>5. GdbTypes' BY <1>1, <1>2 DEF GdbInv, GdbTypes
<1>6. Session' BY <1>2 DEF Session
<1>7. OnlyBreaks' BY <1>1 DEF GdbInv, OnlyBreaks, Found
<1> QED BY <1>4, <1>5, <1>6, <1>7 DEF GdbInv, Exchange

LEMMA HostSendStep ==
  ASSUME GdbInv, NEW c \in Commands, HostSend(c) PROVE GdbInv'
<1>1. /\ host.does = "idle" /\ host' = [does |-> "acking", cmd |-> c]
      /\ UNCHANGED <<down, main, handler, reply_buf, target_regs, mail, virqs, refused, mem, type, saved, at, stopped>>
  BY DEF HostSend, stub, vars
<1>2. PICK ok \in BOOLEAN : up' = Append(up, Packet(c, ok)) BY DEF HostSend, HostPut
<1>3. Due' BY <1>1 DEF HostSend, Due
<1>4. Listening \/ Accepted
  <2>1. ~ Commanded /\ ~ RefusedReply /\ ~ Lead(down) BY <1>1 DEF Commanded, RefusedReply, Lead
  <2>2. ~ Working /\ ~ Running BY <2>1 DEF Working, Running
  <2>3. ~ Replied BY <1>1 DEF Replied, Lead
  <2> QED BY <2>1, <2>2, <2>3 DEF GdbInv, Exchange
<1>5. Exchange'
  <2>1. CASE Listening
    <3>1. up' = <<Packet(c, ok)>> BY <2>1, <1>2, Short DEF Listening
    <3>2. down' \in {<<>>, <<Plus>>} BY <1>1, <2>1 DEF Listening, Lead
    <3>3. Waits' BY <1>1, <2>1 DEF Listening, Waits
    <3>4. Commanded' BY <3>1, <3>2, <3>3, <1>1, <1>3 DEF Commanded, Sent, Plus
    <3> QED BY <3>4 DEF Exchange
  <2>2. CASE Accepted
    <3>1. up = <<Plus>> /\ down = <<>> BY <2>2, <1>1 DEF Accepted
    <3>2. up' = <<Plus, Packet(c, ok)>> BY <3>1, <1>2, Short
    <3>3. Asks' /\ main'.at # "cli" BY <1>1, <2>2 DEF Accepted, Asks, Reports
    <3>4. Accepted' BY <3>1, <3>2, <3>3, <1>1, <1>3 DEF Accepted, Sent, Plus
    <3> QED BY <3>4 DEF Exchange
  <2> QED BY <2>1, <2>2, <1>4
<1>6. GdbTypes' BY <1>1 DEF GdbInv, GdbTypes
<1>7. Session' BY <1>1 DEF Session, Commands, Simple, Ignored
<1>8. OnlyBreaks' BY <1>1 DEF GdbInv, OnlyBreaks, Found
<1> QED BY <1>5, <1>6, <1>7, <1>8 DEF GdbInv

\* What a step of the debugger leaves as it was.
Unmoved == UNCHANGED <<main, handler, reply_buf, target_regs, mail, virqs, refused, mem, type, saved, at, stopped>>

\* A step that changes neither the command nor the stub keeps what was known of them.
LEMMA StubKept ==
  ASSUME Unmoved, host'.cmd = host.cmd
  PROVE  /\ Due' = Due /\ Waits' = Waits /\ Resumed' = Resumed /\ Asks' = Asks /\ Body' = Body
         /\ Valid' = Valid /\ Progress' = Progress
         /\ OnlyBreaks' = OnlyBreaks
<1>1. Due' = Due /\ Waits' = Waits /\ Resumed' = Resumed /\ Reports' = Reports
  BY DEF Unmoved, Due, Waits, Resumed, Reports
<1>2. Asks' = Asks /\ Body' = Body BY <1>1 DEF Unmoved, Asks, Body
<1>3. \A c, b : True(c, b)' = True(c, b) BY DEF Unmoved, True, Answer, View
<1>4. Valid' = Valid BY <1>1, <1>3 DEF Unmoved, Valid
<1>5. True(host.cmd, reply_buf)' = True(host.cmd, reply_buf) BY DEF Unmoved, True, Answer, View
<1>6. View(host.cmd.a)' = View(host.cmd.a) BY DEF Unmoved, View
<1>7. Progress' = Progress BY <1>1, <1>5, <1>6 DEF Unmoved, Progress
<1>8. OnlyBreaks' = OnlyBreaks BY DEF Unmoved, OnlyBreaks, Found
<1> QED BY <1>1, <1>2, <1>4, <1>7, <1>8

LEMMA HostAckingStep ==
  ASSUME GdbInv, HostAcking PROVE GdbInv'
<1>1. host.does = "acking" /\ down # <<>> /\ down' = Tail(down) /\ Unmoved
  BY DEF HostAcking, stub, vars, Unmoved
<1>2. /\ Head(down).kind = "+" =>
           /\ host' = [does |-> IF host.cmd.op = "k" THEN "away" ELSE "waiting", cmd |-> host.cmd]
           /\ up' = up
      /\ Head(down).kind = "-" =>
           host' = host /\ \E ok \in BOOLEAN : up' = Append(up, Sent(ok))
  BY HostFields DEF HostAcking, HostPut, Sent, GdbInv
<1>3. host.cmd.op # "none" BY <1>1 DEF GdbInv, Session
<1>4. Head(down).kind = "+" \/ (Head(down).kind = "-" /\ Listening /\ down = <<Minus>>)
  <2>1. CASE Listening
    BY <2>1, <1>1, Short, Kinds DEF Listening, Lead
  <2>2. CASE Commanded BY <2>2, <1>1, Short, Kinds DEF Commanded
  <2>3. CASE Working \/ Running BY <2>3, <1>1, Short, Kinds DEF Working, Running, Lead
  <2>4. CASE Replied
    <3>1. PICK ok \in BOOLEAN, d \in {<<Plus>>, <<Plus, Plus>>} : down = Append(d, Packet(Body, ok))
      BY <2>4, <1>1, Short DEF Replied, Lead
    <3>2. Head(down) = Plus BY <3>1, Short
    <3> QED BY <3>2, Kinds
  <2>5. ~ RefusedReply /\ ~ Accepted BY <1>1 DEF RefusedReply, Accepted
  <2> QED BY <2>1, <2>2, <2>3, <2>4, <2>5 DEF GdbInv, Exchange
<1>5. host'.cmd = host.cmd /\ host' \in [does : {"acking", "away", "waiting"}, cmd : Commands \union {NoCommand}]
  BY <1>1, <1>2, <1>4 DEF GdbInv, GdbTypes
<1>6. GdbTypes' BY <1>1, <1>5 DEF GdbInv, GdbTypes, Unmoved
<1>7. Session' BY <1>1, <1>2, <1>3, <1>4 DEF Session
<1>8. OnlyBreaks' BY <1>1, <1>5, StubKept DEF GdbInv
<1>9. CASE Head(down).kind = "-"
  <2>1. Listening /\ down = <<Minus>> /\ host' = host BY <1>2, <1>4, <1>9, Kinds
  <2>2. PICK ok \in BOOLEAN : up' = Append(up, Sent(ok)) BY <1>2, <1>9
  <2>3. up' = <<Sent(ok)>> BY <2>1, <2>2, Short DEF Listening
  <2>4. up' = <<Sent(ok)'>> BY <2>1, <2>3 DEF Sent
  <2>5. down' = <<>> BY <1>1, <2>1, Short
  <2>6. Due /\ Waits BY <2>1, <1>1, Kinds, Short DEF Listening, Lead
  <2>7. Due' /\ Waits' BY <1>1, <1>5, <2>6, StubKept
  <2>8. Commanded' BY <1>1, <2>1, <2>4, <2>5, <2>7 DEF Commanded
  <2> QED BY <1>6, <1>7, <1>8, <2>8 DEF GdbInv, Exchange
<1>10. CASE Head(down).kind = "+"
  <2> SUFFICES Exchange' BY <1>6, <1>7, <1>8 DEF GdbInv
  <2>1. host'.does \in {"waiting", "away"} /\ up' = up BY <1>2, <1>10
  <2>2. ASSUME Lead(down) PROVE Lead(down)'
    <3>1. down \in {<<Plus>>, <<Plus, Plus>>} BY <2>2, <1>1 DEF Lead
    <3>2. down' \in {<<>>, <<Plus>>}
      <4>1. CASE down = <<Plus>> BY <4>1, <1>1, Short, Zenon
      <4>2. CASE down = <<Plus, Plus>> BY <4>2, <1>1, Short, Zenon
      <4> QED BY <3>1, <4>1, <4>2
    <3> QED BY <2>1, <3>2 DEF Lead, Plus
  <2>3. CASE Listening
    <3>1. CASE ~ Lead(down)
      <4>1. down = <<Plus, Minus>> BY <3>1, <2>3, <1>1, <1>10, Short, Kinds DEF Listening
      <4>2. down' = <<Minus>> BY <4>1, <1>1, Short
      <4>3. Lead(down)' BY <4>2, <2>1 DEF Lead, Minus
      <4> QED BY <4>3, <2>1, <2>3, <1>1, <1>5, StubKept DEF Listening, Exchange
    <3>2. CASE Lead(down)
      BY <3>2, <2>1, <2>2, <2>3, <1>1, <1>5, StubKept DEF Listening, Exchange
    <3> QED BY <3>1, <3>2
  <2>4. CASE Commanded
    <3>1. down' = <<>> BY <2>4, <1>1, Short DEF Commanded
    <3>2. \A ok : Sent(ok)' = Sent(ok) BY <1>5 DEF Sent
    <3> QED BY <3>1, <3>2, <2>1, <2>4, <1>1, <1>5, StubKept DEF Commanded, Exchange
  <2>5. CASE Working
    BY <2>1, <2>2, <2>5, <1>1, <1>5, StubKept DEF Working, Exchange, Unmoved
  <2>6. CASE Running
    BY <2>1, <2>2, <2>6, <1>1, <1>5, StubKept DEF Running, Exchange, Unmoved
  <2>7. CASE Replied
    <3>1. PICK ok \in BOOLEAN, d \in {<<Plus>>, <<Plus, Plus>>} : down = Append(d, Packet(Body, ok))
      BY <2>7, <1>1, Short DEF Replied, Lead
    <3>2. PICK e \in {<<>>, <<Plus>>} : down' = Append(e, Packet(Body, ok))
      <4>1. CASE d = <<Plus>>
        <5>1. down = <<Plus, Packet(Body, ok)>> BY <4>1, <3>1, Short, Zenon
        <5>2. down' = <<Packet(Body, ok)>> BY <5>1, <1>1, Short, Zenon
        <5>3. down' = Append(<<>>, Packet(Body, ok)) BY <5>2, Short, Zenon
        <5> QED BY <5>3
      <4>2. CASE d = <<Plus, Plus>>
        <5>1. down' = Append(<<Plus>>, Packet(Body, ok)) BY <4>2, <3>1, <1>1, Short
        <5> QED BY <5>1
      <4> QED BY <4>1, <4>2
    <3>3. Lead(e)' BY <2>1 DEF Lead, Plus
    <3>4. down' = Append(e, Packet(Body', ok)) BY <3>2, <1>1, <1>5, StubKept
    <3>5. Asks' /\ Valid' /\ up' = <<>> BY <2>1, <2>7, <1>1, <1>5, StubKept DEF Replied
    <3>6. Replied' BY <3>3, <3>4, <3>5 DEF Replied
    <3> QED BY <3>6 DEF Exchange
  <2>8. ~ RefusedReply /\ ~ Accepted BY <1>1 DEF RefusedReply, Accepted
  <2> QED BY <2>3, <2>4, <2>5, <2>6, <2>7, <2>8 DEF GdbInv, Exchange
<1> QED BY <1>4, <1>9, <1>10

LEMMA HostWaitingStep ==
  ASSUME GdbInv, HostWaiting PROVE GdbInv'
<1>1. host.does = "waiting" /\ down # <<>> /\ down' = Tail(down) /\ Unmoved
  BY DEF HostWaiting, stub, vars, Unmoved
<1>2. /\ HostAccepts => host' = [does |-> "idle", cmd |-> host.cmd] /\ up' = Append(up, Plus)
      /\ ~ HostAccepts => host' = host
      /\ ~ HostAccepts /\ Head(down).kind = "packet" => up' = Append(up, Minus)
      /\ ~ HostAccepts /\ Head(down).kind # "packet" => up' = up
      /\ HostAccepts => Head(down).kind = "packet"
  <2>1. HostAccepts => Head(down).kind = "packet" BY DEF HostAccepts
  <2> QED BY <2>1, HostFields DEF HostWaiting, GdbInv, Plus, Minus
<1>3. host.cmd.op \notin {"k", "none"} BY <1>1 DEF GdbInv, Session
<1>4. host'.cmd = host.cmd /\ host'.does \in {"idle", "waiting"} BY <1>1, <1>2
<1>5. GdbTypes'
  <2>1. host' = host \/ host' = [does |-> "idle", cmd |-> host.cmd] BY <1>2
  <2> QED BY <2>1, <1>1 DEF GdbInv, GdbTypes, Unmoved
<1>6. Session' BY <1>1, <1>3, <1>4 DEF Session
<1>7. OnlyBreaks' BY <1>1, <1>4, StubKept DEF GdbInv
<1> SUFFICES Exchange' BY <1>5, <1>6, <1>7 DEF GdbInv
<1>8. ASSUME Lead(down) PROVE Head(down).kind # "packet" /\ down' = <<>>
  <2>1. down = <<Plus>> \/ down = <<Minus>> BY <1>1, <1>8 DEF Lead
  <2>2. CASE down = <<Plus>> BY <2>2, <1>1, Short, Kinds
  <2>3. CASE down = <<Minus>> BY <2>3, <1>1, Short, Kinds
  <2> QED BY <2>1, <2>2, <2>3
<1>9. ASSUME Lead(down) PROVE up' = up /\ Lead(down)'
  <2>1. up' = up /\ host' = host /\ down' = <<>> BY <1>2, <1>8, <1>9
  <2> QED BY <2>1, <1>1 DEF Lead
<1>10. CASE Listening
  <2>1. Lead(down) BY <1>10, <1>1 DEF Listening
  <2> QED BY <2>1, <1>1, <1>4, <1>9, <1>10, StubKept DEF Listening, Exchange
<1>11. CASE Working
  BY <1>1, <1>4, <1>9, <1>11, StubKept DEF Working, Exchange, Unmoved
<1>12. CASE Running
  BY <1>1, <1>4, <1>9, <1>12, StubKept DEF Running, Exchange, Unmoved
<1>13. CASE Replied
  <2>1. PICK ok \in BOOLEAN, d \in {<<>>, <<Plus>>, <<Minus>>} :
          Lead(d) /\ down = Append(d, Packet(Body, ok))
    BY <1>13, <1>1, Short DEF Replied, Lead
  <2>2. Asks' /\ Valid' /\ up = <<>> BY <1>1, <1>4, <1>13, StubKept DEF Replied
  <2>3. CASE d = <<>>
    <3>1. down = <<Packet(Body, ok)>> BY <2>1, <2>3, Short, Zenon
    <3>2. down' = <<>> /\ Head(down).kind = "packet" BY <3>1, <1>1, Short, Kinds
    <3>3. CASE HostAccepts
      <4>1. up' = <<Plus>> BY <3>3, <1>2, <2>2, Short
      <4>2. main.at # "cli" BY <1>3, <1>13 DEF Replied, Asks, Valid, Reports, Resumed
      <4>3. main'.at # "cli" BY <4>2, <1>1 DEF Unmoved
      <4>4. host'.does = "idle" BY <3>3, <1>2
      <4>5. Accepted' BY <2>2, <3>2, <4>1, <4>3, <4>4 DEF Accepted, Plus
      <4> QED BY <4>5 DEF Exchange
    <3>4. CASE ~ HostAccepts
      <4>1. up' = <<Minus>> BY <3>2, <3>4, <1>2, <2>2, Short
      <4>2. host'.does = "waiting" BY <3>4, <1>1, <1>2
      <4>3. RefusedReply' BY <2>2, <3>2, <4>1, <4>2 DEF RefusedReply, Minus
      <4> QED BY <4>3 DEF Exchange
    <3> QED BY <3>3, <3>4
  <2>4. CASE d # <<>>
    <3>1. PICK c \in {Plus, Minus} : d = <<c>> BY <2>4, <2>1
    <3>2. down = <<c, Packet(Body, ok)>> BY <2>1, <3>1, Short, Zenon
    <3>3. down' = <<Packet(Body, ok)>> /\ Head(down) = c BY <3>2, <1>1, Short, Zenon
    <3>4. c.kind # "packet" BY Kinds, <3>1
    <3>5. up' = up /\ host' = host BY <3>3, <3>4, <1>2
    <3>6. down' = Append(<<>>, Packet(Body', ok))
      BY <3>3, <1>1, <1>4, StubKept, Short
    <3>7. Lead(<<>>)' BY <3>5, <1>1 DEF Lead
    <3>8. Replied' BY <2>2, <3>5, <3>6, <3>7 DEF Replied
    <3> QED BY <3>8 DEF Exchange
  <2> QED BY <2>3, <2>4
<1>14. ~ Commanded /\ ~ RefusedReply /\ ~ Accepted
  BY <1>1 DEF Commanded, RefusedReply, Accepted
<1> QED BY <1>10, <1>11, <1>12, <1>13, <1>14 DEF GdbInv, Exchange

LEMMA HostGivesUpStep ==
  ASSUME GdbInv, HostGivesUp PROVE GdbInv'
<1>1. /\ stopped /\ up = <<>> /\ down = <<>> /\ main.at = "get" /\ handler = "none" /\ virqs = 0
      /\ up' = up /\ down' = down /\ Unmoved
  BY DEF HostGivesUp, line, stub, vars, Unmoved
<1>2. host' = [does |-> "idle", cmd |-> host.cmd] BY HostFields DEF HostGivesUp, GdbInv
<1>3. Listening' BY <1>1, <1>2 DEF Listening, Waits, Unmoved
<1>4. GdbTypes' BY <1>1, <1>2 DEF GdbInv, GdbTypes, Unmoved
<1>5. Session' BY <1>2 DEF Session
<1>6. OnlyBreaks' BY <1>1, <1>2, StubKept DEF GdbInv
<1> QED BY <1>3, <1>4, <1>5, <1>6 DEF GdbInv, Exchange

-----------------------------------------------------------------------------
(* The steps of the handler and of put_packet *)

LEMMA TakeMailStep ==
  ASSUME GdbInv, TakeMail, UNCHANGED vars PROVE GdbInv'
<1>1. /\ virqs > 0 /\ handler = "none" /\ virqs' = virqs - 1
      /\ UNCHANGED <<host, up, down, main, reply_buf, mail, refused, mem, type, saved, at, stopped>>
      /\ target_regs' = IF mail.type = "REGISTER" THEN mail.regs ELSE target_regs
      /\ handler' = IF mail.type = "BREAK" THEN "signal" ELSE "none"
  BY DEF TakeMail, Interrupted, line, vars
<1>2. GdbTypes' BY <1>1 DEF GdbInv, GdbTypes
<1>3. Session' BY <1>1 DEF GdbInv, Session
<1>4. OnlyBreaks' BY <1>1 DEF GdbInv, OnlyBreaks, Found
<1>5. virqs # 0 BY <1>1
<1>6. Working \/ Running
  <2>1. ~ Listening /\ ~ Commanded BY <1>5 DEF Listening, Commanded, Waits
  <2>2. ~ Replied /\ ~ RefusedReply /\ ~ Accepted BY <1>5 DEF Replied, RefusedReply, Accepted, Asks
  <2> QED BY <2>1, <2>2 DEF GdbInv, Exchange
<1>7. CASE Working
  <2>1. virqs = 1 /\ virqs' = 0 BY <1>1, <1>5, <1>7 DEF Working, Progress
  <2>2. \/ main.at = "registers" /\ host.cmd.op = "g" /\ mail.type = "REGISTER" /\ mail.regs = at
        \/ main.at = "memory" /\ host.cmd.op = "m" /\ mail.type = "MEMORY" /\ mail.dump = View(host.cmd.a)
    BY <2>1, <1>7 DEF Working, Progress
  <2>3. handler' = "none" BY <2>2, <1>1
  <2>4. Progress' BY <2>1, <2>2, <1>1 DEF Progress, View
  <2>5. Lead(down)' BY <1>1, <1>7 DEF Working, Lead
  <2> QED BY <2>3, <2>4, <2>5, <1>1, <1>2, <1>3, <1>4, <1>7 DEF Working, Exchange, GdbInv
<1>8. CASE Running
  <2>1. virqs = 1 /\ virqs' = 0 /\ stopped /\ mail.type = "BREAK" BY <1>1, <1>5, <1>8 DEF Running
  <2>2. handler' = "signal" BY <2>1, <1>1
  <2>3. Resumed' BY <1>1, <1>8 DEF Running, Resumed
  <2>4. Lead(down)' BY <1>1, <1>8 DEF Running, Lead
  <2> QED BY <2>1, <2>2, <2>3, <2>4, <1>1, <1>2, <1>3, <1>4, <1>8 DEF Running, Exchange, GdbInv
<1> QED BY <1>6, <1>7, <1>8

\* put_packet puts the reply behind what the debugger still finds, or on a line nobody reads.
LEMMA PacketPut ==
  ASSUME GdbInv, Lead(down), NEW b, PutPacket(b), UNCHANGED host
  PROVE  /\ up' = up
         /\ \/ host'.does = "away" /\ Lead(down)'
            \/ \E ok \in BOOLEAN, d \in {<<>>, <<Plus>>, <<Minus>>, <<Plus, Plus>>} :
                 Lead(d)' /\ down' = Append(d, Packet(b, ok))
<1>1. PICK ok \in BOOLEAN : down' = ToHost(Packet(b, ok)) BY DEF PutPacket
<1>2. up' = up BY DEF PutPacket
<1>3. CASE host.does = "away"
  <2>1. down' = down BY <1>1, <1>3 DEF ToHost
  <2> QED BY <2>1, <1>2, <1>3 DEF Lead
<1>4. CASE host.does # "away"
  <2>1. down' = Append(down, Packet(b, ok)) BY <1>1, <1>4 DEF ToHost
  <2>2. down \in {<<>>, <<Plus>>, <<Minus>>, <<Plus, Plus>>} BY DEF Lead
  <2>3. PICK d \in {<<>>, <<Plus>>, <<Minus>>, <<Plus, Plus>>} : d = down BY <2>2
  <2>4. Lead(d)' BY <2>3 DEF Lead
  <2> QED BY <2>1, <2>3, <2>4, <1>2
<1> QED BY <1>3, <1>4

LEMMA SignalStep ==
  ASSUME GdbInv, Signal PROVE GdbInv'
<1>1. /\ handler = "signal" /\ handler' = "signalled" /\ PutPacket("S05")
      /\ UNCHANGED <<host, main, reply_buf, target_regs, mail, virqs, refused, mem, type, saved, at, stopped>>
  BY DEF Signal, vars
<1>2. GdbTypes' BY <1>1 DEF GdbInv, GdbTypes
<1>3. Session' BY <1>1 DEF GdbInv, Session
<1>4. OnlyBreaks' BY <1>1 DEF GdbInv, OnlyBreaks, Found
<1>5. Running
  <2>1. ~ Listening /\ ~ Commanded /\ ~ Working BY <1>1 DEF Listening, Commanded, Waits, Working
  <2>2. ~ Replied /\ ~ RefusedReply /\ ~ Accepted
    BY <1>1 DEF Replied, RefusedReply, Accepted, Asks, Reports
  <2> QED BY <2>1, <2>2 DEF GdbInv, Exchange
<1>6. Resumed' /\ up = <<>> /\ Lead(down) /\ stopped /\ virqs = 0
  BY <1>1, <1>5 DEF Running, Resumed
<1>7. Reports'
  <2>1. main.at \in {"get", "cli"} BY <1>5 DEF Running, Resumed
  <2> QED BY <2>1, <1>1 DEF Reports
<1>8. Asks' /\ Valid' /\ Body' = "S05" BY <1>1, <1>6, <1>7 DEF Asks, Valid, Body
<1>9. /\ up' = up
      /\ \/ host'.does = "away" /\ Lead(down)'
         \/ \E ok \in BOOLEAN, d \in {<<>>, <<Plus>>, <<Minus>>, <<Plus, Plus>>} :
              Lead(d)' /\ down' = Append(d, Packet("S05", ok))
  BY <1>1, <1>6, PacketPut
<1>10. Replied' BY <1>6, <1>8, <1>9 DEF Replied, Plus, Minus
<1> QED BY <1>2, <1>3, <1>4, <1>10 DEF GdbInv, Exchange

LEMMA ReplyStep ==
  ASSUME GdbInv, Reply PROVE GdbInv'
<1>1. /\ main.at = "put" /\ handler = "none" /\ virqs = 0 /\ PutPacket(reply_buf)
      /\ UNCHANGED <<host, handler, reply_buf, target_regs, mail, virqs, refused, mem, type, saved, at, stopped>>
  BY DEF Reply, Loop, vars
<1>2. main' = [at |-> "ack", cmd |-> main.cmd] BY DEF Reply, GdbInv, GdbTypes
<1>3. GdbTypes' BY <1>1, <1>2 DEF GdbInv, GdbTypes
<1>4. Session' BY <1>1 DEF GdbInv, Session
<1>5. OnlyBreaks' BY <1>1 DEF GdbInv, OnlyBreaks, Found
<1>6. Working
  <2>1. ~ Listening /\ ~ Commanded BY <1>1 DEF Listening, Commanded, Waits
  <2>2. ~ Running BY <1>1 DEF Running, Resumed
  <2>3. ~ Replied /\ ~ RefusedReply /\ ~ Accepted
    BY <1>1 DEF Replied, RefusedReply, Accepted, Asks, Reports
  <2> QED BY <2>1, <2>2, <2>3 DEF GdbInv, Exchange
<1>7. True(host.cmd, reply_buf) /\ up = <<>> /\ Lead(down) /\ stopped
  BY <1>1, <1>6 DEF Working, Progress
<1>8. ~ Reports' /\ Asks' BY <1>1, <1>2, <1>7 DEF Reports, Asks
<1>9. True(host.cmd, reply_buf)' BY <1>1, <1>7 DEF True, Answer, View
<1>10. Valid' /\ Body' = reply_buf BY <1>1, <1>8, <1>9 DEF Valid, Body
<1>11. /\ up' = up
       /\ \/ host'.does = "away" /\ Lead(down)'
          \/ \E ok \in BOOLEAN, d \in {<<>>, <<Plus>>, <<Minus>>, <<Plus, Plus>>} :
               Lead(d)' /\ down' = Append(d, Packet(reply_buf, ok))
  BY <1>1, <1>7, PacketPut
<1>12. Replied' BY <1>7, <1>8, <1>10, <1>11 DEF Replied, Plus, Minus
<1> QED BY <1>3, <1>4, <1>5, <1>12 DEF GdbInv, Exchange

\* The uart_getc of put_packet: what waits for it, and the three things that can come.
LEMMA AckPhase ==
  ASSUME GdbInv, up # <<>>, main.at = "ack" \/ handler = "signalled"
  PROVE  RefusedReply \/ Accepted
<1>1. ~ Listening /\ ~ Commanded /\ ~ Working /\ ~ Running /\ ~ Replied
  BY DEF Listening, Commanded, Waits, Working, Running, Replied
<1> QED BY <1>1 DEF GdbInv, Exchange

LEMMA Echoed ==
  ASSUME GdbInv, TakeEcho, UNCHANGED <<host, mem, type>>, RefusedReply \/ Accepted
  PROVE  /\ RefusedReply => Refused /\ up' = <<>> /\ down' = <<Minus>>
         /\ Accepted => Acknowledged
         /\ Accepted /\ host.does = "idle" => up' = <<>> /\ down' = <<Plus>>
         /\ Accepted /\ host.does = "acking" =>
              /\ Due' /\ down' = <<Plus>>
              /\ \E ok \in BOOLEAN : up' = <<Sent(ok)'>>
<1>1. /\ up' = Tail(up)
      /\ Head(up).kind # "packet" /\ host.does # "away" => down' = Append(down, Head(up))
  BY DEF TakeEcho, ToHost
<1>2. ASSUME RefusedReply PROVE Refused /\ up' = <<>> /\ down' = <<Minus>>
  <2>1. up = <<Minus>> /\ down = <<>> /\ host.does # "away" BY <1>2 DEF RefusedReply
  <2>2. Head(up) = Minus /\ up' = <<>> BY <2>1, <1>1, Short, Zenon
  <2>3. Refused BY <2>1, <2>2, Short, Kinds DEF Refused
  <2>4. down' = <<Minus>> BY <2>1, <2>2, <1>1, Short, Kinds
  <2> QED BY <2>2, <2>3, <2>4
<1>3. ASSUME Accepted, host.does = "idle"
      PROVE  Acknowledged /\ up' = <<>> /\ down' = <<Plus>>
  <2>1. up = <<Plus>> /\ down = <<>> BY <1>3 DEF Accepted
  <2>2. Head(up) = Plus /\ up' = <<>> BY <2>1, <1>1, Short, Zenon
  <2>3. Acknowledged BY <2>1, <2>2, Short, Kinds DEF Acknowledged
  <2>4. down' = <<Plus>> BY <1>3, <2>1, <2>2, <1>1, Short, Kinds
  <2> QED BY <2>2, <2>3, <2>4
<1>4. ASSUME Accepted, host.does = "acking"
      PROVE  /\ Acknowledged /\ Due' /\ down' = <<Plus>>
             /\ \E ok \in BOOLEAN : up' = <<Sent(ok)'>>
  <2>1. PICK ok \in BOOLEAN : up = <<Plus, Sent(ok)>> BY <1>4 DEF Accepted
  <2>2. down = <<>> /\ Due BY <1>4 DEF Accepted
  <2>3. Head(up) = Plus /\ up' = <<Sent(ok)>> BY <2>1, <1>1, Short, Zenon
  <2>4. Acknowledged BY <2>1, <2>3, Short, Kinds DEF Acknowledged
  <2>5. down' = <<Plus>> BY <1>4, <2>2, <2>3, <1>1, Short, Kinds
  <2>6. Sent(ok)' = Sent(ok) /\ Due' BY <2>2 DEF Sent, Due
  <2> QED BY <2>3, <2>4, <2>5, <2>6
<1>5. Accepted => host.does \in {"idle", "acking"} BY DEF Accepted
<1> QED BY <1>2, <1>3, <1>4, <1>5

LEMMA SignalAckStep ==
  ASSUME GdbInv, SignalAck PROVE GdbInv'
<1>1. /\ handler = "signalled" /\ TakeEcho
      /\ UNCHANGED <<host, main, reply_buf, target_regs, mail, virqs, refused, mem, type, saved, at, stopped>>
      /\ (Acknowledged /\ handler' = "none") \/ (Refused /\ handler' = "signal")
      /\ up # <<>>
  BY DEF SignalAck, Acknowledged, Refused, vars
<1>2. GdbTypes' BY <1>1 DEF GdbInv, GdbTypes
<1>3. Session' BY <1>1 DEF GdbInv, Session
<1>4. OnlyBreaks' BY <1>1 DEF GdbInv, OnlyBreaks, Found
<1> SUFFICES Exchange' BY <1>2, <1>3, <1>4 DEF GdbInv
<1>5. RefusedReply \/ Accepted BY <1>1, AckPhase
<1>6. ~ (Acknowledged /\ Refused) BY DEF Acknowledged, Refused
<1>7. CASE RefusedReply
  <2>1. handler' = "signal" /\ up' = <<>> /\ down' = <<Minus>> BY <1>1, <1>6, <1>7, Echoed
  <2>2. stopped /\ virqs = 0 /\ host.does = "waiting" /\ Reports /\ Valid
    BY <1>1, <1>7 DEF RefusedReply, Asks
  <2>3. Resumed' BY <2>2, <1>1 DEF Valid, Resumed
  <2>4. Lead(down)' BY <2>1, <2>2, <1>1 DEF Lead, Minus
  <2>5. Running' BY <2>1, <2>2, <2>3, <2>4, <1>1 DEF Running
  <2> QED BY <2>5 DEF Exchange
<1>8. CASE Accepted
  <2>1. handler' = "none" BY <1>1, <1>5, <1>6, <1>8, Echoed
  <2>2. stopped /\ virqs = 0 /\ main.at = "get" BY <1>1, <1>8 DEF Accepted, Asks, Reports
  <2>3. Waits' BY <2>1, <2>2, <1>1 DEF Waits
  <2>4. CASE host.does = "idle"
    <3>1. up' = <<>> /\ down' = <<Plus>> BY <2>4, <1>1, <1>8, Echoed
    <3>2. Listening' BY <3>1, <2>3, <2>4, <1>1 DEF Listening, Plus
    <3> QED BY <3>2 DEF Exchange
  <2>5. CASE host.does = "acking"
    <3>1. Due' /\ down' = <<Plus>> /\ \E ok \in BOOLEAN : up' = <<Sent(ok)'>>
      BY <2>5, <1>1, <1>8, Echoed
    <3>2. Commanded' BY <3>1, <2>3, <2>5, <1>1 DEF Commanded, Plus
    <3> QED BY <3>2 DEF Exchange
  <2> QED BY <2>4, <2>5, <1>8 DEF Accepted
<1> QED BY <1>5, <1>7, <1>8

LEMMA ReplyAckStep ==
  ASSUME GdbInv, ReplyAck PROVE GdbInv'
<1>1. /\ main.at = "ack" /\ handler = "none" /\ virqs = 0 /\ TakeEcho
      /\ UNCHANGED <<host, handler, reply_buf, target_regs, mail, virqs, refused, mem, type, saved, at, stopped>>
      /\ \/ Acknowledged /\ main' = [at |-> "get", cmd |-> main.cmd]
         \/ Refused /\ main' = [at |-> "put", cmd |-> main.cmd]
      /\ up # <<>>
  BY DEF ReplyAck, Loop, Acknowledged, Refused, vars, GdbInv, GdbTypes
<1>2. GdbTypes' BY <1>1 DEF GdbInv, GdbTypes
<1>3. Session' BY <1>1 DEF GdbInv, Session
<1>4. OnlyBreaks' BY <1>1 DEF GdbInv, OnlyBreaks, Found
<1> SUFFICES Exchange' BY <1>2, <1>3, <1>4 DEF GdbInv
<1>5. RefusedReply \/ Accepted BY <1>1, AckPhase
<1>6. ~ (Acknowledged /\ Refused) BY DEF Acknowledged, Refused
<1>7. CASE RefusedReply
  <2>1. main'.at = "put" /\ up' = <<>> /\ down' = <<Minus>> BY <1>1, <1>6, <1>7, Echoed
  <2>2. stopped /\ host.does = "waiting" /\ ~ Reports /\ Valid
    BY <1>1, <1>7 DEF RefusedReply, Asks, Reports
  <2>3. True(host.cmd, reply_buf) BY <2>2 DEF Valid
  <2>4. Progress' BY <2>1, <2>3, <1>1 DEF Progress, True, Answer, View
  <2>5. Lead(down)' BY <2>1, <2>2, <1>1 DEF Lead, Minus
  <2>6. Working' BY <2>1, <2>2, <2>4, <2>5, <1>1 DEF Working
  <2> QED BY <2>6 DEF Exchange
<1>8. CASE Accepted
  <2>1. main'.at = "get" BY <1>1, <1>5, <1>6, <1>8, Echoed
  <2>2. stopped BY <1>8 DEF Accepted, Asks
  <2>3. Waits' BY <2>1, <2>2, <1>1 DEF Waits
  <2>4. CASE host.does = "idle"
    <3>1. up' = <<>> /\ down' = <<Plus>> BY <2>4, <1>1, <1>8, Echoed
    <3>2. Listening' BY <3>1, <2>3, <2>4, <1>1 DEF Listening, Plus
    <3> QED BY <3>2 DEF Exchange
  <2>5. CASE host.does = "acking"
    <3>1. Due' /\ down' = <<Plus>> /\ \E ok \in BOOLEAN : up' = <<Sent(ok)'>>
      BY <2>5, <1>1, <1>8, Echoed
    <3>2. Commanded' BY <3>1, <2>3, <2>5, <1>1 DEF Commanded, Plus
    <3> QED BY <3>2 DEF Exchange
  <2> QED BY <2>4, <2>5, <1>8 DEF Accepted
<1> QED BY <1>5, <1>7, <1>8

-----------------------------------------------------------------------------
(* The steps of gdb() *)

LEMMA GetPacketStep ==
  ASSUME GdbInv, GetPacket PROVE GdbInv'
<1>1. /\ main.at = "get" /\ handler = "none" /\ virqs = 0 /\ up # <<>> /\ up' = Tail(up)
      /\ UNCHANGED <<handler, reply_buf, target_regs, host, mail, virqs, refused, mem, type, saved, at, stopped>>
  BY DEF GetPacket, Loop, vars
<1>2. Commanded
  <2>1. ~ Listening /\ ~ Working /\ ~ Running /\ ~ Replied BY <1>1 DEF Listening, Working, Running, Replied
  <2>2. ~ RefusedReply /\ ~ Accepted BY <1>1 DEF RefusedReply, Accepted, Asks, Reports
  <2> QED BY <2>1, <2>2 DEF GdbInv, Exchange
<1>3. PICK ok \in BOOLEAN : up = <<Packet(host.cmd, ok)>> BY <1>2 DEF Commanded, Sent
<1>4. Head(up) = Packet(host.cmd, ok) /\ up' = <<>> BY <1>1, <1>3, Short, Zenon
<1>5. Head(up).kind = "packet" /\ Head(up).body = host.cmd BY <1>4, Kinds
<1>6. \/ Head(up).ok /\ down' = ToHost(Plus) /\ main' = [at |-> "execute", cmd |-> host.cmd]
      \/ down' = ToHost(Minus) /\ main' = main
  BY <1>5 DEF GetPacket, Plus, Minus
<1>7. stopped /\ Due BY <1>2 DEF Commanded, Waits
<1>8. Session' BY <1>1 DEF GdbInv, Session
<1>9. OnlyBreaks' BY <1>1 DEF GdbInv, OnlyBreaks, Found
<1>10. CASE down' = ToHost(Plus) /\ main' = [at |-> "execute", cmd |-> host.cmd]
  <2>1. GdbTypes' BY <1>1, <1>10 DEF GdbInv, GdbTypes
  <2>2. Lead(down)'
    <3>1. CASE host.does = "acking"
      <4>1. down' = Append(down, Plus) BY <3>1, <1>10 DEF ToHost
      <4>2. down = <<>> \/ down = <<Plus>> BY <3>1, <1>2 DEF Commanded
      <4>3. down' = <<Plus>> \/ down' = <<Plus, Plus>> BY <4>1, <4>2, Short, Zenon
      <4> QED BY <4>3, <3>1, <1>1 DEF Lead, Plus
    <3>2. CASE host.does = "waiting"
      <4>1. down' = Append(down, Plus) /\ down = <<>> BY <3>2, <1>2, <1>10 DEF ToHost, Commanded
      <4>2. down' = <<Plus>> BY <4>1, Short, Zenon
      <4> QED BY <4>2, <3>2, <1>1 DEF Lead, Plus
    <3>3. CASE host.does = "away"
      <4>1. down' = <<>> BY <3>3, <1>2, <1>10 DEF ToHost, Commanded
      <4> QED BY <4>1, <3>3, <1>1 DEF Lead
    <3> QED BY <3>1, <3>2, <3>3, <1>2 DEF Commanded
  <2>3. Due' BY <1>1, <1>7 DEF Due
  <2>4. Progress' BY <2>3, <1>1, <1>10 DEF Progress
  <2>5. Working' BY <2>2, <2>4, <1>1, <1>4, <1>7 DEF Working
  <2> QED BY <2>1, <2>5, <1>8, <1>9 DEF GdbInv, Exchange
<1>11. CASE down' = ToHost(Minus) /\ main' = main
  <2>1. GdbTypes' BY <1>1, <1>11 DEF GdbInv, GdbTypes
  <2>2. Waits' /\ Due' BY <1>1, <1>7, <1>11 DEF Waits, Due
  <2>3. CASE host.does = "acking"
    <3>1. down' = Append(down, Minus) BY <2>3, <1>11 DEF ToHost
    <3>2. down = <<>> \/ down = <<Plus>> BY <2>3, <1>2 DEF Commanded
    <3>3. down' = <<Minus>> \/ down' = <<Plus, Minus>> BY <3>1, <3>2, Short, Zenon
    <3>4. Listening' BY <3>3, <2>2, <2>3, <1>1, <1>4 DEF Listening, Plus, Minus
    <3> QED BY <3>4, <2>1, <1>8, <1>9 DEF GdbInv, Exchange
  <2>4. CASE host.does = "waiting"
    <3>1. down' = Append(down, Minus) /\ down = <<>> BY <2>4, <1>2, <1>11 DEF ToHost, Commanded
    <3>2. down' = <<Minus>> BY <3>1, Short, Zenon
    <3>3. Lead(down)' BY <3>2, <2>4, <1>1 DEF Lead, Minus
    <3>4. Listening' BY <3>3, <2>2, <1>1, <1>4 DEF Listening
    <3> QED BY <3>4, <2>1, <1>8, <1>9 DEF GdbInv, Exchange
  <2>5. CASE host.does = "away"
    <3>1. down' = <<>> BY <2>5, <1>2, <1>11 DEF ToHost, Commanded
    <3>2. Lead(down)' BY <3>1, <2>5, <1>1 DEF Lead
    <3>3. Listening' BY <3>2, <2>2, <1>1, <1>4 DEF Listening
    <3> QED BY <3>3, <2>1, <1>8, <1>9 DEF GdbInv, Exchange
  <2> QED BY <2>3, <2>4, <2>5, <1>2 DEF Commanded
<1> QED BY <1>6, <1>10, <1>11

\* While gdb() works on a command, the line and the debugger wait.
LEMMA AtWork ==
  ASSUME GdbInv, main.at \in {"execute", "registers", "memory"}
  PROVE  /\ Working /\ stopped /\ up = <<>> /\ Lead(down) /\ Progress
         /\ main.at = "execute" => main.cmd = host.cmd /\ Due
<1>1. ~ Listening /\ ~ Commanded BY DEF Listening, Commanded, Waits
<1>2. ~ Running BY DEF Running, Resumed
<1>3. ~ Replied /\ ~ RefusedReply /\ ~ Accepted
  BY DEF Replied, RefusedReply, Accepted, Asks, Reports
<1>4. Working BY <1>1, <1>2, <1>3 DEF GdbInv, Exchange
<1> QED BY <1>4 DEF Working, Progress

LEMMA WorkGoesOn ==
  ASSUME GdbInv, Loop(main.at), main.at \in {"execute", "registers", "memory"},
         UNCHANGED <<host, up, down, handler>>, stopped',
         Progress', GdbTypes', OnlyBreaks'
  PROVE  GdbInv'
<1>1. handler = "none" /\ up = <<>> /\ Lead(down) BY AtWork DEF Loop
<1>2. Lead(down)' BY <1>1 DEF Lead
<1>3. Working' BY <1>1, <1>2 DEF Working
<1>4. Session' BY DEF GdbInv, Session
<1> QED BY <1>3, <1>4 DEF GdbInv, Exchange

LEMMA CmdSimpleStep ==
  ASSUME GdbInv, CmdSimple PROVE GdbInv'
<1>1. /\ main.at = "execute" /\ Loop(main.at) /\ main.cmd.op \in {"?", "H", "q"} /\ virqs = 0
      /\ UNCHANGED <<host, up, down, handler, mail, virqs, refused, mem, type, saved, at, stopped>>
      /\ reply_buf' = CASE main.cmd.op = "?" -> "S05" [] main.cmd.op = "H" -> "OK" [] main.cmd.op = "q" -> ""
      /\ main' = [at |-> "put", cmd |-> main.cmd]
  BY DEF CmdSimple, Simple, Loop, Replies, line, vars, GdbInv, GdbTypes
<1>2. stopped /\ main.cmd = host.cmd BY <1>1, AtWork
<1>3. True(host.cmd, reply_buf)' BY <1>1, <1>2 DEF True, Answer, Ignored
<1>4. Progress' BY <1>1, <1>3 DEF Progress
<1>5. GdbTypes' /\ OnlyBreaks' BY <1>1 DEF GdbInv, GdbTypes, OnlyBreaks, Found
<1> QED BY <1>1, <1>2, <1>4, <1>5, WorkGoesOn

LEMMA CmdIgnoredStep ==
  ASSUME GdbInv, CmdIgnored PROVE GdbInv'
<1>1. /\ main.at = "execute" /\ Loop(main.at) /\ main.cmd.op \in Ignored /\ virqs = 0
      /\ UNCHANGED <<host, up, down, handler, mail, virqs, refused, mem, type, saved, at, stopped>>
      /\ reply_buf' = reply_buf
      /\ main' = [at |-> "put", cmd |-> main.cmd]
  BY DEF CmdIgnored, Loop, Replies, line, vars, GdbInv, GdbTypes
<1>2. stopped /\ main.cmd = host.cmd BY <1>1, AtWork
<1>3. True(host.cmd, reply_buf)' BY <1>1, <1>2 DEF True, Ignored
<1>4. Progress' BY <1>1, <1>3 DEF Progress
<1>5. GdbTypes' /\ OnlyBreaks' BY <1>1 DEF GdbInv, GdbTypes, OnlyBreaks, Found
<1> QED BY <1>1, <1>2, <1>4, <1>5, WorkGoesOn

LEMMA CmdRegistersStep ==
  ASSUME GdbInv, IInv, CmdRegisters PROVE GdbInv'
<1>1. /\ main.at = "execute" /\ Loop(main.at) /\ main.cmd.op = "g" /\ virqs = 0
      /\ (virqs' = virqs + 1) \/ (virqs' = virqs /\ refused')
      /\ UNCHANGED <<host, up, down, handler, mem, type, saved, at, stopped>>
      /\ main' = [at |-> "registers", cmd |-> main.cmd]
  BY DEF CmdRegisters, AskRegisters, Notify, Loop, line, vars, GdbInv, GdbTypes
<1>2. mail' = [[mail EXCEPT !.regs = at] EXCEPT !.type = "REGISTER"]
  BY DEF CmdRegisters, AskRegisters, Notify
<1>3. /\ mail' = [type |-> "REGISTER", va |-> mail.va, regs |-> at, dump |-> mail.dump, list |-> mail.list]
      /\ at \in Words
  BY <1>2 DEF GdbInv, GdbTypes, IInv, TypeOK
<1>4. stopped /\ main.cmd = host.cmd BY <1>1, AtWork
<1>5. Progress' BY <1>1, <1>3, <1>4 DEF Progress
<1>6. mail' \in [type : {"LIST", "REGISTER", "MEMORY", "BREAK"}, va : {0}, regs : Words,
                 dump : {"own", "break", "zero", "data"}, list : {<<>>}]
  BY <1>3 DEF GdbInv, GdbTypes
<1>7. GdbTypes' /\ OnlyBreaks' BY <1>1, <1>6 DEF GdbInv, GdbTypes, OnlyBreaks, Found
<1> QED BY <1>1, <1>4, <1>5, <1>7, WorkGoesOn

LEMMA RegistersStep ==
  ASSUME GdbInv, Registers PROVE GdbInv'
<1>1. /\ main.at = "registers" /\ Loop(main.at) /\ virqs = 0
      /\ UNCHANGED <<host, up, down, handler, mail, virqs, refused, mem, type, saved, at, stopped>>
      /\ reply_buf' = ToString(target_regs)
      /\ main' = [at |-> "put", cmd |-> main.cmd]
  BY DEF Registers, Loop, Replies, line, vars, GdbInv, GdbTypes
<1>2. stopped /\ Progress BY <1>1, AtWork
<1>3. (target_regs = at \/ refused) /\ host.cmd.op = "g" BY <1>1, <1>2 DEF Progress
<1>4. reply_buf' = ToString(at) \/ refused BY <1>1, <1>3
<1>5. True(host.cmd, reply_buf)' BY <1>1, <1>2, <1>3, <1>4 DEF True, Answer
<1>6. Progress' BY <1>1, <1>5 DEF Progress
<1>7. GdbTypes' /\ OnlyBreaks' BY <1>1 DEF GdbInv, GdbTypes, OnlyBreaks, Found
<1> QED BY <1>1, <1>2, <1>6, <1>7, WorkGoesOn

LEMMA CmdGetMemoryStep ==
  ASSUME GdbInv, CmdGetMemory PROVE GdbInv'
<1>1. /\ main.at = "execute" /\ Loop(main.at) /\ main.cmd.op = "m" /\ virqs = 0 /\ virqs' \in {virqs, virqs + 1}
      /\ UNCHANGED <<host, up, down, handler, mem, type, saved, at, stopped>>
      /\ main' = [at |-> "memory", cmd |-> main.cmd]
  BY DEF CmdGetMemory, AskMemory, Notify, Loop, line, vars, GdbInv, GdbTypes
<1>2. mail' = [[mail EXCEPT !.dump = View(main.cmd.a)] EXCEPT !.type = "MEMORY"]
  BY DEF CmdGetMemory, AskMemory, Notify
<1>3. /\ mail' = [type |-> "MEMORY", va |-> mail.va, regs |-> mail.regs,
                  dump |-> View(main.cmd.a), list |-> mail.list]
      /\ View(main.cmd.a) \in {"own", "break", "zero"}
  <2>1. View(main.cmd.a) \in {"own", "break", "zero"} BY DEF View
  <2> QED BY <1>2, <2>1 DEF GdbInv, GdbTypes
<1>4. stopped /\ main.cmd = host.cmd BY <1>1, AtWork
<1>5. mail'.dump = View(host.cmd.a)' BY <1>1, <1>3, <1>4 DEF View
<1>6. Progress' BY <1>1, <1>3, <1>4, <1>5 DEF Progress
<1>7. mail' \in [type : {"LIST", "REGISTER", "MEMORY", "BREAK"}, va : {0}, regs : Words,
                 dump : {"own", "break", "zero", "data"}, list : {<<>>}]
  BY <1>3 DEF GdbInv, GdbTypes
<1>8. GdbTypes' /\ OnlyBreaks' BY <1>1, <1>7 DEF GdbInv, GdbTypes, OnlyBreaks, Found
<1> QED BY <1>1, <1>4, <1>6, <1>8, WorkGoesOn

LEMMA GetMemoryStep ==
  ASSUME GdbInv, GetMemory PROVE GdbInv'
<1>1. /\ main.at = "memory" /\ Loop(main.at) /\ virqs = 0
      /\ UNCHANGED <<host, up, down, handler, mail, virqs, refused, mem, type, saved, at, stopped>>
      /\ reply_buf' = mail.dump
      /\ main' = [at |-> "put", cmd |-> main.cmd]
  BY DEF GetMemory, Loop, Replies, line, vars, GdbInv, GdbTypes
<1>2. stopped /\ Progress BY <1>1, AtWork
<1>3. mail.dump = View(host.cmd.a) /\ host.cmd.op = "m" BY <1>1, <1>2 DEF Progress
<1>4. True(host.cmd, reply_buf)' BY <1>1, <1>2, <1>3 DEF True, Answer, View
<1>5. Progress' BY <1>1, <1>4 DEF Progress
<1>6. GdbTypes' /\ OnlyBreaks' BY <1>1 DEF GdbInv, GdbTypes, OnlyBreaks, Found
<1> QED BY <1>1, <1>2, <1>5, <1>6, WorkGoesOn

LEMMA GdbStartStep ==
  ASSUME GdbInv, GdbStart PROVE GdbInv'
<1>1. /\ main.at = "cli" /\ handler = "none" /\ virqs = 0 /\ stopped'
      /\ UNCHANGED <<host, up, down, handler, reply_buf, target_regs, mail, virqs, refused, mem, type, saved, at>>
      /\ main' = [at |-> "get", cmd |-> main.cmd]
  BY DEF GdbStart, Loop, line, GdbInv, GdbTypes
<1>2. Running
  <2>1. ~ Listening /\ ~ Commanded /\ ~ Working
    BY <1>1 DEF Listening, Commanded, Waits, Working, Progress
  <2>2. ~ Replied /\ ~ RefusedReply /\ ~ Accepted
    BY <1>1 DEF Replied, RefusedReply, Accepted, Asks, Reports
  <2> QED BY <2>1, <2>2 DEF GdbInv, Exchange
<1>3. Waits' BY <1>1 DEF Waits
<1>4. Lead(down)' BY <1>1, <1>2 DEF Running, Lead
<1>5. Listening' BY <1>1, <1>2, <1>3, <1>4 DEF Listening, Running
<1>6. GdbTypes' /\ Session' /\ OnlyBreaks'
  BY <1>1 DEF GdbInv, GdbTypes, Session, OnlyBreaks, Found
<1> QED BY <1>5, <1>6 DEF GdbInv, Exchange

LEMMA CmdResumeStep ==
  ASSUME GdbInv, CmdResume PROVE GdbInv'
<1>1. /\ main.at = "execute" /\ handler = "none" /\ virqs = 0 /\ main.cmd.op \in {"c", "k"}
      /\ UNCHANGED <<host, up, down, handler, reply_buf, target_regs, mail, virqs, refused, mem, type, saved, at>>
      /\ stopped' = FALSE
      /\ main' = [at |-> IF main.cmd.op = "k" THEN "cli" ELSE "get", cmd |-> main.cmd]
  BY DEF CmdResume, Run, Loop, line, GdbInv, GdbTypes
<1>2. main.cmd = host.cmd /\ up = <<>> /\ Lead(down) BY <1>1, AtWork
<1>3. Resumed' BY <1>1, <1>2 DEF Resumed
<1>4. Lead(down)' BY <1>1, <1>2 DEF Lead
<1>5. Running' BY <1>1, <1>2, <1>3, <1>4 DEF Running
<1>6. GdbTypes' /\ Session' /\ OnlyBreaks'
  BY <1>1 DEF GdbInv, GdbTypes, Session, OnlyBreaks, Found
<1> QED BY <1>5, <1>6 DEF GdbInv, Exchange

\* Only the target's own steps need it to run; a break that it meets goes into the mail.
LEMMA TargetStep ==
  ASSUME GdbInv, IInv, TargetInGdb PROVE GdbInv'
<1>1. /\ UNCHANGED <<host, up, down, handler, reply_buf, target_regs, main, mem, type, saved>>
      /\ ~ stopped
      /\ \/ stopped' /\ virqs' \in {virqs, virqs + 1} /\ mail' = [mail EXCEPT !.type = "BREAK"]
         \/ ~ stopped' /\ UNCHANGED <<mail, virqs>>
  BY DEF TargetInGdb, TargetBreak, Notify, KeepStub, line, BreakTrap, Execute, Trap
<1>2. Running
  <2>1. ~ Listening /\ ~ Commanded /\ ~ Working
    BY <1>1 DEF Listening, Commanded, Waits, Working
  <2>2. ~ Replied /\ ~ RefusedReply /\ ~ Accepted BY <1>1 DEF Replied, RefusedReply, Accepted, Asks
  <2> QED BY <2>1, <2>2 DEF GdbInv, Exchange
<1>3. Resumed' /\ Lead(down)' /\ up' = <<>> /\ handler' = "none" /\ virqs = 0
  BY <1>1, <1>2 DEF Running, Resumed, Lead
<1>4. mail' = mail \/ mail' = [type |-> "BREAK", va |-> mail.va, regs |-> mail.regs,
                               dump |-> mail.dump, list |-> mail.list]
  BY <1>1 DEF GdbInv, GdbTypes
<1>5. mail' \in [type : {"LIST", "REGISTER", "MEMORY", "BREAK"}, va : {0}, regs : Words,
                 dump : {"own", "break", "zero", "data"}, list : {<<>>}]
  BY <1>4 DEF GdbInv, GdbTypes
<1>6. stopped' => virqs' = 0 \/ (virqs' = 1 /\ mail'.type = "BREAK")
  BY <1>1, <1>3 DEF GdbInv, GdbTypes
<1>7. ~ stopped' => virqs' = 0 BY <1>1, <1>3
<1>8. Running' BY <1>3, <1>6, <1>7 DEF Running
<1>9. GdbTypes' /\ Session' /\ OnlyBreaks'
  BY <1>1, <1>5 DEF GdbInv, GdbTypes, Session, OnlyBreaks, Found
<1> QED BY <1>8, <1>9 DEF GdbInv, Exchange

\* The table has an entry for each word where the debugger sets breaks.
EnoughForBreaks == Cardinality(BreakWords) <= NumDI

LEMMA RoomForBreak ==
  ASSUME EnoughForBreaks, IInv, OnlyBreaks, NEW a \in BreakWords, ~ Found(a)
  PROVE  Room
<1> DEFINE F == {b \in Words : Found(b)}
<1>1. IsFiniteSet(Words) BY MonitorAssumption, FS_Interval DEF Words
<1>2. IsFiniteSet(BreakWords) BY <1>1, MonitorAssumption, FS_Subset
<1>3. F \subseteq BreakWords BY DEF OnlyBreaks, Found, IInv, PointsKnown
<1>4. a \in Words /\ a \notin F BY MonitorAssumption
<1>5. F # BreakWords BY <1>4
<1>6. /\ IsFiniteSet(F) /\ Cardinality(F) <= Cardinality(BreakWords)
      /\ Cardinality(F) = Cardinality(BreakWords) => F = BreakWords
  BY <1>2, <1>3, FS_Subset
<1>7. Cardinality(F) \in Nat /\ Cardinality(BreakWords) \in Nat
  BY <1>2, <1>6, FS_CardinalityType
<1>8. Cardinality(F) # Cardinality(BreakWords) BY <1>5, <1>6
<1> HIDE DEF F
<1>9. Cardinality(F) < NumDI BY <1>6, <1>7, <1>8, MonitorAssumption DEF EnoughForBreaks
<1> QED BY <1>9 DEF F, Room

\* OK means that the break is there, or that the word is the target's again.
LEMMA CmdPutMemoryStep ==
  ASSUME EnoughForBreaks, GdbInv, IInv, CmdPutMemory PROVE GdbInv'
<1>1. /\ main.at = "execute" /\ Loop(main.at) /\ main.cmd.op \in {"break", "restore", "write"} /\ virqs = 0
      /\ UNCHANGED <<host, up, down, handler, virqs>>
      /\ reply_buf' = "OK" /\ main' = [at |-> "put", cmd |-> main.cmd]
  BY DEF CmdPutMemory, Loop, Replies, line, GdbInv, GdbTypes
<1>2. stopped /\ main.cmd = host.cmd /\ Due BY <1>1, AtWork
<1> DEFINE a == host.cmd.a
<1>3. ASSUME host.cmd.op \in {"break", "restore"} PROVE a \in BreakWords /\ a \in Words
  <2>1. host.cmd \in Commands \union {NoCommand} BY DEF GdbInv, GdbTypes
  <2>2. host.cmd \in [op : {"break", "restore"}, a : BreakWords]
    BY <2>1, <1>3 DEF Commands, NoCommand, Simple, Ignored
  <2> QED BY <2>2, MonitorAssumption
<1>4. \E d \in {"own", "break", "data"} : mail' = [mail EXCEPT !.dump = d]
  BY <1>1 DEF CmdPutMemory
<1>5. mail' \in [type : {"LIST", "REGISTER", "MEMORY", "BREAK"}, va : {0}, regs : Words,
                 dump : {"own", "break", "zero", "data"}, list : {<<>>}]
  BY <1>4 DEF GdbInv, GdbTypes
<1>6. GdbTypes' BY <1>1, <1>5 DEF GdbInv, GdbTypes
<1> HIDE DEF a
<1>7. CASE host.cmd.op = "break"
  <2> a \in BreakWords /\ a \in Words BY <1>3, <1>7
  <2>1. Insert(a, "break") BY <1>2, <1>7 DEF CmdPutMemory, a
  <2>2. mem[a] = "own" BY <1>2, <1>7 DEF Due, a
  <2>3. ~ Found(a) BY <2>2 DEF GdbInv, OnlyBreaks
  <2>4. Room BY <2>3, RoomForBreak DEF GdbInv
  <2>5. /\ mem' = [mem EXCEPT ![a] = "hvc"] /\ type' = [type EXCEPT ![a] = type[a] \union {"break"}]
        /\ stopped' = stopped /\ type[a] = {}
    BY <2>1, <2>3, <2>4 DEF Insert, monitor_store_inst, Stores, Found
  <2>6. mem'[a] = "hvc" /\ type'[a] = {"break"} BY <2>5 DEF IInv, TypeOK
  <2>7. \A b \in Words : b # a => mem'[b] = mem[b] /\ type'[b] = type[b]
    BY <2>5 DEF IInv, TypeOK
  <2>8. OnlyBreaks'
    <3> SUFFICES ASSUME NEW b \in Words
                 PROVE  type'[b] \in {{}, {"break"}} /\ (type'[b] # {} <=> mem'[b] = "hvc")
      BY DEF OnlyBreaks, Found
    <3>1. CASE b = a BY <3>1, <2>6
    <3>2. CASE b # a BY <3>2, <2>7 DEF GdbInv, OnlyBreaks, Found
    <3> QED BY <3>1, <3>2
  <2>9. True(host.cmd, reply_buf)' BY <2>6, <1>1, <1>7 DEF True, Ignored, a
  <2>10. Progress' BY <2>9, <1>1 DEF Progress
  <2> QED BY <2>5, <2>8, <2>10, <1>1, <1>2, <1>6, WorkGoesOn
<1>8. CASE host.cmd.op = "restore"
  <2> a \in BreakWords /\ a \in Words BY <1>3, <1>8
  <2>1. type[a] = {"break"} BY <1>2, <1>8 DEF Due, a
  <2>2. Found(a) BY <2>1 DEF Found
  <2>3. Restore(a) BY <2>2, <1>2, <1>8 DEF CmdPutMemory, a
  <2>4. /\ type' = [b \in Words |-> type[b] \ Flags(a, {"break"}, b)]
        /\ mem' = [b \in Words |-> IF b = a \/ b \in Freed(a, {"break"}) THEN saved[b] ELSE mem[b]]
        /\ stopped' = stopped
    BY <2>3 DEF Restore, monitor_clean_guest
  <2>5. saved[a] = "own" BY <2>2 DEF IInv, CodeIntact
  <2>6. mem'[a] = "own" /\ type'[a] = {} BY <2>1, <2>4, <2>5 DEF Flags
  <2>7. ASSUME NEW b \in Words, b # a PROVE mem'[b] = mem[b] /\ type'[b] = type[b]
    <3>1. "break" \notin Flags(a, {"break"}, b) BY <2>7 DEF Flags
    <3>2. type[b] \in {{}, {"break"}} BY DEF GdbInv, OnlyBreaks
    <3>3. type[b] \ Flags(a, {"break"}, b) = type[b] BY <3>1, <3>2
    <3>4. b \notin Freed(a, {"break"}) BY <3>1, <3>2 DEF Freed, Empties, Found
    <3> QED BY <3>3, <3>4, <2>4, <2>7
  <2>8. OnlyBreaks'
    <3> SUFFICES ASSUME NEW b \in Words
                 PROVE  type'[b] \in {{}, {"break"}} /\ (type'[b] # {} <=> mem'[b] = "hvc")
      BY DEF OnlyBreaks, Found
    <3>1. CASE b = a BY <3>1, <2>6
    <3>2. CASE b # a BY <3>2, <2>7 DEF GdbInv, OnlyBreaks, Found
    <3> QED BY <3>1, <3>2
  <2>9. True(host.cmd, reply_buf)' BY <2>6, <1>1, <1>8 DEF True, Ignored, a
  <2>10. Progress' BY <2>9, <1>1 DEF Progress
  <2> QED BY <2>4, <2>8, <2>10, <1>1, <1>2, <1>6, WorkGoesOn
<1>9. CASE host.cmd.op = "write"
  <2>1. UNCHANGED <<mem, type, stopped>> BY <1>2, <1>9 DEF CmdPutMemory, WriteAside, vars
  <2>2. OnlyBreaks' BY <2>1 DEF GdbInv, OnlyBreaks, Found
  <2>3. True(host.cmd, reply_buf)' BY <2>1, <1>1, <1>2, <1>9 DEF True, Answer, Ignored
  <2>4. Progress' BY <2>3, <1>1 DEF Progress
  <2> QED BY <2>1, <2>2, <2>4, <1>1, <1>2, <1>6, WorkGoesOn
<1> QED BY <1>1, <1>2, <1>7, <1>8, <1>9

-----------------------------------------------------------------------------
(* The exchange *)

LEMMA InitGdbInv == Init /\ GdbInit("cli") => GdbInv
<1> SUFFICES ASSUME Init, GdbInit("cli") PROVE GdbInv OBVIOUS
<1>1. /\ host = [does |-> "away", cmd |-> NoCommand] /\ up = <<>> /\ down = <<>>
      /\ main = [at |-> "cli", cmd |-> NoCommand] /\ handler = "none" /\ virqs = 0
      /\ mail = [type |-> "LIST", va |-> 0, regs |-> 0, dump |-> "own", list |-> <<>>]
      /\ stopped = FALSE
  BY DEF GdbInit, Init
<1>2. NoCommand.op = "none" BY DEF NoCommand
<1>3. GdbTypes
  <2>1. 0 \in Words BY MonitorAssumption DEF Words
  <2> QED BY <1>1, <2>1 DEF GdbTypes
<1>4. Session BY <1>1, <1>2 DEF Session
<1>5. OnlyBreaks BY DEF OnlyBreaks, Init, Found
<1>6. Running BY <1>1, <1>2 DEF Running, Resumed, Lead
<1> QED BY <1>3, <1>4, <1>5, <1>6 DEF GdbInv, Exchange

\* The stub and the target only do what module Monitor lets the monitoring guest and the
\* target do.
LEMMA MonitorStep ==
  ASSUME GdbInv, [GdbNext]_gdbAll PROVE [Next]_vars
<1>1. CASE UNCHANGED gdbAll BY <1>1 DEF gdbAll, vars
<1>2. CASE GdbStart BY <1>2 DEF GdbStart, Next, Stop
<1>3. CASE CmdPutMemory
  <2>1. main.at = "execute" BY <1>3 DEF CmdPutMemory, Loop
  <2>2. main.cmd = host.cmd BY <2>1, AtWork
  <2>3. main.cmd.op \in {"break", "restore"} => main.cmd \in [op : {"break", "restore"}, a : BreakWords]
    BY <1>3, <2>2 DEF GdbInv, GdbTypes, Commands, NoCommand, Simple, Ignored
  <2>4. main.cmd.op \in {"break", "restore"} => main.cmd.a \in BreakWords BY <2>3
  <2>5. \/ main.cmd.op = "break" /\ Insert(main.cmd.a, "break")
        \/ main.cmd.op = "restore" /\ Restore(main.cmd.a)
        \/ UNCHANGED vars
    BY <1>3 DEF CmdPutMemory, WriteAside
  <2> QED BY <2>4, <2>5 DEF Next
<1>4. CASE CmdResume BY <1>4 DEF CmdResume, Next
<1>5. CASE TargetInGdb BY <1>5 DEF TargetInGdb, TargetBreak, Next
<1>6. CASE Stub /\ ~ CmdPutMemory /\ ~ CmdResume
  BY <1>6 DEF Stub, GetPacket, CmdSimple, CmdIgnored, CmdRegisters, Registers, CmdGetMemory, GetMemory, Reply, ReplyAck
<1>7. CASE Debugger
  BY <1>7 DEF Debugger, HostAttach, HostSend, HostAcking, HostWaiting, HostGivesUp
<1>8. CASE Signal \/ SignalAck \/ (TakeMail /\ UNCHANGED vars) BY <1>8 DEF Signal, SignalAck
<1> QED BY <1>1, <1>2, <1>3, <1>4, <1>5, <1>6, <1>7, <1>8 DEF GdbNext, Stub

LEMMA StepGdbInv ==
  ASSUME EnoughForBreaks, IInv, GdbInv, [GdbNext]_gdbAll PROVE IInv' /\ GdbInv'
<1>1. IInv' BY MonitorStep, StepIInv
<1>2. CASE UNCHANGED gdbAll
  <2>1. UNCHANGED <<up, down, host>> /\ Unmoved
    BY <1>2 DEF gdbAll, gdbVars, line, stub, vars, Unmoved
  <2>2. host'.cmd = host.cmd BY <2>1
  <2>3. GdbTypes' /\ Session' BY <2>1 DEF GdbInv, GdbTypes, Session, Unmoved
  <2>4. OnlyBreaks' BY <2>1, <2>2, StubKept DEF GdbInv
  <2>5. \A d : Lead(d)' = Lead(d) BY <2>1 DEF Lead, Plus, Minus
  <2>6. Lead(down)' = Lead(down) BY <2>1 DEF Lead, Plus, Minus
  <2>7. \A ok : Sent(ok)' = Sent(ok) BY <2>1 DEF Sent
  <2>8. Listening' = Listening BY <2>1, <2>2, <2>6, StubKept DEF Listening, Plus, Minus
  <2>9. Commanded' = Commanded BY <2>1, <2>2, <2>7, StubKept DEF Commanded, Plus, Minus
  <2>10. Working' = Working BY <2>1, <2>2, <2>6, StubKept DEF Working, Unmoved
  <2>11. Running' = Running BY <2>1, <2>2, <2>6, StubKept DEF Running, Unmoved
  <2>12. Replied' = Replied BY <2>1, <2>2, <2>5, <2>6, StubKept DEF Replied, Plus, Minus
  <2>13. RefusedReply' = RefusedReply BY <2>1, <2>2, StubKept DEF RefusedReply, Plus, Minus
  <2>14. Accepted' = Accepted BY <2>1, <2>2, <2>7, StubKept DEF Accepted, Unmoved, Plus
  <2> QED BY <1>1, <2>3, <2>4, <2>8, <2>9, <2>10, <2>11, <2>12, <2>13, <2>14 DEF GdbInv, Exchange
<1>3. CASE GdbStart BY <1>1, <1>3, GdbStartStep
<1>4. CASE Stub
  BY <1>1, <1>4, GetPacketStep, CmdSimpleStep, CmdIgnoredStep, CmdRegistersStep, RegistersStep, CmdGetMemoryStep,
     GetMemoryStep, CmdPutMemoryStep, CmdResumeStep, ReplyStep, ReplyAckStep DEF Stub
<1>5. CASE Debugger
  BY <1>1, <1>5, HostAttachStep, HostSendStep, HostAckingStep, HostWaitingStep, HostGivesUpStep
     DEF Debugger
<1>6. CASE Signal \/ SignalAck BY <1>1, <1>6, SignalStep, SignalAckStep
<1>7. CASE TakeMail /\ UNCHANGED vars BY <1>1, <1>7, TakeMailStep
<1>8. CASE TargetInGdb BY <1>1, <1>8, TargetStep
<1> QED BY <1>2, <1>3, <1>4, <1>5, <1>6, <1>7, <1>8 DEF GdbNext

(***************************************************************************)
(* Whatever commands of gdb() the debugger sends, those that do nothing and*)
(* those that write other data included, however often packets are damaged *)
(* and wherever the interrupts come or are refused, the exchange is in one *)
(* of its phases.                                                          *)
(***************************************************************************)
THEOREM ExchangeInvariance ==
  ASSUME EnoughForBreaks PROVE GdbSpec => [](IInv /\ GdbInv)
<1>1. Init /\ GdbInit("cli") => IInv /\ GdbInv BY InitIInv, InitGdbInv
<1>2. IInv /\ GdbInv /\ [GdbNext]_gdbAll => (IInv /\ GdbInv)' BY StepGdbInv
<1> QED BY <1>1, <1>2, PTL DEF GdbSpec

(***************************************************************************)
(* A debugging session uses the monitor as module Monitor describes: all   *)
(* that is proved of its Spec holds of the target of the session.          *)
(***************************************************************************)
THEOREM SessionIsMonitored ==
  ASSUME EnoughForBreaks PROVE GdbSpec => Spec
<1>1. IInv /\ GdbInv /\ [GdbNext]_gdbAll => [Next]_vars BY MonitorStep
<1> QED BY <1>1, ExchangeInvariance, PTL DEF GdbSpec, Spec

(***************************************************************************)
(* The answer that the debugger takes is the answer to the command it sent *)
(* last, and true of the target at that moment, as True says, for every    *)
(* number of damaged packets and every set of breaks that the table has    *)
(* room for.  For s (and P and G) that is whatever is in reply_buf, and for*)
(* g nothing is said when its interrupt was refused.                       *)
(***************************************************************************)
THEOREM AnswersTrue ==
  ASSUME EnoughForBreaks PROVE GdbSpec => Answered
<1>1. ASSUME GdbInv, HostAccepts PROVE True(host.cmd, Head(down).body)
  <2>1. host.does = "waiting" /\ down # <<>> /\ Head(down).kind = "packet" BY <1>1 DEF HostAccepts
  <2>2. host.cmd.op \notin {"k", "none"} BY <1>1, <2>1 DEF GdbInv, Session
  <2>3. ~ Lead(down)
    <3> SUFFICES ASSUME Lead(down) PROVE FALSE OBVIOUS
    <3>1. down = <<Plus>> \/ down = <<Minus>> BY <2>1 DEF Lead
    <3>2. CASE down = <<Plus>> BY <3>2, <2>1, Short, Kinds
    <3>3. CASE down = <<Minus>> BY <3>3, <2>1, Short, Kinds
    <3> QED BY <3>1, <3>2, <3>3
  <2>4. Replied
    <3>1. ~ Listening /\ ~ Working /\ ~ Running BY <2>1, <2>3 DEF Listening, Working, Running
    <3>2. ~ Commanded /\ ~ RefusedReply /\ ~ Accepted
      BY <2>1 DEF Commanded, RefusedReply, Accepted
    <3> QED BY <1>1, <3>1, <3>2 DEF GdbInv, Exchange
  <2>5. PICK ok \in BOOLEAN, d \in {<<>>, <<Plus>>, <<Minus>>} :
          down = Append(d, Packet(Body, ok))
    BY <2>1, <2>3, <2>4 DEF Replied, Lead
  <2>6. d = <<>>
    <3> SUFFICES ASSUME d # <<>> PROVE FALSE OBVIOUS
    <3>1. PICK c \in {Plus, Minus} : d = <<c>> BY <2>5
    <3>2. down = <<c, Packet(Body, ok)>> BY <2>5, <3>1, Short, Zenon
    <3>3. Head(down) = c BY <3>2, Short, Zenon
    <3> QED BY <3>1, <3>3, <2>1, Kinds
  <2>7. down = <<Packet(Body, ok)>> BY <2>5, <2>6, Short, Zenon
  <2>8. Head(down).body = Body BY <2>7, Short, Kinds
  <2>9. Valid /\ stopped BY <2>4 DEF Replied, Asks
  <2>10. CASE Reports
    <3>1. Body = "S05" /\ host.cmd.op = "c" BY <2>10, <2>9, <2>2 DEF Body, Valid, Resumed
    <3> QED BY <3>1, <2>8, <2>9 DEF True, Ignored
  <2>11. CASE ~ Reports
    BY <2>11, <2>8, <2>9 DEF Body, Valid
  <2> QED BY <2>10, <2>11
<1>2. GdbInv => [HostAccepts /\ host'.does = "idle" => True(host.cmd, Head(down).body)]_gdbAll
  BY <1>1
<1> QED BY <1>2, ExchangeInvariance, PTL DEF Answered

-----------------------------------------------------------------------------
(* Induction, as a statement about a set of numbers *)

LEMMA LessThanWellFounded == IsWellFoundedOn({p \in Nat \X Nat : p[1] < p[2]}, Nat)
  BY NatLessThanWellFounded DEF OpToRel

LEMMA LeastNumber ==
  ASSUME NEW T, T \subseteq Nat, T # {}
  PROVE  \E n \in T : \A m \in T : n <= m
<1> DEFINE R == {p \in Nat \X Nat : p[1] < p[2]}
<1>1. IsWellFoundedOn(R, Nat) BY LessThanWellFounded
<1>2. PICK n \in T : \A m \in T : <<m, n>> \notin R
  <2> HIDE DEF R
  <2> QED BY <1>1, WFMin
<1>3. ASSUME NEW m \in T PROVE n <= m
  <2>1. <<m, n>> \in Nat \X Nat /\ <<m, n>>[1] = m /\ <<m, n>>[2] = n OBVIOUS
  <2>2. ~ (m < n) BY <2>1, <1>2
  <2>3. m \in Nat /\ n \in Nat OBVIOUS
  <2> QED BY <2>2, <2>3
<1> QED BY <1>3

LEMMA NumberInduction ==
  ASSUME NEW S, 0 \in S, \A n \in Nat : n \in S => n + 1 \in S
  PROVE  \A n \in Nat : n \in S
<1> DEFINE T == {n \in Nat : n \notin S}
<1> SUFFICES ASSUME T # {} PROVE FALSE OBVIOUS
<1>1. PICK n \in T : \A m \in T : n <= m BY LeastNumber
<1>2. n \in Nat /\ n # 0 OBVIOUS
<1>3. n - 1 \in Nat /\ ~ (n <= n - 1) /\ (n - 1) + 1 = n BY <1>2
<1>4. n - 1 \in S BY <1>1, <1>3
<1>5. n \in S BY <1>3, <1>4
<1> QED BY <1>5

-----------------------------------------------------------------------------
(* The symbol table *)

Lines == [va : Nat, text : BOOLEAN, name : STRING]

InOrder(m) == \A i, j \in DOMAIN m : i < j => m[i].va <= m[j].va

\* What the parser has kept after line i.
Keep(file, k, i) ==
  IF i = 0 THEN <<>>
  ELSE IF file[i].text THEN Append(k[i - 1], file[i]) ELSE k[i - 1]

LEMMA KeepExists ==
  ASSUME NEW file
  PROVE  \A n \in Nat : \E k : k = [i \in 0..n |-> Keep(file, k, i)]
<1> DEFINE S == {n \in Nat : \E k : k = [i \in 0..n |-> Keep(file, k, i)]}
<1>1. 0 \in S
  <2> DEFINE k == [i \in 0..0 |-> <<>>]
  <2>1. \A i \in 0..0 : i = 0 OBVIOUS
  <2>2. k = [i \in 0..0 |-> Keep(file, k, i)] BY <2>1 DEF Keep
  <2> QED BY <2>2
<1>2. ASSUME NEW n \in Nat, n \in S PROVE n + 1 \in S
  <2>1. PICK k : k = [i \in 0..n |-> Keep(file, k, i)] BY <1>2
  <2> DEFINE h == [i \in 0..n + 1 |-> IF i <= n THEN k[i] ELSE Keep(file, k, i)]
  <2>2. ASSUME NEW i \in 0..n + 1 PROVE h[i] = Keep(file, h, i)
    <3>1. h[i] = Keep(file, k, i)
      <4>1. CASE i <= n
        <5>1. i \in 0..n BY <4>1
        <5> QED BY <5>1, <4>1, <2>1
      <4>2. CASE ~ (i <= n) BY <4>2
      <4> QED BY <4>1, <4>2
    <3>2. i # 0 => i - 1 \in 0..n + 1 /\ i - 1 <= n OBVIOUS
    <3>3. i # 0 => h[i - 1] = k[i - 1] BY <3>2
    <3> HIDE DEF h
    <3> QED BY <3>1, <3>3 DEF Keep
  <2>3. h = [i \in 0..n + 1 |-> Keep(file, h, i)]
    <3>1. h = [i \in 0..n + 1 |-> h[i]] OBVIOUS
    <3> HIDE DEF h
    <3> QED BY <3>1, <2>2
  <2> HIDE DEF h
  <2>4. n + 1 \in Nat OBVIOUS
  <2> QED BY <2>3, <2>4
<1> HIDE DEF S
<1>3. \A n \in Nat : n \in S BY <1>1, <1>2, NumberInduction
<1> QED BY <1>3 DEF S

Kept(file) == CHOOSE k : k = [i \in 0..Len(file) |-> Keep(file, k, i)]

LEMMA KeptRule ==
  ASSUME NEW file \in Seq(Lines)
  PROVE  /\ Parse(file) = Kept(file)[Len(file)]
         /\ \A i \in 0..Len(file) : Kept(file)[i] = Keep(file, Kept(file), i)
<1>1. Parse(file) = Kept(file)[Len(file)] BY DEF Parse, Kept, Keep
<1>2. Len(file) \in Nat OBVIOUS
<1>3. Kept(file) = [i \in 0..Len(file) |-> Keep(file, Kept(file), i)]
  BY <1>2, KeepExists DEF Kept
<1>4. ASSUME NEW i \in 0..Len(file) PROVE Kept(file)[i] = Keep(file, Kept(file), i)
  <2> DEFINE k == Kept(file)
  <2>1. k = [j \in 0..Len(file) |-> Keep(file, k, j)] BY <1>3
  <2> HIDE DEF k
  <2>2. k[i] = Keep(file, k, i) BY <2>1
  <2> QED BY <2>2 DEF k
<1> QED BY <1>1, <1>4

\* The kept lines are the text lines among the first i, in order.
KeptRight(file, i, t) ==
  /\ t \in Seq(Lines)
  /\ \A j \in 1..Len(t) : \E p \in 1..i : file[p].text /\ t[j] = file[p]
  /\ \A p \in 1..i : file[p].text => \E j \in 1..Len(t) : t[j] = file[p]
  /\ InOrder(t)

LEMMA KeptStep ==
  ASSUME NEW file \in Seq(Lines), InOrder(file), NEW i \in 1..Len(file),
         NEW t, KeptRight(file, i - 1, t), file[i].text
  PROVE  KeptRight(file, i, Append(t, file[i]))
<1> DEFINE u == Append(t, file[i])
<1>1. t \in Seq(Lines) /\ file[i] \in Lines /\ Len(t) \in Nat BY DEF KeptRight
<1>2. /\ u \in Seq(Lines) /\ Len(u) = Len(t) + 1
      /\ \A j \in 1..Len(t) : u[j] = t[j]
      /\ u[Len(t) + 1] = file[i]
  <2>1. t \in Seq(Lines) /\ file[i] \in Lines BY <1>1
  <2> QED BY <2>1, AppendProperties
<1> HIDE DEF u
<1>3. \A j \in 1..Len(u) : j \in 1..Len(t) \/ j = Len(t) + 1 BY <1>1, <1>2
<1>4. \A j \in 1..Len(t) : j \in 1..Len(u) BY <1>1, <1>2
<1>5. Len(t) + 1 \in 1..Len(u) BY <1>1, <1>2
<1>6. \A p \in 1..i : p \in 1..i - 1 \/ p = i OBVIOUS
<1>7. \A p \in 1..i - 1 : p \in 1..i /\ p < i /\ p \in DOMAIN file /\ i \in DOMAIN file
  OBVIOUS
<1>8. i \in 1..i OBVIOUS
<1>9. ASSUME NEW j \in 1..Len(u) PROVE \E p \in 1..i : file[p].text /\ u[j] = file[p]
  <2>1. CASE j \in 1..Len(t) BY <2>1, <1>2, <1>7 DEF KeptRight
  <2>2. CASE j = Len(t) + 1 BY <2>2, <1>2, <1>8
  <2> QED BY <2>1, <2>2, <1>3
<1>10. ASSUME NEW p \in 1..i, file[p].text PROVE \E j \in 1..Len(u) : u[j] = file[p]
  <2>1. CASE p \in 1..i - 1
    <3>1. PICK j \in 1..Len(t) : t[j] = file[p] BY <2>1, <1>10 DEF KeptRight
    <3> QED BY <3>1, <1>2, <1>4
  <2>2. CASE p = i BY <2>2, <1>2, <1>5
  <2> QED BY <2>1, <2>2, <1>6
<1>11. InOrder(u)
  <2> SUFFICES ASSUME NEW j \in DOMAIN u, NEW k \in DOMAIN u, j < k
               PROVE  u[j].va <= u[k].va
    BY DEF InOrder
  <2>1. j \in 1..Len(u) /\ k \in 1..Len(u) /\ DOMAIN t = 1..Len(t) BY <1>1, <1>2
  <2>2. j \in 1..Len(t) BY <2>1, <1>1, <1>2
  <2>3. CASE k \in 1..Len(t)
    BY <2>1, <2>2, <2>3, <1>2 DEF KeptRight, InOrder
  <2>4. CASE k = Len(t) + 1
    <3>1. PICK p \in 1..i - 1 : t[j] = file[p] BY <2>2 DEF KeptRight
    <3>2. file[p].va <= file[i].va BY <1>7 DEF InOrder
    <3> QED BY <3>1, <3>2, <2>2, <2>4, <1>2
  <2> QED BY <2>1, <2>3, <2>4, <1>3
<1> QED BY <1>2, <1>9, <1>10, <1>11 DEF KeptRight, u

LEMMA ParseRight ==
  ASSUME NEW file \in Seq(Lines), InOrder(file)
  PROVE  KeptRight(file, Len(file), Parse(file))
<1> DEFINE S == {i \in Nat : i <= Len(file) => KeptRight(file, i, Kept(file)[i])}
<1>0. Len(file) \in Nat OBVIOUS
<1>1. 0 \in S
  <2>1. 0 \in 0..Len(file) BY <1>0
  <2>2. Kept(file)[0] = <<>> BY <2>1, KeptRule DEF Keep
  <2>3. <<>> \in Seq(Lines) /\ Len(<<>>) = 0 /\ DOMAIN <<>> = {} /\ 1..0 = {} OBVIOUS
  <2>4. KeptRight(file, 0, <<>>) BY <2>3 DEF KeptRight, InOrder
  <2> QED BY <2>2, <2>4
<1>2. ASSUME NEW n \in Nat, n \in S PROVE n + 1 \in S
  <2> SUFFICES ASSUME n + 1 <= Len(file) PROVE KeptRight(file, n + 1, Kept(file)[n + 1])
    OBVIOUS
  <2>1. n + 1 \in 0..Len(file) /\ n + 1 # 0 /\ (n + 1) - 1 = n /\ n <= Len(file) /\ n + 1 \in 1..Len(file)
    BY <1>0
  <2>2. KeptRight(file, n, Kept(file)[n]) BY <1>2, <2>1
  <2>3. Kept(file)[n + 1] = IF file[n + 1].text THEN Append(Kept(file)[n], file[n + 1]) ELSE Kept(file)[n]
    BY <2>1, KeptRule DEF Keep
  <2>4. CASE file[n + 1].text
    <3>1. KeptRight(file, (n + 1) - 1, Kept(file)[n]) BY <2>1, <2>2
    <3>2. KeptRight(file, n + 1, Append(Kept(file)[n], file[n + 1])) BY <2>1, <2>4, <3>1, KeptStep
    <3> QED BY <3>2, <2>3, <2>4
  <2>5. CASE ~ file[n + 1].text
    <3>1. \A p \in 1..n + 1 : p \in 1..n \/ p = n + 1 OBVIOUS
    <3>2. \A p \in 1..n : p \in 1..n + 1 OBVIOUS
    <3> DEFINE t == Kept(file)[n]
    <3>3. KeptRight(file, n, t) BY <2>2
    <3> HIDE DEF t
    <3>4. KeptRight(file, n + 1, t) BY <3>1, <3>2, <3>3, <2>5 DEF KeptRight
    <3> QED BY <3>4, <2>3, <2>5 DEF t
  <2> QED BY <2>4, <2>5
<1> HIDE DEF S
<1>3. \A n \in Nat : n \in S BY <1>1, <1>2, NumberInduction
<1>4. KeptRight(file, Len(file), Kept(file)[Len(file)]) BY <1>0, <1>3 DEF S
<1> QED BY <1>4, KeptRule

-----------------------------------------------------------------------------
(* The search by halves *)

Bounds(n) == (0..n) \X (-1..n - 1) \X (-1..n - 1)

\* One turn of the loop, from where f says what the later turns find.
Probe(table, key, f, r) ==
  LET imin == r[1]   imax == r[2]   imid == (imin + imax) \div 2
  IN IF imax < imin THEN r[3]
     ELSE CASE table[imid + 1].va = key -> imid
            [] table[imid + 1].va < key -> f[<<imid + 1, imax, imid>>]
            [] OTHER -> f[<<imin, imid - 1, imid>>]

Halves(table, key) ==
  CHOOSE f : f = [r \in Bounds(Len(table)) |-> Probe(table, key, f, r)]

LEMMA SearchRule ==
  ASSUME NEW table, NEW key
  PROVE  LET last == Halves(table, key)[<<0, Len(table) - 1, -1>>]
         IN Search(table, key) = IF table[last + 1].va > key THEN last - 1 ELSE last
BY DEF Search, Halves, Probe, Bounds

LEMMA Middle ==
  ASSUME NEW n \in Nat, NEW a \in 0..n, NEW b \in -1..n - 1, a <= b
  PROVE  LET m == (a + b) \div 2
         IN /\ m \in 0..n - 1 /\ a <= m /\ m <= b
            /\ m + 1 \in 0..n /\ m - 1 \in -1..n - 1 /\ m \in -1..n - 1
            /\ b - (m + 1) < b - a /\ (m - 1) - a < b - a
<1>1. a \in Int /\ b \in Int /\ a + b \in Int OBVIOUS
<1>2. PICK m \in Int : m = (a + b) \div 2 BY <1>1
<1>3. 2 * m <= a + b /\ a + b < 2 * m + 2 BY <1>1, <1>2
<1>4. a <= m /\ m <= b BY <1>1, <1>2, <1>3
<1>5. /\ m \in 0..n - 1 /\ m + 1 \in 0..n /\ m - 1 \in -1..n - 1 /\ m \in -1..n - 1
      /\ b - (m + 1) < b - a /\ (m - 1) - a < b - a
  BY <1>1, <1>2, <1>4
<1> QED BY <1>2, <1>4, <1>5

\* The parts of a triple, and every element of Bounds has them.
LEMMA Parts ==
  ASSUME NEW n \in Nat, NEW r \in Bounds(n)
  PROVE  /\ r[1] \in 0..n /\ r[2] \in -1..n - 1 /\ r[3] \in -1..n - 1
         /\ \A a \in 0..n, b \in -1..n - 1, c \in -1..n - 1 :
              /\ <<a, b, c>> \in Bounds(n)
              /\ <<a, b, c>>[1] = a /\ <<a, b, c>>[2] = b /\ <<a, b, c>>[3] = c
BY DEF Bounds

\* A turn only looks at narrower bounds.
LEMMA ProbeNarrows ==
  ASSUME NEW n \in Nat, NEW table, NEW key, NEW f, NEW h, NEW r \in Bounds(n),
         \A q \in Bounds(n) : q[2] - q[1] < r[2] - r[1] => f[q] = h[q]
  PROVE  Probe(table, key, f, r) = Probe(table, key, h, r)
<1>1. CASE r[2] < r[1] BY <1>1 DEF Probe
<1>2. CASE ~ (r[2] < r[1])
  <2> DEFINE a == r[1]
             b == r[2]
             m == (a + b) \div 2
             u == <<m + 1, b, m>>
             v == <<a, m - 1, m>>
  <2>1. a \in 0..n /\ b \in -1..n - 1 BY Parts
  <2>2. a <= b BY <2>1, <1>2
  <2>3. /\ m \in 0..n - 1 /\ m + 1 \in 0..n /\ m - 1 \in -1..n - 1 /\ m \in -1..n - 1
        /\ b - (m + 1) < b - a /\ (m - 1) - a < b - a
    BY <2>1, <2>2, Middle
  <2> HIDE DEF m
  <2>4. u \in Bounds(n) /\ u[1] = m + 1 /\ u[2] = b BY <2>1, <2>3, Parts
  <2>5. v \in Bounds(n) /\ v[1] = a /\ v[2] = m - 1 BY <2>1, <2>3, Parts
  <2>6. f[u] = h[u]
    <3> HIDE DEF u
    <3> QED BY <2>3, <2>4
  <2>7. f[v] = h[v]
    <3> HIDE DEF v
    <3> QED BY <2>3, <2>5
  <2>8. ASSUME NEW g
        PROVE  Probe(table, key, g, r) = CASE table[m + 1].va = key -> m
                                           [] table[m + 1].va < key -> g[u]
                                           [] OTHER -> g[v]
    BY <1>2 DEF Probe, m
  <2> HIDE DEF u, v
  <2> QED BY <2>6, <2>7, <2>8
<1> QED BY <1>1, <1>2

LEMMA HalvesExist ==
  ASSUME NEW n \in Nat, NEW table, NEW key
  PROVE  \E f : f = [r \in Bounds(n) |-> Probe(table, key, f, r)]
<1> DEFINE Solves(f, k) == \A r \in Bounds(n) : r[2] - r[1] < k => f[r] = Probe(table, key, f, r)
           S == {k \in Nat : \E f : Solves(f, k)}
<1>1. 0 \in S
  <2> DEFINE f == [r \in Bounds(n) |-> r[3]]
  <2>1. ASSUME NEW r \in Bounds(n), r[2] - r[1] < 0 PROVE f[r] = Probe(table, key, f, r)
    <3>1. r[1] \in Int /\ r[2] \in Int BY Parts
    <3>2. r[2] < r[1] BY <3>1, <2>1
    <3> QED BY <3>2 DEF Probe
  <2> QED BY <2>1
<1>2. ASSUME NEW k \in Nat, k \in S PROVE k + 1 \in S
  <2>1. PICK f : Solves(f, k) BY <1>2
  <2> DEFINE h == [r \in Bounds(n) |-> IF r[2] - r[1] < k THEN f[r] ELSE Probe(table, key, f, r)]
  <2>2. ASSUME NEW r \in Bounds(n), r[2] - r[1] < k + 1 PROVE h[r] = Probe(table, key, h, r)
    <3>1. h[r] = Probe(table, key, f, r) BY <2>1
    <3>2. ASSUME NEW q \in Bounds(n), q[2] - q[1] < r[2] - r[1] PROVE f[q] = h[q]
      <4>1. q[2] - q[1] \in Int /\ r[2] - r[1] \in Int
        <5>1. q[1] \in Int /\ q[2] \in Int BY Parts
        <5>2. r[1] \in Int /\ r[2] \in Int BY Parts
        <5> QED BY <5>1, <5>2
      <4>2. q[2] - q[1] < k BY <4>1, <2>2, <3>2
      <4> QED BY <4>2
    <3> HIDE DEF h
    <3>3. Probe(table, key, f, r) = Probe(table, key, h, r) BY <3>2, ProbeNarrows
    <3> QED BY <3>1, <3>3
  <2>3. Solves(h, k + 1) BY <2>2
  <2>4. k + 1 \in Nat OBVIOUS
  <2> HIDE DEF h, Solves
  <2> QED BY <2>3, <2>4
<1> HIDE DEF S
<1>3. \A k \in Nat : k \in S BY <1>1, <1>2, NumberInduction
<1>4. PICK f : Solves(f, n + 1) BY <1>3 DEF S
<1> DEFINE g == [r \in Bounds(n) |-> f[r]]
<1>5. ASSUME NEW r \in Bounds(n) PROVE g[r] = Probe(table, key, g, r)
  <2>1. r[1] \in 0..n /\ r[2] \in -1..n - 1 BY Parts
  <2>2. r[2] - r[1] < n + 1 BY <2>1
  <2>3. g[r] = Probe(table, key, f, r) BY <2>2, <1>4
  <2>4. \A q \in Bounds(n) : f[q] = g[q] OBVIOUS
  <2> HIDE DEF g
  <2>5. Probe(table, key, f, r) = Probe(table, key, g, r) BY <2>4, ProbeNarrows
  <2> QED BY <2>3, <2>5
<1>6. g = [r \in Bounds(n) |-> Probe(table, key, g, r)]
  <2>1. g = [r \in Bounds(n) |-> g[r]] OBVIOUS
  <2> HIDE DEF g
  <2> QED BY <2>1, <1>5
<1> HIDE DEF g
<1> QED BY <1>6

LEMMA HalvesRule ==
  ASSUME NEW table \in Seq(Lines), NEW key, NEW r \in Bounds(Len(table))
  PROVE  Halves(table, key)[r] = Probe(table, key, Halves(table, key), r)
<1>1. Len(table) \in Nat OBVIOUS
<1> DEFINE h == Halves(table, key)
<1>2. h = [q \in Bounds(Len(table)) |-> Probe(table, key, h, q)]
  <2> DEFINE D == Bounds(Len(table))
  <2>1. \E f : f = [q \in D |-> Probe(table, key, f, q)] BY <1>1, HalvesExist
  <2> QED BY <2>1 DEF Halves
<1> HIDE DEF h
<1>3. h[r] = Probe(table, key, h, r) BY <1>2
<1> QED BY <1>3 DEF h

\* Where the turns stand: what is before imin is below the address, what is behind imax is
\* above it, and the last word looked at is at one of the two ends when they have met.
Narrowed(table, key, a, b, c) ==
  /\ a <= b + 1
  /\ \A i \in 0..Len(table) - 1 : i < a => table[i + 1].va < key
  /\ \A i \in 0..Len(table) - 1 : i > b => table[i + 1].va > key
  /\ b < a => \/ c = a - 1 /\ c \in 0..Len(table) - 1
              \/ c = b + 1 /\ c \in 0..Len(table) - 1

\* i is where the address is, or the last place before it.
Placed(table, key, i) ==
  /\ i \in -1..Len(table) - 1
  /\ \/ i >= 0 /\ table[i + 1].va = key
     \/ /\ i >= 0 => table[i + 1].va < key
        /\ \A j \in 0..Len(table) - 1 : j > i => table[j + 1].va > key

Corrected(table, key, last) == IF table[last + 1].va > key THEN last - 1 ELSE last

LEMMA Entries ==
  ASSUME NEW table \in Seq(Lines)
  PROVE  /\ Len(table) \in Nat
         /\ \A i \in 0..Len(table) - 1 : i + 1 \in DOMAIN table /\ table[i + 1].va \in Nat
<1>1. Len(table) \in Nat /\ DOMAIN table = 1..Len(table) OBVIOUS
<1>2. ASSUME NEW i \in 0..Len(table) - 1 PROVE i + 1 \in DOMAIN table /\ table[i + 1].va \in Nat
  <2>1. i + 1 \in 1..Len(table) BY <1>1
  <2>2. table[i + 1] \in Lines BY <2>1
  <2> QED BY <1>1, <2>1, <2>2 DEF Lines
<1> QED BY <1>1, <1>2

LEMMA ProbeRight ==
  ASSUME NEW table \in Seq(Lines), InOrder(table), NEW key \in Nat,
         NEW a \in 0..Len(table), NEW b \in -1..Len(table) - 1, NEW c \in -1..Len(table) - 1,
         Narrowed(table, key, a, b, c), NEW f,
         \A q \in Bounds(Len(table)) :
           q[2] - q[1] < b - a /\ Narrowed(table, key, q[1], q[2], q[3]) =>
             f[q] \in 0..Len(table) - 1 /\ Placed(table, key, Corrected(table, key, f[q]))
  PROVE  LET last == Probe(table, key, f, <<a, b, c>>)
         IN last \in 0..Len(table) - 1 /\ Placed(table, key, Corrected(table, key, last))
<1> DEFINE n == Len(table)
           last == Probe(table, key, f, <<a, b, c>>)
<1>0. n \in Nat /\ a \in Int /\ b \in Int BY Entries
<1>1. \A i \in 0..n - 1 : i + 1 \in DOMAIN table /\ table[i + 1].va \in Nat BY Entries
<1> HIDE DEF n
<1>2. CASE b < a
  <2>1. last = c BY <1>2 DEF Probe
  <2>2. c \in 0..n - 1 /\ (c = a - 1 \/ c = b + 1) /\ a = b + 1 BY <1>0, <1>2 DEF Narrowed, n
  <2>3. CASE c = a - 1
    <3>1. table[c + 1].va < key BY <2>2, <2>3, <1>0 DEF Narrowed, n
    <3>2. Corrected(table, key, c) = c BY <3>1, <2>2, <1>1 DEF Corrected
    <3>3. \A j \in 0..n - 1 : j > c => j > b BY <2>2, <2>3, <1>0
    <3>4. \A j \in 0..n - 1 : j > c => table[j + 1].va > key BY <3>3 DEF Narrowed, n
    <3>5. Placed(table, key, c) BY <3>1, <3>4, <2>2, <1>0 DEF Placed, n
    <3> QED BY <2>1, <2>2, <3>2, <3>5 DEF n
  <2>4. CASE c = b + 1
    <3>1. table[c + 1].va > key BY <2>2, <2>4, <1>0 DEF Narrowed, n
    <3>2. Corrected(table, key, c) = c - 1 BY <3>1 DEF Corrected
    <3>3. c - 1 \in -1..n - 1 /\ c - 1 = b /\ (c - 1 >= 0 => c - 1 \in 0..n - 1 /\ c - 1 < a)
      BY <2>2, <2>4, <1>0
    <3>4. c - 1 >= 0 => table[(c - 1) + 1].va < key BY <3>3 DEF Narrowed, n
    <3>5. \A j \in 0..n - 1 : j > c - 1 => table[j + 1].va > key BY <3>3 DEF Narrowed, n
    <3>6. Placed(table, key, c - 1) BY <3>3, <3>4, <3>5 DEF Placed, n
    <3> QED BY <2>1, <2>2, <3>2, <3>6 DEF n
  <2> QED BY <2>2, <2>3, <2>4
<1>3. CASE ~ (b < a)
  <2> DEFINE m == (a + b) \div 2
             v == table[m + 1].va
  <2>1. a <= b BY <1>0, <1>3
  <2>2. /\ m \in 0..n - 1 /\ a <= m /\ m <= b
        /\ m + 1 \in 0..n /\ m - 1 \in -1..n - 1 /\ m \in -1..n - 1
        /\ b - (m + 1) < b - a /\ (m - 1) - a < b - a
    BY <2>1, <1>0, Middle DEF n
  <2>3. last = CASE v = key -> m
                 [] v < key -> f[<<m + 1, b, m>>]
                 [] OTHER -> f[<<a, m - 1, m>>]
    BY <1>3 DEF Probe
  <2> HIDE DEF m
  <2>4. v \in Nat /\ m + 1 \in DOMAIN table BY <2>2, <1>1
  <2>5. \A i \in 0..n - 1 : i < m + 1 => table[i + 1].va <= v
    <3> SUFFICES ASSUME NEW i \in 0..n - 1, i < m + 1 PROVE table[i + 1].va <= v OBVIOUS
    <3>1. i + 1 \in DOMAIN table /\ table[i + 1].va \in Nat BY <1>1
    <3>2. i = m \/ i + 1 < m + 1 BY <2>2, <1>0
    <3>3. CASE i = m BY <3>1, <3>3
    <3>4. CASE i + 1 < m + 1 BY <3>1, <3>4, <2>4 DEF InOrder
    <3> QED BY <3>2, <3>3, <3>4
  <2>6. \A i \in 0..n - 1 : i > m - 1 => table[i + 1].va >= v
    <3> SUFFICES ASSUME NEW i \in 0..n - 1, i > m - 1 PROVE table[i + 1].va >= v OBVIOUS
    <3>1. i + 1 \in DOMAIN table /\ table[i + 1].va \in Nat BY <1>1
    <3>2. i = m \/ m + 1 < i + 1 BY <2>2, <1>0
    <3>3. CASE i = m BY <3>1, <3>3
    <3>4. CASE m + 1 < i + 1
      <4>1. v <= table[i + 1].va BY <3>1, <3>4, <2>4 DEF InOrder
      <4> HIDE DEF v
      <4> QED BY <4>1, <3>1, <2>4
    <3> QED BY <3>2, <3>3, <3>4
  <2>7. CASE v = key
    <3>1. last = m BY <2>3, <2>7
    <3>2. ~ (v > key) BY <2>4, <2>7
    <3>3. Corrected(table, key, m) = m BY <3>2 DEF Corrected
    <3>4. m >= 0 BY <2>2, <1>0
    <3>5. Placed(table, key, m) BY <2>2, <2>7, <3>4 DEF Placed, n
    <3> QED BY <3>1, <3>3, <3>5, <2>2 DEF n
  <2>8. CASE v < key
    <3> DEFINE q == <<m + 1, b, m>>
    <3>1. last = f[q] BY <2>3, <2>4, <2>8
    <3>2. q \in Bounds(n) /\ q[1] = m + 1 /\ q[2] = b /\ q[3] = m BY <2>2 DEF Bounds, n
    <3>3. Narrowed(table, key, m + 1, b, m)
      <4>1. \A i \in 0..n - 1 : i < m + 1 => table[i + 1].va < key BY <2>4, <2>5, <2>8, <1>1
      <4>2. m + 1 <= b + 1 /\ m = (m + 1) - 1 BY <2>2, <1>0
      <4> QED BY <4>1, <4>2, <2>2 DEF Narrowed, n
    <3> HIDE DEF q
    <3>4. f[q] \in 0..n - 1 /\ Placed(table, key, Corrected(table, key, f[q]))
      BY <3>2, <3>3, <2>2 DEF n
    <3> QED BY <3>1, <3>4 DEF n
  <2>9. CASE v > key
    <3> DEFINE q == <<a, m - 1, m>>
    <3>0. ~ (v = key) /\ ~ (v < key) BY <2>4, <2>9
    <3>1. last = f[q] BY <2>3, <3>0
    <3>2. q \in Bounds(n) /\ q[1] = a /\ q[2] = m - 1 /\ q[3] = m BY <2>2 DEF Bounds, n
    <3>3. Narrowed(table, key, a, m - 1, m)
      <4>1. \A i \in 0..n - 1 : i > m - 1 => table[i + 1].va > key BY <2>4, <2>6, <2>9, <1>1
      <4>2. a <= (m - 1) + 1 /\ m = (m - 1) + 1 BY <2>2, <1>0
      <4> QED BY <4>1, <4>2, <2>2 DEF Narrowed, n
    <3> HIDE DEF q
    <3>4. f[q] \in 0..n - 1 /\ Placed(table, key, Corrected(table, key, f[q]))
      BY <3>2, <3>3, <2>2 DEF n
    <3> QED BY <3>1, <3>4 DEF n
  <2> QED
    <3>1. v = key \/ v < key \/ v > key BY <2>4
    <3> HIDE DEF v, last
    <3> QED BY <3>1, <2>7, <2>8, <2>9 DEF last
<1> QED BY <1>2, <1>3

LEMMA SearchRight ==
  ASSUME NEW table \in Seq(Lines), InOrder(table), table # <<>>, NEW key \in Nat
  PROVE  Placed(table, key, Search(table, key))
<1> DEFINE n == Len(table)
           h == Halves(table, key)
           Good(r) == /\ h[r] \in 0..n - 1
                      /\ Placed(table, key, Corrected(table, key, h[r]))
           S == {k \in Nat : \A r \in Bounds(n) :
                   r[2] - r[1] < k /\ Narrowed(table, key, r[1], r[2], r[3]) => Good(r)}
<1>0. n \in Nat /\ n >= 1 BY Entries
<1>1. ASSUME NEW k \in Nat,
             \A r \in Bounds(n) :
               r[2] - r[1] < k /\ Narrowed(table, key, r[1], r[2], r[3]) => Good(r),
             NEW r \in Bounds(n), r[2] - r[1] < k + 1, Narrowed(table, key, r[1], r[2], r[3])
      PROVE  Good(r)
  <2>1. r[1] \in 0..n /\ r[2] \in -1..n - 1 /\ r[3] \in -1..n - 1 BY <1>0, Parts
  <2>2. r = <<r[1], r[2], r[3]>> BY DEF Bounds
  <2>3. ASSUME NEW q \in Bounds(n), q[2] - q[1] < r[2] - r[1], Narrowed(table, key, q[1], q[2], q[3])
        PROVE  h[q] \in 0..n - 1 /\ Placed(table, key, Corrected(table, key, h[q]))
    <3>1. q[1] \in 0..n /\ q[2] \in -1..n - 1 BY <1>0, Parts
    <3>2. q[2] - q[1] < k BY <2>1, <2>3, <3>1, <1>0, <1>1
    <3> QED BY <1>1, <2>3, <3>2
  <2>4. LET last == Probe(table, key, h, <<r[1], r[2], r[3]>>)
        IN last \in 0..n - 1 /\ Placed(table, key, Corrected(table, key, last))
    <3> HIDE DEF h
    <3> QED BY <2>1, <2>3, <1>1, ProbeRight
  <2>5. h[r] = Probe(table, key, h, r) BY HalvesRule
  <2>6. h[r] = Probe(table, key, h, <<r[1], r[2], r[3]>>) BY <2>2, <2>5
  <2> HIDE DEF h, n
  <2> QED BY <2>4, <2>6
<1>2. 0 \in S
  <2> SUFFICES ASSUME NEW r \in Bounds(n), r[2] - r[1] < 0, Narrowed(table, key, r[1], r[2], r[3])
               PROVE  Good(r)
    OBVIOUS
  <2>1. r[1] \in 0..n /\ r[2] \in -1..n - 1 /\ r[3] \in -1..n - 1 BY <1>0, Parts
  <2>2. r = <<r[1], r[2], r[3]>> BY DEF Bounds
  <2>3. r[2] < r[1] /\ r[1] <= r[2] + 1 BY <2>1, <1>0 DEF Narrowed
  <2>4. \A q \in Bounds(n) : Narrowed(table, key, q[1], q[2], q[3]) => ~ (q[2] - q[1] < r[2] - r[1])
    <3> SUFFICES ASSUME NEW q \in Bounds(n), Narrowed(table, key, q[1], q[2], q[3])
                 PROVE  ~ (q[2] - q[1] < r[2] - r[1])
      OBVIOUS
    <3>1. q[1] \in 0..n /\ q[2] \in -1..n - 1 BY <1>0, Parts
    <3>2. q[1] <= q[2] + 1 BY DEF Narrowed
    <3> QED BY <2>1, <2>3, <3>1, <3>2, <1>0
  <2>5. LET last == Probe(table, key, h, <<r[1], r[2], r[3]>>)
        IN last \in 0..n - 1 /\ Placed(table, key, Corrected(table, key, last))
    <3> HIDE DEF h
    <3> QED BY <2>1, <2>4, ProbeRight
  <2>6. h[r] = Probe(table, key, h, r) BY HalvesRule
  <2>7. h[r] = Probe(table, key, h, <<r[1], r[2], r[3]>>) BY <2>2, <2>6
  <2> HIDE DEF h, n
  <2> QED BY <2>5, <2>7
<1>3. ASSUME NEW k \in Nat, k \in S PROVE k + 1 \in S
  <2>1. k + 1 \in Nat OBVIOUS
  <2>2. \A r \in Bounds(n) :
          r[2] - r[1] < k /\ Narrowed(table, key, r[1], r[2], r[3]) => Good(r)
    BY <1>3
  <2>3. \A r \in Bounds(n) :
          r[2] - r[1] < k + 1 /\ Narrowed(table, key, r[1], r[2], r[3]) => Good(r)
    <3> HIDE DEF Good
    <3> QED BY <2>2, <1>1
  <2> HIDE DEF Good
  <2> QED BY <2>1, <2>3
<1> HIDE DEF S
<1>4. \A k \in Nat : k \in S BY <1>2, <1>3, NumberInduction
<1> DEFINE r == <<0, n - 1, -1>>
<1>5. /\ r \in Bounds(n) /\ r[1] = 0 /\ r[2] = n - 1 /\ r[3] = -1
      /\ 0 \in 0..n /\ n - 1 \in -1..n - 1 /\ -1 \in -1..n - 1
  BY <1>0 DEF Bounds
<1>6. Narrowed(table, key, 0, n - 1, -1)
  <2>1. ~ (n - 1 < 0) /\ 0 <= (n - 1) + 1 BY <1>0
  <2>2. \A i \in 0..n - 1 : ~ (i < 0) /\ ~ (i > n - 1) BY <1>0
  <2> QED BY <2>1, <2>2 DEF Narrowed
<1>7. Good(r)
  <2>1. r[2] - r[1] < n BY <1>0, <1>5
  <2>2. Narrowed(table, key, r[1], r[2], r[3]) BY <1>5, <1>6
  <2>3. n \in S BY <1>0, <1>4
  <2>4. \A q \in Bounds(n) :
          q[2] - q[1] < n /\ Narrowed(table, key, q[1], q[2], q[3]) => Good(q)
    BY <2>3 DEF S
  <2> HIDE DEF Good, r
  <2> QED BY <2>1, <2>2, <2>4, <1>5
<1>8. Search(table, key) = Corrected(table, key, h[r])
  BY SearchRule DEF Corrected
<1> QED BY <1>7, <1>8

(* The name of an address *)

LEMMA NameRight ==
  ASSUME NEW file \in Seq(Lines), InOrder(file), symbols = Parse(file), symbols # <<>>,
         NEW va \in Nat,
         NEW p \in DOMAIN file, file[p].text, file[p].va <= va
  PROVE  \E i \in {j \in DOMAIN file : file[j].text /\ file[j].va <= va} :
           /\ \A j \in {j \in DOMAIN file : file[j].text /\ file[j].va <= va} :
                file[j].va <= file[i].va
           /\ Name(va) = [name |-> file[i].name, beyond |-> file[i].va # va]
<1> DEFINE t == Parse(file)
           s == Search(t, va)
<1>1. KeptRight(file, Len(file), t) BY ParseRight
<1>2. t \in Seq(Lines) /\ InOrder(t) /\ t # <<>> BY <1>1 DEF KeptRight
<1>3. DOMAIN file = 1..Len(file) /\ Len(file) \in Nat OBVIOUS
<1> HIDE DEF t
<1>4. Placed(t, va, s) BY <1>2, SearchRight
<1>5. Len(t) \in Nat /\ DOMAIN t = 1..Len(t)
      /\ \A i \in 0..Len(t) - 1 : i + 1 \in DOMAIN t /\ t[i + 1].va \in Nat
  BY <1>2, Entries
<1>6. \A j \in DOMAIN file : file[j].va \in Nat
  <2> SUFFICES ASSUME NEW j \in DOMAIN file PROVE file[j].va \in Nat OBVIOUS
  <2>1. file[j] \in Lines BY <1>3
  <2> QED BY <2>1 DEF Lines
<1> HIDE DEF s
<1>7. \* every kept line that begins at or before va does so at or before line s
  ASSUME NEW j \in DOMAIN file, file[j].text, file[j].va <= va
  PROVE  s >= 0 /\ file[j].va <= t[s + 1].va
  <2>1. PICK k \in 1..Len(t) : t[k] = file[j] BY <1>1, <1>3, <1>7 DEF KeptRight
  <2>2. k - 1 \in 0..Len(t) - 1 /\ (k - 1) + 1 = k BY <1>5
  <2>3. t[k].va <= va /\ t[k].va \in Nat BY <2>1, <1>6, <1>7
  <2>4. CASE s >= 0 /\ t[s + 1].va = va BY <2>1, <2>3, <2>4
  <2>5. CASE \A i \in 0..Len(t) - 1 : i > s => t[i + 1].va > va
    <3>1. ~ (k - 1 > s)
      <4> SUFFICES ASSUME k - 1 > s PROVE FALSE OBVIOUS
      <4>1. t[k].va > va BY <2>2, <2>5
      <4> QED BY <4>1, <2>3
    <3>2. s \in -1..Len(t) - 1 BY <1>4 DEF Placed
    <3>3. s >= 0 /\ k <= s + 1 /\ s + 1 \in DOMAIN t /\ k \in DOMAIN t
      BY <3>1, <3>2, <2>2, <1>5
    <3>4. t[s + 1].va \in Nat BY <3>2, <3>3, <1>5
    <3>5. CASE k = s + 1 BY <3>3, <3>5, <2>1, <2>3
    <3>6. CASE k < s + 1 BY <3>3, <3>6, <2>1, <1>2 DEF InOrder
    <3>7. k = s + 1 \/ k < s + 1 BY <3>2, <3>3, <2>2, <1>5
    <3> QED BY <3>3, <3>5, <3>6, <3>7
  <2> QED BY <2>4, <2>5, <1>4 DEF Placed
<1>8. s >= 0 BY <1>7
<1>9. s \in 0..Len(t) - 1 BY <1>4, <1>5, <1>8 DEF Placed
<1>10. s + 1 \in 1..Len(t) /\ t[s + 1].va \in Nat BY <1>5, <1>9
<1>11. PICK i \in 1..Len(file) : file[i].text /\ t[s + 1] = file[i] BY <1>1, <1>10 DEF KeptRight
<1>12. file[i].va <= va BY <1>4, <1>8, <1>10, <1>11 DEF Placed
<1>13. Name(va) = [name |-> t[s + 1].name, beyond |-> t[s + 1].va # va]
  <2>1. s # NotFound BY <1>9, <1>5 DEF NotFound
  <2> QED BY <2>1 DEF Name, s, t
<1>14. Name(va) = [name |-> file[i].name, beyond |-> file[i].va # va] BY <1>11, <1>13
<1>15. \A j \in {j \in DOMAIN file : file[j].text /\ file[j].va <= va} : file[j].va <= file[i].va
  BY <1>7, <1>11
<1> QED BY <1>3, <1>11, <1>12, <1>14, <1>15

-----------------------------------------------------------------------------
(* The tags of a Linux guest *)

Entry == [tag : {"core", "revision", "mem", "initrd2", "cmdline", "none"}, size : Nat]

Fixed(tag) == [tag |-> tag, size |-> TagSize[tag]]

Sizes(len, initrd) ==
  <<Fixed("core"), Fixed("revision"), Fixed("mem")>>
  \o (IF initrd THEN <<Fixed("initrd2")>> ELSE <<>>)
  \o (IF len > 0 THEN <<[tag |-> "cmdline", size |-> CmdlineWords(len)]>> ELSE <<>>)
  \o <<[tag |-> "none", size |-> 0]>>

\* The command line's tag has room for its header, the text and the byte that ends it.
LEMMA CmdlineFits ==
  ASSUME NEW len \in Nat
  PROVE  /\ CmdlineWords(len) \in Nat /\ CmdlineWords(len) > 0
         /\ 8 + len + 1 <= 4 * CmdlineWords(len)
<1>1. PICK w \in Int : w = (8 + len + 1 + 4) \div 4 OBVIOUS
<1>2. 4 * w <= 8 + len + 1 + 4 /\ 8 + len + 1 + 4 < 4 * w + 4 BY <1>1
<1> QED BY <1>1, <1>2 DEF CmdlineWords

\* A list of tags that ends with the end, every tag before it of some size.
Listed(s, len) ==
  /\ s \in Seq(Entry) /\ Len(s) >= 2
  /\ s[1].tag = "core" /\ s[Len(s)].tag = "none" /\ s[Len(s)].size = 0
  /\ \A i \in 1..Len(s) - 1 :
       s[i].size > 0 /\ (s[i].tag = "cmdline" => 8 + len + 1 <= 4 * s[i].size)

\* A list without its end.
Fronted(s, len) ==
  /\ s \in Seq(Entry) /\ Len(s) >= 1 /\ s[1].tag = "core"
  /\ \A i \in 1..Len(s) :
       s[i].size > 0 /\ (s[i].tag = "cmdline" => 8 + len + 1 <= 4 * s[i].size)

LEMMA FrontGrows ==
  ASSUME NEW len \in Nat, NEW s, Fronted(s, len), NEW e \in Entry, e.size > 0,
         e.tag = "cmdline" => 8 + len + 1 <= 4 * e.size
  PROVE  Fronted(s \o <<e>>, len)
<1> DEFINE u == s \o <<e>>
<1>1. s \in Seq(Entry) /\ <<e>> \in Seq(Entry) /\ Len(s) \in Nat /\ Len(<<e>>) = 1 /\ <<e>>[1] = e
  BY DEF Fronted
<1>2. /\ u \in Seq(Entry) /\ Len(u) = Len(s) + 1
      /\ \A i \in 1..Len(s) : u[i] = s[i]
      /\ u[Len(s) + 1] = e
  BY <1>1
<1> HIDE DEF u
<1>3. \A i \in 1..Len(u) : i \in 1..Len(s) \/ i = Len(s) + 1 BY <1>1, <1>2
<1>4. 1 \in 1..Len(s) BY <1>1 DEF Fronted
<1>5. Len(u) >= 1 BY <1>1, <1>2
<1>6. u[1].tag = "core" BY <1>2, <1>4 DEF Fronted
<1>7. \A i \in 1..Len(u) :
        u[i].size > 0 /\ (u[i].tag = "cmdline" => 8 + len + 1 <= 4 * u[i].size)
  BY <1>2, <1>3 DEF Fronted
<1>8. Fronted(u, len) BY <1>2, <1>5, <1>6, <1>7 DEF Fronted
<1> QED BY <1>8 DEF u

LEMMA ListEnds ==
  ASSUME NEW len \in Nat, NEW s, Fronted(s, len)
  PROVE  Listed(s \o <<[tag |-> "none", size |-> 0]>>, len)
<1> DEFINE e == [tag |-> "none", size |-> 0]
           u == s \o <<e>>
<1>0. e \in Entry /\ e.tag = "none" /\ e.size = 0 BY DEF Entry
<1> HIDE DEF e
<1>1. s \in Seq(Entry) /\ <<e>> \in Seq(Entry) /\ Len(s) \in Nat /\ Len(<<e>>) = 1 /\ <<e>>[1] = e
  BY <1>0 DEF Fronted
<1>2. /\ u \in Seq(Entry) /\ Len(u) = Len(s) + 1
      /\ \A i \in 1..Len(s) : u[i] = s[i]
      /\ u[Len(s) + 1] = e
  BY <1>1
<1> HIDE DEF u
<1>3. \A i \in 1..Len(u) - 1 : i \in 1..Len(s) BY <1>1, <1>2
<1>4. 1 \in 1..Len(s) BY <1>1 DEF Fronted
<1>5. Len(u) >= 2 BY <1>1, <1>2 DEF Fronted
<1>6. u[1].tag = "core" BY <1>2, <1>4 DEF Fronted
<1>7. \A i \in 1..Len(u) - 1 :
        u[i].size > 0 /\ (u[i].tag = "cmdline" => 8 + len + 1 <= 4 * u[i].size)
  BY <1>2, <1>3 DEF Fronted
<1>8. u[Len(u)].tag = "none" /\ u[Len(u)].size = 0 BY <1>0, <1>2
<1>9. Listed(u, len) BY <1>2, <1>5, <1>6, <1>7, <1>8 DEF Listed
<1> QED BY <1>9 DEF u, e

LEMMA SizesRight ==
  ASSUME NEW len \in Nat, NEW initrd \in BOOLEAN
  PROVE  Listed(Sizes(len, initrd), len)
<1> DEFINE a == <<Fixed("core"), Fixed("revision"), Fixed("mem")>>
           b == IF initrd THEN <<Fixed("initrd2")>> ELSE <<>>
           c == IF len > 0 THEN <<[tag |-> "cmdline", size |-> CmdlineWords(len)]>> ELSE <<>>
<1>1. \A tag \in {"core", "revision", "mem", "initrd2"} :
        /\ Fixed(tag) \in Entry /\ Fixed(tag).size > 0 /\ Fixed(tag).tag = tag
        /\ Fixed(tag).tag # "cmdline"
  <2>1. /\ TagSize["core"] = 5 /\ TagSize["revision"] = 3 /\ TagSize["mem"] = 4
        /\ TagSize["initrd2"] = 4
    BY DEF TagSize
  <2>2. \A tag \in {"core", "revision", "mem", "initrd2"} : TagSize[tag] \in Nat /\ TagSize[tag] > 0
    BY <2>1
  <2> QED BY <2>2 DEF Fixed, Entry
<1>2. Fronted(a, len)
  <2>1. a \in Seq(Entry) /\ Len(a) = 3 /\ a[1] = Fixed("core") /\ a[2] = Fixed("revision")
        /\ a[3] = Fixed("mem")
    BY <1>1
  <2>2. \A i \in 1..3 : i = 1 \/ i = 2 \/ i = 3 OBVIOUS
  <2> HIDE DEF a
  <2> QED BY <1>1, <2>1, <2>2 DEF Fronted
<1>3. Fronted(a \o b, len)
  <2>1. CASE initrd
    <3>1. b = <<Fixed("initrd2")>> BY <2>1
    <3> HIDE DEF a, b
    <3> QED BY <1>1, <1>2, <3>1, FrontGrows
  <2>2. CASE ~ initrd
    <3>1. b = <<>> BY <2>2
    <3> HIDE DEF a, b
    <3>2. a \o b = a BY <1>2, <3>1 DEF Fronted
    <3> QED BY <1>2, <3>2
  <2> QED BY <2>1, <2>2
<1>4. Fronted(a \o b \o c, len)
  <2>1. CASE len > 0
    <3> DEFINE e == [tag |-> "cmdline", size |-> CmdlineWords(len)]
    <3>1. c = <<e>> BY <2>1
    <3>2. e \in Entry /\ e.size > 0 /\ 8 + len + 1 <= 4 * e.size BY CmdlineFits DEF Entry
    <3> HIDE DEF a, b, c, e
    <3> QED BY <1>3, <3>1, <3>2, FrontGrows
  <2>2. CASE ~ (len > 0)
    <3>1. c = <<>> BY <2>2
    <3> DEFINE ab == a \o b
    <3>2. Fronted(ab, len) BY <1>3
    <3> HIDE DEF a, b, c, ab
    <3>3. ab \o c = ab BY <3>1, <3>2 DEF Fronted
    <3> QED BY <3>2, <3>3 DEF ab
  <2> QED BY <2>1, <2>2
<1> DEFINE abc == a \o b \o c
<1>5. Fronted(abc, len) BY <1>4
<1>6. Sizes(len, initrd) = abc \o <<[tag |-> "none", size |-> 0]>> BY DEF Sizes
<1> HIDE DEF abc
<1> QED BY <1>5, <1>6, ListEnds

\* Where tag i begins: at the end of the one before it.
Begin(s, f, i) == IF i = 1 THEN 0 ELSE f[i - 1] + s[i - 1].size

Begins(s) == CHOOSE f : f = [i \in 1..Len(s) |-> Begin(s, f, i)]

LEMMA BeginsExist ==
  ASSUME NEW s
  PROVE  \A n \in Nat : \E f : f = [i \in 1..n |-> Begin(s, f, i)]
<1> DEFINE S == {n \in Nat : \E f : f = [i \in 1..n |-> Begin(s, f, i)]}
<1>1. 0 \in S
  <2> DEFINE f == [i \in 1..0 |-> 0]
  <2>1. 1..0 = {} OBVIOUS
  <2>2. f = [i \in 1..0 |-> Begin(s, f, i)] BY <2>1
  <2> QED BY <2>2
<1>2. ASSUME NEW n \in Nat, n \in S PROVE n + 1 \in S
  <2>1. PICK f : f = [i \in 1..n |-> Begin(s, f, i)] BY <1>2
  <2> DEFINE h == [i \in 1..n + 1 |-> IF i <= n THEN f[i] ELSE Begin(s, f, i)]
  <2>2. ASSUME NEW i \in 1..n + 1 PROVE h[i] = Begin(s, h, i)
    <3>1. h[i] = Begin(s, f, i)
      <4>1. CASE i <= n
        <5>1. i \in 1..n BY <4>1
        <5> QED BY <5>1, <4>1, <2>1
      <4>2. CASE ~ (i <= n) BY <4>2
      <4> QED BY <4>1, <4>2
    <3>2. i # 1 => i - 1 \in 1..n + 1 /\ i - 1 <= n OBVIOUS
    <3>3. i # 1 => h[i - 1] = f[i - 1] BY <3>2
    <3> HIDE DEF h
    <3> QED BY <3>1, <3>3 DEF Begin
  <2>3. h = [i \in 1..n + 1 |-> Begin(s, h, i)]
    <3>1. h = [i \in 1..n + 1 |-> h[i]] OBVIOUS
    <3> HIDE DEF h
    <3> QED BY <3>1, <2>2
  <2> HIDE DEF h
  <2>4. n + 1 \in Nat OBVIOUS
  <2> QED BY <2>3, <2>4
<1> HIDE DEF S
<1>3. \A n \in Nat : n \in S BY <1>1, <1>2, NumberInduction
<1> QED BY <1>3 DEF S

LEMMA BeginsRule ==
  ASSUME NEW len \in Nat, NEW s, Listed(s, len)
  PROVE  \A i \in 1..Len(s) : Begins(s)[i] = Begin(s, Begins(s), i) /\ Begins(s)[i] \in Nat
<1> DEFINE f == Begins(s)
           n == Len(s)
<1>0. s \in Seq(Entry) /\ n \in Nat BY DEF Listed
<1>1. f = [i \in 1..n |-> Begin(s, f, i)] BY <1>0, BeginsExist DEF Begins
<1> HIDE DEF f
<1>2. \A i \in 1..n : f[i] = Begin(s, f, i) BY <1>1
<1> DEFINE S == {i \in Nat : i \in 1..n => f[i] \in Nat}
<1>3. 0 \in S BY <1>0
<1>4. ASSUME NEW i \in Nat, i \in S PROVE i + 1 \in S
  <2> SUFFICES ASSUME i + 1 \in 1..n PROVE f[i + 1] \in Nat OBVIOUS
  <2>1. CASE i = 0
    <3>1. f[i + 1] = 0 BY <1>2, <2>1 DEF Begin
    <3> QED BY <3>1
  <2>2. CASE i # 0
    <3>1. i \in 1..n /\ i + 1 # 1 /\ (i + 1) - 1 = i BY <1>0, <2>2
    <3>2. s[i] \in Entry BY <1>0, <3>1
    <3>3. f[i + 1] = f[i] + s[i].size BY <1>2, <3>1 DEF Begin
    <3>4. f[i] \in Nat BY <1>4, <3>1
    <3> QED BY <3>2, <3>3, <3>4 DEF Entry
  <2> QED BY <2>1, <2>2
<1> HIDE DEF S
<1>5. \A i \in Nat : i \in S BY <1>3, <1>4, NumberInduction
<1>6. \A i \in 1..n : f[i] \in Nat BY <1>0, <1>5 DEF S
<1> QED BY <1>2, <1>6 DEF f

LEMMA AtagsRule ==
  ASSUME NEW len, NEW initrd
  PROVE  LET s == Sizes(len, initrd)
         IN Atags(len, initrd) = [i \in 1..Len(s) |->
              [tag |-> s[i].tag, size |-> s[i].size, start |-> Begins(s)[i]]]
BY DEF Atags, Sizes, Fixed, Begins, Begin

\* What TagsWalk says of the tags t of a guest with a command line of len characters.
Walks(t, len) ==
  /\ t[1].tag = "core" /\ Last(t).tag = "none" /\ Last(t).size = 0
  /\ \A i \in 1..Len(t) - 1 :
       /\ t[i].size > 0 /\ t[i + 1].start = t[i].start + t[i].size
       /\ t[i].tag = "cmdline" => 4 * t[i].start + 8 + len + 1 <= 4 * t[i + 1].start

LEMMA AtagsWalk ==
  ASSUME NEW len \in Nat, NEW initrd \in BOOLEAN
  PROVE  Walks(Atags(len, initrd), len)
<1> DEFINE s == Sizes(len, initrd)
           f == Begins(s)
           n == Len(s)
           t == [i \in 1..n |-> [tag |-> s[i].tag, size |-> s[i].size, start |-> f[i]]]
<1>1. Listed(s, len) BY SizesRight
<1>2. Atags(len, initrd) = t BY AtagsRule
<1> HIDE DEF s
<1>3. s \in Seq(Entry) /\ n \in Nat /\ n >= 2 BY <1>1 DEF Listed
<1>4. \A i \in 1..n : s[i] \in Entry /\ s[i].size \in Nat
  <2>1. \A i \in 1..n : s[i] \in Entry BY <1>3
  <2> QED BY <2>1 DEF Entry
<1>5. \A i \in 1..n : f[i] = Begin(s, f, i) /\ f[i] \in Nat BY <1>1, BeginsRule
<1> HIDE DEF f, n
<1>6. /\ \A i \in 1..n : t[i].tag = s[i].tag /\ t[i].size = s[i].size /\ t[i].start = f[i]
      /\ Len(t) = n
  BY <1>3
<1> HIDE DEF t
<1>7. t[1].tag = "core" /\ t[n].tag = "none" /\ t[n].size = 0
  <2>1. 1 \in 1..n /\ n \in 1..n BY <1>3
  <2> QED BY <2>1, <1>1, <1>6 DEF Listed, n
<1>8. ASSUME NEW i \in 1..n - 1
      PROVE  /\ t[i].size > 0 /\ t[i + 1].start = t[i].start + t[i].size
             /\ t[i].tag = "cmdline" => 4 * t[i].start + 8 + len + 1 <= 4 * t[i + 1].start
  <2>1. i \in 1..n /\ i + 1 \in 1..n /\ i + 1 # 1 /\ (i + 1) - 1 = i BY <1>3
  <2>2. t[i].size = s[i].size /\ t[i].tag = s[i].tag /\ t[i].start = f[i] /\ t[i + 1].start = f[i + 1]
    BY <2>1, <1>6
  <2>3. s[i].size > 0 /\ (s[i].tag = "cmdline" => 8 + len + 1 <= 4 * s[i].size)
    BY <1>1 DEF Listed, n
  <2>4. f[i + 1] = f[i] + s[i].size BY <2>1, <1>5 DEF Begin
  <2>5. f[i] \in Nat /\ s[i].size \in Nat BY <2>1, <1>4, <1>5
  <2>6. t[i].tag = "cmdline" => 4 * f[i] + 8 + len + 1 <= 4 * f[i + 1]
    <3> SUFFICES ASSUME t[i].tag = "cmdline" PROVE 4 * f[i] + 8 + len + 1 <= 4 * f[i + 1] OBVIOUS
    <3>1. 8 + len + 1 <= 4 * s[i].size BY <2>2, <2>3
    <3> QED BY <3>1, <2>4, <2>5
  <2> QED BY <2>2, <2>3, <2>4, <2>6
<1>9. Walks(t, len) BY <1>6, <1>7, <1>8 DEF Walks, Last
<1> QED BY <1>2, <1>9

-----------------------------------------------------------------------------
(* The loader *)

\* The table is empty or has the text lines of the file, and the tags in memory are those of
\* the guest that was started.
LoaderInv ==
  /\ map \in Maps
  /\ symbols \in {<<>>, Parse(map)}
  /\ TagsWalk

LEMMA LoaderInitially == LoaderInit => LoaderInv
BY DEF LoaderInit, LoaderInv, TagsWalk, Nothing

\* Both ways to start a guest leave tags that can be walked.
LEMMA BootTags ==
  ASSUME Boot
  PROVE  TagsWalk'
<1>1. CASE \E len \in CmdLengths, initrd \in BOOLEAN :
             boot' = [kind |-> "linux", len |-> len, tags |-> Atags(len, initrd)]
  <2>1. PICK len \in CmdLengths, initrd \in BOOLEAN :
               boot' = [kind |-> "linux", len |-> len, tags |-> Atags(len, initrd)]
    BY <1>1
  <2>2. len \in Nat BY LoaderAssumption
  <2> DEFINE t == Atags(len, initrd)
  <2>3. Walks(t, len) BY <2>2, AtagsWalk
  <2>4. boot'.tags = t /\ boot'.len = len BY <2>1
  <2> HIDE DEF t
  <2> QED BY <2>3, <2>4 DEF TagsWalk, Walks
<1>2. CASE boot' = [kind |-> "bm", len |-> 0, tags |-> <<>>] BY <1>2 DEF TagsWalk
<1> QED BY <1>1, <1>2 DEF Boot

LEMMA LoaderStep ==
  ASSUME LoaderInv, [LoaderNext]_all
  PROVE  LoaderInv'
<1> USE DEF LoaderInv
<1>1. ASSUME UNCHANGED <<map, boot>>, symbols' \in {symbols, Parse(map)} PROVE LoaderInv'
  <2>1. TagsWalk' BY <1>1 DEF TagsWalk
  <2> QED BY <1>1, <2>1
<1>2. ASSUME UNCHANGED <<map, symbols>>, Boot PROVE LoaderInv'
  <2>1. TagsWalk' BY <1>2, BootTags
  <2> QED BY <1>2, <2>1
<1>3. CASE Start BY <1>3, <1>1 DEF Start
<1>4. CASE TimerIrq BY <1>4, <1>1 DEF TimerIrq
<1>5. CASE Autoboot BY <1>5, <1>2 DEF Autoboot
<1>6. CASE Cliboot BY <1>6, <1>1 DEF Cliboot
<1>7. CASE CliBoot BY <1>7, <1>2 DEF CliBoot
<1>8. CASE CliMonitor BY <1>8, <1>1 DEF CliMonitor, loaderVars
<1>9. CASE MonitorPoint BY <1>9, <1>1 DEF MonitorPoint, loaderVars
<1>10. CASE MonitorExit BY <1>10, <1>1 DEF MonitorExit, loaderVars
<1>11. CASE MonitorRecovery BY <1>11, <1>1 DEF MonitorRecovery
<1>12. CASE MonitorShow BY <1>12, <1>1 DEF MonitorShow, loaderVars
<1>13. CASE MonitorList BY <1>13, <1>1 DEF MonitorList, loaderVars
<1>14. CASE Typed BY <1>14, <1>1 DEF Typed, loaderVars
<1>15. CASE Handler BY <1>15, <1>1 DEF Handler
<1>16. CASE Gdb BY <1>16, <1>1 DEF Gdb, loaderVars
<1>17. CASE Target BY <1>17, <1>1 DEF Target, loaderVars
<1>18. CASE UNCHANGED all BY <1>18, <1>1 DEF all, loaderVars
<1> QED BY <1>3, <1>4, <1>5, <1>6, <1>7, <1>8, <1>9, <1>10, <1>11, <1>12, <1>13, <1>14, <1>15,
          <1>16, <1>17, <1>18 DEF LoaderNext, Console

LEMMA LoaderNames == LoaderInv => Named
<1> SUFFICES ASSUME LoaderInv, NEW va \in 0..Last(map).va - 1,
                    symbols # <<>>,
                    {i \in DOMAIN map : map[i].text /\ map[i].va <= va} # {}
             PROVE  LET before == {i \in DOMAIN map : map[i].text /\ map[i].va <= va}
                    IN \E i \in before :
                         /\ \A j \in before : map[j].va <= map[i].va
                         /\ Name(va) = [name |-> map[i].name, beyond |-> map[i].va # va]
  BY DEF Named
<1>1. map \in Seq(Lines) /\ InOrder(map) BY LoaderAssumption DEF LoaderInv, Lines, InOrder
<1>2. symbols = Parse(map) BY DEF LoaderInv
<1>3. va \in Nat OBVIOUS
<1>4. PICK p \in DOMAIN map : map[p].text /\ map[p].va <= va OBVIOUS
<1> QED BY <1>1, <1>2, <1>3, <1>4, NameRight

(***************************************************************************)
(* Every state of the loader that can be reached has the table and the     *)
(* tags of LoaderInv: the basis of the two theorems below.                 *)
(***************************************************************************)
THEOREM LoaderInvariance == LoaderSpec => []LoaderInv
<1>1. LoaderInv /\ [LoaderNext]_all => LoaderInv' BY LoaderStep
<1> QED BY LoaderInitially, <1>1, PTL DEF LoaderSpec

(***************************************************************************)
(* The parser and the search by halves together name the function that an  *)
(* address is in, for every file whose lines are in the order of their     *)
(* addresses, several at one address included.                             *)
(***************************************************************************)
THEOREM NamesTrue == LoaderSpec => []Named
BY LoaderInvariance, LoaderNames, PTL

(***************************************************************************)
(* The tags of a started Linux guest can be walked from the first to the   *)
(* end, and the text of the command line, of any length, with the byte that*)
(* ends it, lies before the tag behind it.                                 *)
(***************************************************************************)
THEOREM TagsOneAfterAnother == LoaderSpec => []TagsWalk
<1>1. LoaderInv => TagsWalk BY DEF LoaderInv
<1> QED BY LoaderInvariance, <1>1, PTL

\* The console and the loader's own main do to the target what module Monitor lets a
\* monitoring guest do, and nothing else.
LEMMA LoaderMonitors ==
  ASSUME [LoaderNext]_all
  PROVE  [Next]_vars
<1>1. CASE Start \/ TimerIrq \/ Autoboot \/ Cliboot \/ CliBoot \/ CliMonitor \/ MonitorShow \/ MonitorList \/ Typed
  BY <1>1 DEF Start, TimerIrq, Autoboot, Cliboot, CliBoot, CliMonitor, MonitorShow, MonitorList, Typed
<1>2. CASE MonitorPoint BY <1>2 DEF MonitorPoint, Next
<1>3. CASE MonitorExit BY <1>3 DEF MonitorExit, Next
<1>4. CASE MonitorRecovery BY <1>4, LoaderAssumption DEF MonitorRecovery, Next
<1>5. CASE Handler BY <1>5 DEF Handler, Next
<1>6. CASE Gdb BY <1>6 DEF Gdb, GdbStart, Signal, SignalAck, Next, Stop
<1>7. CASE Target BY <1>7 DEF Target, TargetBreak, TargetTrace, TargetRuns, Next
<1>8. CASE UNCHANGED all BY <1>8 DEF all, vars
<1> QED BY <1>1, <1>2, <1>3, <1>4, <1>5, <1>6, <1>7, <1>8 DEF LoaderNext, Console

(***************************************************************************)
(* The loader's console, its handler and the target together stay within   *)
(* module Monitor, so that the target's code survives the console too: any *)
(* order of its commands, of interrupts and of traps.                      *)
(***************************************************************************)
THEOREM LoaderIsMonitored == LoaderSpec => Spec
<1>1. [LoaderNext]_all => [Next]_vars BY LoaderMonitors
<1>2. LoaderInit => Init BY DEF LoaderInit
<1> QED BY <1>1, <1>2, PTL DEF LoaderSpec, Spec
=============================================================================
