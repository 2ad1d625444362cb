------------------------------ MODULE TrapProofs ------------------------------
(***************************************************************************)
(* Proofs about trapped accesses and the emulated distributor, for every   *)
(* number of guests and register words, every map and every workload.      *)
(***************************************************************************)
EXTENDS Trap, TLAPS

Cursors == [level : Int, dev : Int, guest : Int]

Types ==
  /\ regs \in [Guests -> [Positions -> SUBSET Lanes]]
  /\ banked \in [Guests -> [BankedRegs -> SUBSET Lanes]]
  /\ old \in [Guests -> [Words -> SUBSET Lanes]]
  /\ genabled \in [Guests -> SUBSET Irqs]
  /\ used \in Workloads
  /\ cursor \in [0 .. NumCpus - 1 -> Cursors]
  /\ sample \in [Guests -> [x : 0 .. 1, y : 0 .. 1]]
  /\ vtimer \in [Guests -> [mask : 0 .. 1, status : 0 .. 1]]

-----------------------------------------------------------------------------
(* The layout *)

\* The registers in their order.
LEMMA Layout ==
  /\ NumWords \in Nat /\ NumWords > 0 /\ HalfPage \in Nat /\ PrioPage \in Nat
  /\ PrioBanked \in Nat /\ PrioWords \in Nat /\ NumWords <= HalfPage
  /\ Size = 4 + 6 * NumWords + 2 * PrioWords + 2 * HalfPage /\ Size \in Nat
  /\ Start["CTLR"] = 0 /\ Start["IGROUPR"] = 3
  /\ Start["ISCENABLER"] = 3 + NumWords
  /\ Start["ISCPENDR"] = 3 + 2 * NumWords
  /\ Start["IPRIORITYR"] = 3 + 4 * NumWords
  /\ Start["ITARGETSR"] = 3 + 4 * NumWords + PrioWords
  /\ Start["ICFGR"] = 3 + 4 * NumWords + 2 * PrioWords
  /\ Start["ITARGETSR"] + PrioPage <= 2 * Size
BY LayoutAssumption DEF Start, Size

\* Where a word past the end is.
LEMMA Placement ==
  ASSUME NEW g \in Guests, NEW n \in Nat, n < 2 * Size, n < Size \/ g + 1 \in Guests
  PROVE  Owner(g, n) \in Guests /\ Position(n) \in Positions
BY Layout DEF Owner, Position, Positions

-----------------------------------------------------------------------------
(* Accesses *)

\* An access covers lanes of one word.
LEMMA PlacedType ==
  ASSUME NEW a, a.size \in Sizes, a.lane \in Lanes
  PROVE  Placed(a) \in SUBSET Lanes
<1>1. Span(a) \subseteq Lanes
  BY DEF Span, Base, Lanes, Sizes
<1> QED
  BY <1>1 DEF Placed

\* What the guests' accesses are made of.
LEMMA AccessType ==
  ASSUME Types, NEW reg \in used.regs \intersect GicdRegs, NEW a \in Accesses(reg)
  PROVE  /\ a.reg = reg /\ a.reg \in GicdRegs
         /\ a.size \in Sizes /\ a.lane \in Lanes
         /\ a.value \in SUBSET Lanes
         /\ a.idx \in IdxOf(reg) /\ a.idx \in Nat
<1>1. a \in [reg : {reg}, idx : used.idxs \intersect IdxOf(reg), size : used.sizes,
              lane : used.lanes, write : BOOLEAN, value : Values]
  BY DEF Accesses
<1>2. /\ a.reg = reg /\ a.idx \in IdxOf(reg) /\ a.size \in used.sizes
      /\ a.lane \in used.lanes /\ a.value \in Values
  <2> HIDE DEF IdxOf
  <2> QED
    BY <1>1
<1>3. used.sizes \subseteq Sizes /\ used.lanes \subseteq Lanes
  BY WorkAssumption DEF Types
<1>4. a.value \in SUBSET Lanes
  BY <1>2, ValueAssumption
<1>5. IdxOf(reg) \subseteq Nat
  BY Layout DEF IdxOf
<1> QED
  BY <1>2, <1>3, <1>4, <1>5

\* A word of the registers of guest g, or behind them, is written, but none
\* of its enable words; the last index of ITARGETSR is the furthest.
Harmless(g, n) ==
  /\ n < Start["ITARGETSR"] + PrioPage \/ n < Size
  /\ n < Start["ISCENABLER"] \/ n >= Start["ISCPENDR"]
  /\ n < Size \/ g + 1 \in Guests
Stores(g) ==
  \E n \in Nat, v \in SUBSET Lanes : Harmless(g, n) /\ Store(g, n, v) /\ OnlyWords

\* A banked word of guest g that is no enable word is written.
Banks(g) ==
  \E r \in BankedRegs \ {"ISCENABLER"}, v \in SUBSET Lanes : StoreBanked(g, r, v) /\ OnlyWords

\* The mark of an SGI.
Marks == \E v \in SUBSET Lanes : StoreBanked(1, "CPENDSGIR", v) /\ OnlyWords

\* A word of enable bits of guest g is changed and passed on.
Enables(g) ==
  \E w \in Words, new \in SUBSET Lanes : SetEnable(g, w, new) /\ ChangedIstatus(g, w, new)

\* What guest g reads is a word.
LEMMA WordType ==
  ASSUME Types, NEW g \in Guests
  PROVE  /\ \A w \in Words : EnableWord(g, w) \in SUBSET Lanes
         /\ \A r \in BankedRegs : banked[g][r] \in SUBSET Lanes
         /\ \A n \in Nat : Harmless(g, n) => WordAt(g, n) \in SUBSET Lanes
<1>1. ASSUME NEW w \in Words PROVE EnableWord(g, w) \in SUBSET Lanes
  <2>1. Start["ISCENABLER"] + w \in Positions
    BY Layout DEF Words, Positions
  <2>2. banked[g]["ISCENABLER"] \in SUBSET Lanes
    BY DEF Types, BankedRegs
  <2> QED
    BY <2>1, <2>2 DEF EnableWord, Types
<1>2. ASSUME NEW n \in Nat, Harmless(g, n) PROVE WordAt(g, n) \in SUBSET Lanes
  <2>1. n < 2 * Size
    BY <1>2, Layout DEF Harmless
  <2>2. Owner(g, n) \in Guests /\ Position(n) \in Positions
    BY <1>2, <2>1, Placement DEF Harmless
  <2> QED
    BY <2>2 DEF WordAt, Types
<1> QED
  BY <1>1, <1>2 DEF Types

(***************************************************************************)
(* A handler leaves all as it is, writes one word that is no enable word,  *)
(* or changes a word of enable bits and passes it on.                      *)
(***************************************************************************)
LEMMA HandlerKinds ==
  ASSUME Types, NEW g \in Guests, NEW reg \in used.regs \intersect GicdRegs,
         NEW a \in Accesses(reg), ~ BadAccess(a), ~ Beyond(g, a), GicdHandler(g, a)
  PROVE  Untouched \/ Stores(g) \/ Banks(g) \/ Enables(g)
<1>1. /\ a.reg = reg /\ a.reg \in GicdRegs /\ a.value \in SUBSET Lanes
      /\ a.idx \in IdxOf(reg) /\ a.idx \in Nat /\ Placed(a) \in SUBSET Lanes
      /\ Span(a) \subseteq Lanes
  BY AccessType, PlacedType DEF Span, Base, Lanes, Sizes
<1>2. CASE a.reg \in {"ISENABLER", "ICENABLER"}
  <2>1. HandlerISCENABLER(g, a)
    BY <1>2 DEF GicdHandler
  <2>2. CASE a.write /\ a.value # {}
    <3>1. a.idx \in Words
      BY <1>2, <2>2 DEF BadAccess
    <3> DEFINE was == EnableWord(g, a.idx)
               new == IF a.reg = "ISENABLER" THEN was \union Placed(a) ELSE was \ Placed(a)
    <3>2. new \in SUBSET Lanes
      BY <1>1, <3>1, WordType
    <3>3. SetEnable(g, a.idx, new) /\ ChangedIstatus(g, a.idx, new)
      BY <2>1, <2>2 DEF HandlerISCENABLER
    <3> HIDE DEF new
    <3> QED
      BY <3>1, <3>2, <3>3 DEF Enables
  <2> QED
    BY <2>1, <2>2 DEF HandlerISCENABLER
<1>3. CASE a.reg \in {"ISPENDR", "ICPENDR"}
  <2> DEFINE n == Start["ISCPENDR"] + a.idx + IF a.reg = "ICPENDR" THEN HalfPage ELSE 0
  <2>1. HandlerISCPENDR(g, a)
    BY <1>3 DEF GicdHandler
  <2>2. a.idx \in 0 .. HalfPage - 1
    BY <1>1, <1>3 DEF IdxOf
  <2>3. n \in Nat /\ Harmless(g, n)
    BY <2>2, Layout DEF Harmless
  <2>4. CASE a.write /\ a.idx = 0
    <3>1. StoreBanked(g, "ISCPENDR", banked[g]["ISCPENDR"] \union a.value) /\ OnlyWords
      BY <2>1, <2>4 DEF HandlerISCPENDR
    <3>2. banked[g]["ISCPENDR"] \union a.value \in SUBSET Lanes
      BY <1>1, WordType DEF BankedRegs
    <3> QED
      BY <3>1, <3>2 DEF Banks, BankedRegs
  <2>5. CASE a.write /\ a.idx # 0
    <3>1. Store(g, n, WordAt(g, n) \union a.value) /\ OnlyWords
      BY <2>1, <2>5 DEF HandlerISCPENDR
    <3>2. WordAt(g, n) \union a.value \in SUBSET Lanes
      BY <1>1, <2>3, WordType
    <3> HIDE DEF n
    <3> QED
      BY <2>3, <3>1, <3>2 DEF Stores
  <2>6. CASE ~ a.write
    BY <2>1, <2>6 DEF HandlerISCPENDR
  <2> QED
    BY <2>4, <2>5, <2>6
<1>4. CASE a.reg = "ITARGETSR"
  <2> DEFINE n == Start["ITARGETSR"] + a.idx
  <2>1. HandlerITARGETSR(g, a)
    BY <1>4 DEF GicdHandler
  <2>2. CASE a.write /\ a.idx >= PrioBanked
    <3>1. a.idx \in 0 .. PrioPage - 1
      BY <1>1, <1>4 DEF IdxOf
    <3>2. n < Size \/ g + 1 \in Guests
      BY <1>4, <2>2, <3>1, Layout DEF Beyond
    <3>3. n \in Nat /\ Harmless(g, n)
      BY <3>1, <3>2, Layout DEF Harmless
    <3>4. Store(g, n, (WordAt(g, n) \ Span(a)) \union Placed(a)) /\ OnlyWords
      BY <2>1, <2>2 DEF HandlerITARGETSR
    <3>5. (WordAt(g, n) \ Span(a)) \union Placed(a) \in SUBSET Lanes
      BY <1>1, <3>3, WordType
    <3> HIDE DEF n
    <3> QED
      BY <3>3, <3>4, <3>5 DEF Stores
  <2> QED
    BY <2>1, <2>2 DEF HandlerITARGETSR
<1>5. CASE a.reg \in {"CPENDSGIR", "SPENDSGIR"}
  <2> DEFINE new == banked[g]["CPENDSGIR"]
                      \union (IF a.reg = "CPENDSGIR" THEN Lanes \ a.value ELSE a.value)
  <2>1. HandlerPENDSGIR(g, a)
    BY <1>5 DEF GicdHandler
  <2>2. new \in SUBSET Lanes
    BY <1>1, WordType DEF BankedRegs
  <2>3. CASE a.write /\ a.value # {}
    <3>1. StoreBanked(g, "CPENDSGIR", new) /\ OnlyWords
      BY <2>1, <2>3 DEF HandlerPENDSGIR
    <3> HIDE DEF new
    <3> QED
      BY <2>2, <3>1 DEF Banks, BankedRegs
  <2> QED
    BY <2>1, <2>3 DEF HandlerPENDSGIR
<1>6. CASE a.reg \in {"CTLR", "IGROUPR", "IPRIORITYR", "ICFGR", "TYPER", "IIDR"}
  <2> DEFINE n == Start[a.reg] + a.idx
  <2>1. HandlerWord(g, a)
    BY <1>6 DEF GicdHandler
  <2>2. CASE a.write /\ BankOf(a) # "none"
    <3>1. StoreBanked(g, BankOf(a), a.value) /\ OnlyWords
      BY <2>1, <2>2 DEF HandlerWord
    <3>2. BankOf(a) \in BankedRegs \ {"ISCENABLER"}
      BY <2>2 DEF BankOf, BankedRegs
    <3> QED
      BY <1>1, <3>1, <3>2 DEF Banks
  <2>3. CASE a.write /\ BankOf(a) = "none"
    <3>1. Store(g, n, a.value) /\ OnlyWords
      BY <2>1, <2>3 DEF HandlerWord
    <3>2. n \in Nat /\ Harmless(g, n)
      <4>1. CASE a.reg = "CTLR"
        BY <1>1, <4>1, Layout DEF IdxOf, Harmless
      <4>2. CASE a.reg = "IGROUPR"
        BY <1>1, <4>2, Layout DEF BadAccess, Words, Harmless
      <4>3. CASE a.reg = "IPRIORITYR"
        <5>1. a.idx \in 0 .. PrioPage - 1
          BY <1>1, <4>3 DEF IdxOf
        <5>2. n < Size \/ g + 1 \in Guests
          BY <2>3, <4>3, <5>1, Layout DEF Beyond
        <5> QED
          BY <4>3, <5>1, <5>2, Layout DEF Harmless
      <4>4. CASE a.reg = "ICFGR"
        <5>1. a.idx \in 0 .. 2 * HalfPage - 1
          BY <1>1, <4>4 DEF IdxOf
        <5> QED
          BY <4>4, <5>1, Layout DEF Harmless
      <4>5. CASE a.reg \in {"TYPER", "IIDR"}
        BY <2>3, <4>5 DEF BadAccess
      <4> QED
        BY <1>6, <4>1, <4>2, <4>3, <4>4, <4>5
    <3> HIDE DEF n
    <3> QED
      BY <1>1, <3>1, <3>2 DEF Stores
  <2>4. CASE ~ a.write
    BY <2>1, <2>4 DEF HandlerWord
  <2> QED
    BY <2>2, <2>3, <2>4
<1>7. CASE a.reg \in {"NONE", "ISACTIVER", "ICACTIVER", "PPISR", "NSACR", "ICPIDR2"}
  BY <1>7 DEF BadAccess
<1> QED
  BY <1>1, <1>2, <1>3, <1>4, <1>5, <1>6, <1>7 DEF GicdRegs

-----------------------------------------------------------------------------
(* The steps, by what they do to the distributor *)

\* A step of a trap of guest g that writes something of the distributor.
Writes(g) == Running(g) /\ (Stores(g) \/ Banks(g) \/ Marks \/ Enables(g))

LEMMA AccessKinds ==
  ASSUME Types, NEW g \in Guests, AnyAccess(g)
  PROVE  /\ used' = used /\ cursor' = cursor
         /\ UNCHANGED gicdVars \/ Writes(g)
<1>1. ASSUME NEW reg \in used.regs \intersect GicdRegs, NEW a \in Accesses(reg),
             GicdAccess(g, a)
      PROVE  /\ used' = used /\ cursor' = cursor
             /\ UNCHANGED gicdVars \/ Writes(g)
  <2>1. /\ ~ BadAccess(a) /\ ~ Beyond(g, a) /\ GicdHandler(g, a) /\ Running(g)
        /\ used' = used /\ cursor' = cursor
    BY <1>1 DEF GicdAccess, Trapped
  <2> QED
    BY <2>1, HandlerKinds DEF Untouched, Writes
<1>2. ASSUME NEW reg, NEW a, GicdRefused(g, a)
      PROVE  UNCHANGED <<gicdVars, used, cursor>>
  BY <1>2 DEF GicdRefused, Halt
<1>3. ASSUME NEW filter, NEW list, NEW sgi \in Sgis, NEW injected,
             SgirAccess(g, filter, list, sgi, injected)
      PROVE  /\ used' = used /\ cursor' = cursor
             /\ UNCHANGED gicdVars \/ Writes(g)
  <2>1. /\ HandlerSGIR(sgi, SgiTargets(g, filter, list)) /\ Running(g)
        /\ used' = used /\ cursor' = cursor
    BY <1>3 DEF SgirAccess, Trapped
  <2>2. {sgi} \in SUBSET Lanes
    BY DEF Sgis
  <2> QED
    BY <2>1, <2>2 DEF HandlerSGIR, Untouched, Marks, Writes
<1>4. ASSUME NEW reg, NEW w, NEW v, SampleAccess(g, reg, w, v)
      PROVE  UNCHANGED <<gicdVars, used, cursor>>
  BY <1>4 DEF SampleAccess
<1>5. ASSUME NEW w, NEW v, VtimerAccess(g, w, v)
      PROVE  UNCHANGED <<gicdVars, used, cursor>>
  BY <1>5 DEF VtimerAccess
<1>6. ASSUME NEW d, BetweenRegs(g, d)
      PROVE  UNCHANGED <<gicdVars, used, cursor>>
  BY <1>6 DEF BetweenRegs, Halt
<1>7. ASSUME NEW inTable, NEW ok, MonitorAccess(g, inTable, ok)
      PROVE  UNCHANGED <<gicdVars, used, cursor>>
  BY <1>7 DEF MonitorAccess, Halt
<1> QED
  BY <1>1, <1>2, <1>3, <1>4, <1>5, <1>6, <1>7 DEF AnyAccess

\* The traps of coprocessor accesses and hypercalls, and those nobody claims.
OtherTrap(g) ==
  \/ \E ec \in CpTraps : Coprocessor(g, ec)
  \/ \E d \in Hypercalls : Hypercall(g, d)
  \/ \E ec \in OtherTraps : StrayTrap(g, ec)
  \/ StrayAccess(g)

LEMMA OtherTrapKinds ==
  ASSUME NEW g \in Guests, OtherTrap(g)
  PROVE  UNCHANGED <<gicdVars, used, cursor, sample, vtimer>>
BY DEF OtherTrap, Coprocessor, Hypercall, StrayTrap, StrayAccess, Unclaimed, Halt, Emulate

LEMMA StepKinds ==
  ASSUME Types, [Next]_vars
  PROVE  /\ used' = used
         /\ \/ UNCHANGED gicdVars /\ UNCHANGED cursor
            \/ \E cpu \in 0 .. NumCpus - 1 : InitDevices(cpu)
            \/ UNCHANGED cursor /\ \E g \in Guests : Writes(g)
<1>1. CASE UNCHANGED vars
  BY <1>1 DEF vars
<1>2. CASE Register
  BY <1>2 DEF Register
<1>3. CASE \E cpu \in 0 .. NumCpus - 1 : InitDevices(cpu)
  BY <1>3 DEF InitDevices, NextLevel, ResetGuest, InitDevice
<1>4. CASE \E g \in Guests : AnyAccess(g)
  BY <1>4, AccessKinds
<1>5. CASE \E g \in Guests : OtherTrap(g)
  BY <1>5, OtherTrapKinds
<1>6. CASE Halted
  BY <1>6 DEF Halted, vars
<1> QED
  BY <1>1, <1>2, <1>3, <1>4, <1>5, <1>6 DEF Next, OtherTrap

-----------------------------------------------------------------------------
(* Types *)

LEMMA ResetTypes ==
  ASSUME Types, NEW cpu, NEW i, GicdReset(cpu, i)
  PROVE  /\ regs' \in [Guests -> [Positions -> SUBSET Lanes]]
         /\ banked' \in [Guests -> [BankedRegs -> SUBSET Lanes]]
         /\ old' \in [Guests -> [Words -> SUBSET Lanes]]
         /\ genabled' = genabled
<1>1. \A n \in Positions : ResetWord(n) \in SUBSET Lanes
  BY DEF ResetWord
<1>2. \A r \in BankedRegs : ResetBanked(r) \in SUBSET Lanes
  BY DEF ResetBanked, EnabledLanes, Lanes
<1>3. regs' \in [Guests -> [Positions -> SUBSET Lanes]]
  <2>1. ASSUME i \in Guests
        PROVE  [n \in Positions |-> IF Skipped(n) THEN regs[i][n] ELSE ResetWord(n)]
                 \in [Positions -> SUBSET Lanes]
    BY <1>1, <2>1 DEF Types
  <2> QED
    BY <2>1 DEF Types, GicdReset
<1>4. banked' \in [Guests -> [BankedRegs -> SUBSET Lanes]]
  BY <1>2 DEF Types, GicdReset
<1>5. \A w \in Words : Start["ISCENABLER"] + w \in Positions
  BY Layout DEF Words, Positions
<1>6. old' \in [Guests -> [Words -> SUBSET Lanes]]
  <2>1. ASSUME i \in Guests
        PROVE  [w \in Words |-> regs'[i][Start["ISCENABLER"] + w]] \in [Words -> SUBSET Lanes]
    BY <1>3, <1>5, <2>1
  <2> QED
    BY <2>1 DEF Types, GicdReset
<1> QED
  BY <1>3, <1>4, <1>6 DEF GicdReset

\* Writing a word into a register keeps the types of the registers.
LEMMA StoreTypes ==
  ASSUME Types, NEW v \in SUBSET Lanes,
         \/ \E g, n : Store(g, n, v)
         \/ \E g, r : StoreBanked(g, r, v)
  PROVE  /\ regs' \in [Guests -> [Positions -> SUBSET Lanes]]
         /\ banked' \in [Guests -> [BankedRegs -> SUBSET Lanes]]
<1>1. ASSUME NEW g, NEW n, Store(g, n, v)
      PROVE  /\ regs' \in [Guests -> [Positions -> SUBSET Lanes]]
             /\ banked' \in [Guests -> [BankedRegs -> SUBSET Lanes]]
  <2> DEFINE h == Owner(g, n)
             m == Position(n)
  <2>1. regs' = [regs EXCEPT ![h][m] = v] /\ banked' = banked
    BY <1>1 DEF Store
  <2> HIDE DEF h, m
  <2> QED
    BY <2>1 DEF Types
<1>2. ASSUME NEW g, NEW r, StoreBanked(g, r, v)
      PROVE  /\ regs' \in [Guests -> [Positions -> SUBSET Lanes]]
             /\ banked' \in [Guests -> [BankedRegs -> SUBSET Lanes]]
  BY <1>2 DEF Types, StoreBanked
<1> QED
  BY <1>1, <1>2

\* Only interrupts of guests are configured, and none of them is the host's.
LEMMA GuestPirqs ==
  ASSUME NEW g \in Guests, NEW w \in Words, NEW bits \in SUBSET Lanes
  PROVE  /\ PirqsOf(g, IrqsOf(w, bits)) \subseteq Irqs
         /\ PirqsOf(g, IrqsOf(w, bits)) \intersect HostIrqs = {}
<1>1. ASSUME NEW l \in bits PROVE 4 * w + l \in Irqs
  BY Layout DEF Words, Lanes, Irqs
<1>2. \A v \in IrqsOf(w, bits) : v \in Irqs
  BY <1>1 DEF IrqsOf
<1>3. \A v \in Irqs : /\ Pirqmap[g][v] \in Irqs \union {PIRQ_INVALID}
                     /\ Pirqmap[g][v] \notin HostIrqs
  BY MapAssumption
<1> QED
  BY <1>2, <1>3 DEF PirqsOf

LEMMA EnableTypes ==
  ASSUME Types, NEW g \in Guests, Enables(g)
  PROVE  /\ regs' \in [Guests -> [Positions -> SUBSET Lanes]]
         /\ banked' \in [Guests -> [BankedRegs -> SUBSET Lanes]]
         /\ old' \in [Guests -> [Words -> SUBSET Lanes]]
         /\ genabled' \in [Guests -> SUBSET Irqs]
<1>1. PICK w \in Words, new \in SUBSET Lanes :
        SetEnable(g, w, new) /\ ChangedIstatus(g, w, new)
  BY DEF Enables
<1>2. old' = [old EXCEPT ![g][w] = new]
  BY <1>1 DEF ChangedIstatus
<1>3. PICK bits \in SUBSET Lanes :
        genabled' = [genabled EXCEPT ![g] = @ \union PirqsOf(g, IrqsOf(w, bits))]
  <2>1. ((old[g][w] \ new) \union (new \ old[g][w])) \intersect new \in SUBSET Lanes
    OBVIOUS
  <2> QED
    BY <1>1, <2>1 DEF ChangedIstatus, Configure
<1>4. PirqsOf(g, IrqsOf(w, bits)) \subseteq Irqs
  BY GuestPirqs
<1>5. (\E h, n : Store(h, n, new)) \/ (\E h, r : StoreBanked(h, r, new))
  BY <1>1 DEF SetEnable
<1>6. old' \in [Guests -> [Words -> SUBSET Lanes]]
  BY <1>2 DEF Types
<1>7. genabled' \in [Guests -> SUBSET Irqs]
  BY <1>3, <1>4 DEF Types
<1> QED
  BY <1>5, <1>6, <1>7, StoreTypes

\* The positions of the loop of vdev_init.
LEMMA CursorTypes ==
  ASSUME Types, [Next]_vars
  PROVE  cursor' \in [0 .. NumCpus - 1 -> Cursors]
<1>1. ASSUME NEW cpu \in 0 .. NumCpus - 1, InitDevices(cpu)
      PROVE  cursor' \in [0 .. NumCpus - 1 -> Cursors]
  <2>1. \E c \in Cursors : cursor' = [cursor EXCEPT ![cpu] = c]
    <3>1. cursor[cpu] \in [level : Int, dev : Int, guest : Int]
      BY DEF Types, Cursors
    <3>2. CASE NextLevel(cpu)
      <4> DEFINE c == [level |-> cursor[cpu].level + 1, dev |-> 1, guest |-> 0]
      <4>1. c \in Cursors
        BY <3>1 DEF Cursors
      <4>2. cursor' = [cursor EXCEPT ![cpu] = c]
        BY <3>2 DEF NextLevel
      <4> QED
        BY <4>1, <4>2
    <3>3. CASE ResetGuest(cpu)
      <4>1. [cursor[cpu] EXCEPT !.guest = @ + 1] \in Cursors
        BY <3>1 DEF Cursors
      <4>2. cursor' = [cursor EXCEPT ![cpu] = [cursor[cpu] EXCEPT !.guest = @ + 1]]
        BY <3>3 DEF ResetGuest
      <4> QED
        BY <4>1, <4>2
    <3>4. CASE InitDevice(cpu)
      <4> DEFINE c == [level |-> cursor[cpu].level, dev |-> cursor[cpu].dev + 1, guest |-> 0]
      <4>1. c \in Cursors
        BY <3>1 DEF Cursors
      <4>2. cursor' = [cursor EXCEPT ![cpu] = c]
        BY <3>4 DEF InitDevice
      <4> QED
        BY <4>1, <4>2
    <3> QED
      BY <1>1, <3>2, <3>3, <3>4 DEF InitDevices
  <2> QED
    BY <2>1 DEF Types
<1> QED
  BY <1>1, StepKinds DEF Types

\* The registers of the other devices.
LEMMA DeviceTypes ==
  ASSUME Types, [Next]_vars
  PROVE  /\ sample' \in [Guests -> [x : 0 .. 1, y : 0 .. 1]]
         /\ vtimer' \in [Guests -> [mask : 0 .. 1, status : 0 .. 1]]
<1> DEFINE Same == UNCHANGED <<sample, vtimer>>
           Typed == /\ sample' \in [Guests -> [x : 0 .. 1, y : 0 .. 1]]
                    /\ vtimer' \in [Guests -> [mask : 0 .. 1, status : 0 .. 1]]
<1>1. Same => Typed
  BY DEF Types
<1>2. CASE UNCHANGED vars
  BY <1>1, <1>2 DEF vars
<1>3. CASE Register
  BY <1>1, <1>3 DEF Register
<1>4. ASSUME NEW cpu \in 0 .. NumCpus - 1, InitDevices(cpu) PROVE Typed
  <2>1. sample' = sample /\ vtimer' \in {vtimer, [g \in Guests |-> [vtimer[g] EXCEPT !.status = 1]]}
    BY <1>4 DEF InitDevices, NextLevel, ResetGuest, InitDevice
  <2>2. \A g \in Guests : [vtimer[g] EXCEPT !.status = 1] \in [mask : 0 .. 1, status : 0 .. 1]
    <3>1. vtimer \in [Guests -> [mask : 0 .. 1, status : 0 .. 1]]
      BY DEF Types
    <3> QED
      BY <3>1
  <2>3. [g \in Guests |-> [vtimer[g] EXCEPT !.status = 1]]
          \in [Guests -> [mask : 0 .. 1, status : 0 .. 1]]
    BY <2>2
  <2> QED
    BY <2>1, <2>3 DEF Types
<1>5. ASSUME NEW g \in Guests, AnyAccess(g) PROVE Typed
  <2>1. ASSUME NEW reg, NEW a, GicdAccess(g, a) \/ GicdRefused(g, a)
        PROVE  Same
    BY <2>1 DEF GicdAccess, GicdRefused, Halt
  <2>2. ASSUME NEW filter, NEW list, NEW sgi, NEW injected,
               SgirAccess(g, filter, list, sgi, injected)
        PROVE  Same
    BY <2>2 DEF SgirAccess
  <2>3. ASSUME NEW reg \in {"x", "y", "sum"}, NEW w \in BOOLEAN, NEW v \in 0 .. 1,
               SampleAccess(g, reg, w, v)
        PROVE  Typed
    <3>1. vtimer' = vtimer /\ (sample' = sample \/ (reg # "sum" /\ sample' = [sample EXCEPT ![g][reg] = v]))
      BY <2>3 DEF SampleAccess
    <3>2. [sample[g] EXCEPT !.x = v] \in [x : 0 .. 1, y : 0 .. 1]
          /\ [sample[g] EXCEPT !.y = v] \in [x : 0 .. 1, y : 0 .. 1]
      BY <2>3 DEF Types
    <3>3. CASE sample' = sample
      BY <3>1, <3>3, <1>1
    <3>4. CASE reg = "x" /\ sample' = [sample EXCEPT ![g][reg] = v]
      BY <3>1, <3>2, <3>4 DEF Types
    <3>5. CASE reg = "y" /\ sample' = [sample EXCEPT ![g][reg] = v]
      BY <3>1, <3>2, <3>5 DEF Types
    <3> QED
      BY <2>3, <3>1, <3>3, <3>4, <3>5
  <2>4. ASSUME NEW w \in BOOLEAN, NEW v \in 0 .. 1, VtimerAccess(g, w, v)
        PROVE  Typed
    BY <2>4 DEF VtimerAccess, Types
  <2>5. ASSUME NEW d, BetweenRegs(g, d) PROVE Same
    BY <2>5 DEF BetweenRegs, Halt
  <2>6. ASSUME NEW inTable, NEW ok, MonitorAccess(g, inTable, ok) PROVE Same
    BY <2>6 DEF MonitorAccess, Halt
  <2> QED
    BY <1>1, <1>5, <2>1, <2>2, <2>3, <2>4, <2>5, <2>6 DEF AnyAccess
<1>6. ASSUME NEW g \in Guests, OtherTrap(g) PROVE Same
  BY <1>6, OtherTrapKinds
<1>7. CASE Halted
  BY <1>1, <1>7 DEF Halted, vars
<1> QED
  BY <1>1, <1>2, <1>3, <1>4, <1>5, <1>6, <1>7 DEF Next, OtherTrap

(***************************************************************************)
(* The registers of the devices hold what the code may write into them,    *)
(* and the distributor's are words wherever an index leads.                *)
(***************************************************************************)
THEOREM TypesKept == Spec => []Types
<1>1. Init => Types
  BY DEF Init, GicInit, Types, Cursors
<1>2. Types /\ [Next]_vars => Types'
  <2> SUFFICES ASSUME Types, [Next]_vars PROVE Types'
    OBVIOUS
  <2> DEFINE Typed == /\ regs' \in [Guests -> [Positions -> SUBSET Lanes]]
                      /\ banked' \in [Guests -> [BankedRegs -> SUBSET Lanes]]
                      /\ old' \in [Guests -> [Words -> SUBSET Lanes]]
                      /\ genabled' \in [Guests -> SUBSET Irqs]
  <2>1. ASSUME UNCHANGED gicdVars PROVE Typed
    BY <2>1 DEF gicdVars, Types
  <2>2. ASSUME NEW cpu \in 0 .. NumCpus - 1, InitDevices(cpu) PROVE Typed
    <3>1. (\E i : GicdReset(cpu, i)) \/ UNCHANGED gicdVars
      BY <2>2 DEF InitDevices, NextLevel, ResetGuest, InitDevice
    <3>2. ASSUME NEW i, GicdReset(cpu, i) PROVE Typed
      BY <3>2, ResetTypes DEF Types
    <3> QED
      BY <2>1, <3>1, <3>2
  <2>3. ASSUME NEW g \in Guests, Writes(g) PROVE Typed
    <3>1. CASE Stores(g) \/ Banks(g) \/ Marks
      <4>1. OnlyWords /\ \E v \in SUBSET Lanes : \/ \E h, n : Store(h, n, v)
                                               \/ \E h, r : StoreBanked(h, r, v)
        BY <3>1 DEF Stores, Banks, Marks
      <4>2. old' \in [Guests -> [Words -> SUBSET Lanes]] /\ genabled' \in [Guests -> SUBSET Irqs]
        BY <4>1 DEF OnlyWords, Types
      <4> QED
        BY <4>1, <4>2, StoreTypes
    <3>2. CASE Enables(g)
      BY <3>2, EnableTypes
    <3> QED
      BY <2>3, <3>1, <3>2 DEF Writes
  <2>4. Typed
    BY <2>1, <2>2, <2>3, StepKinds
  <2>5. used' \in Workloads
    BY StepKinds DEF Types
  <2> QED
    BY <2>4, <2>5, CursorTypes, DeviceTypes DEF Types
<1> QED
  BY <1>1, <1>2, PTL DEF Spec

(***************************************************************************)
(* HostIrqsStay: whatever guests write to their enable registers, the      *)
(* interrupts of the hypervisor stay enabled.  The words a guest writes    *)
(* select virqs, and its map leads from them to interrupts of guests only. *)
(***************************************************************************)
THEOREM HostIrqsKept == Spec => []HostIrqsStay
<1>1. Init => HostIrqsStay
  BY DEF Init, GicInit, HostIrqsStay
<1>2. Types /\ HostIrqsStay /\ [Next]_vars => HostIrqsStay'
  <2> SUFFICES ASSUME Types, HostIrqsStay, [Next]_vars PROVE HostIrqsStay'
    OBVIOUS
  <2>1. ASSUME NEW g \in Guests, Enables(g) PROVE HostIrqsStay'
    <3>1. PICK w \in Words, new \in SUBSET Lanes : ChangedIstatus(g, w, new)
      BY <2>1 DEF Enables
    <3> DEFINE changed == (old[g][w] \ new) \union (new \ old[g][w])
               off     == PirqsOf(g, IrqsOf(w, changed \ new))
               on      == PirqsOf(g, IrqsOf(w, changed \intersect new))
    <3>2. forwarded' = (forwarded \ off) \union on
      BY <3>1 DEF ChangedIstatus, Configure
    <3>3. changed \ new \in SUBSET Lanes
      BY DEF Types
    <3>4. off \intersect HostIrqs = {}
      BY <3>3, GuestPirqs
    <3> QED
      BY <3>2, <3>4 DEF HostIrqsStay
  <2>2. ASSUME NEW g \in Guests, Stores(g) \/ Banks(g) \/ Marks PROVE HostIrqsStay'
    BY <2>2 DEF Stores, Banks, Marks, OnlyWords, HostIrqsStay
  <2>3. CASE UNCHANGED gicdVars \/ \E cpu \in 0 .. NumCpus - 1 : InitDevices(cpu)
    BY <2>3 DEF InitDevices, NextLevel, ResetGuest, InitDevice, GicdReset, gicdVars,
                HostIrqsStay
  <2> QED
    BY <2>1, <2>2, <2>3, StepKinds DEF Writes
<1> QED
  BY <1>1, <1>2, TypesKept, PTL DEF Spec

-----------------------------------------------------------------------------
(* The enable bits of guests *)

\* The interrupts EnableMirrored is about: mapped, and no SGI of the hardware.
Shared(p) == p \notin HwSgis \union {PIRQ_INVALID}

(***************************************************************************)
(* The inductive invariant: not only the bit a guest reads but also the    *)
(* old status, which decides whether a change is passed on, agrees with    *)
(* the hardware; and until the devices are initialised, the hardware is as *)
(* gic_init_dist has left it, so that the reset copies no bit of a guest.  *)
(***************************************************************************)
Mirrored(g, w, l) ==
  LET p == Pirqmap[g][4 * w + l]
  IN  Shared(p) => /\ l \in EnableWord(g, w) <=> p \in forwarded
                   /\ l \in old[g][w] <=> p \in forwarded
                   /\ p \in forwarded => target[p] = CpuOf[g]

MirrorInv ==
  /\ \A g \in Guests, w \in Words, l \in Lanes : g \notin overrun => Mirrored(g, w, l)
  /\ cursor[0].level # 4 =>
       /\ forwarded = HostIrqs \union HwSgis /\ overrun = {}
       /\ \A g \in Guests, l \in Lanes :
            Shared(Pirqmap[g][l]) => l \notin regs[g][Start["ISCENABLER"]]

\* A virq is a word and a lane, in one way.
LEMMA WordAndLane ==
  ASSUME NEW w \in Words, NEW l \in Lanes
  PROVE  /\ 4 * w + l \in Irqs
         /\ \A x \in Words, k \in Lanes : 4 * x + k = 4 * w + l => x = w /\ k = l
BY Layout DEF Words, Lanes, Irqs

\* The virtual and the physical number of such an interrupt are off at reset.
LEMMA OffAtReset ==
  ASSUME NEW g \in Guests, NEW w \in Words, NEW l \in Lanes,
         Shared(Pirqmap[g][4 * w + l])
  PROVE  /\ Pirqmap[g][4 * w + l] \notin HostIrqs \union HwSgis
         /\ 4 * w + l \notin HostIrqs \union HwSgis
BY WordAndLane, MapAssumption DEF Shared

\* Where the enable words are.
LEMMA EnablePositions ==
  ASSUME NEW w \in Words
  PROVE  /\ Start["ISCENABLER"] + w \in Positions
         /\ w # 0 => /\ ~ Skipped(Start["ISCENABLER"] + w)
                     /\ ResetWord(Start["ISCENABLER"] + w) = EnabledLanes(w)
         /\ Skipped(Start["ISCENABLER"])
<1> DEFINE n == Start["ISCENABLER"] + w
<1>1. w \in Int /\ 0 <= w /\ w < NumWords
  BY Layout DEF Words
<1>2. n \in Positions
  BY <1>1, Layout DEF Positions
<1>3. ASSUME w # 0 PROVE ~ Skipped(n)
  BY <1>1, <1>3, Layout DEF Skipped, Start
<1>4. ResetWord(n) = EnabledLanes(w)
  <2>1. /\ ~ (n < Start["IGROUPR"]) /\ n \in Start["ISCENABLER"] .. Start["ISCPENDR"] - 1
        /\ n \notin Start["IGROUPR"] + 1 .. Start["ISCENABLER"] - 1
        /\ n \notin Start["IPRIORITYR"] .. Start["ICFGR"] - 1
        /\ n - Start["ISCENABLER"] = w
    BY <1>1, Layout
  <2> HIDE DEF n
  <2>2. ResetWord(n) = {l \in Lanes : l \in EnabledLanes(w)}
    BY <2>1 DEF ResetWord
  <2> QED
    BY <2>2 DEF EnabledLanes
<1> QED
  BY <1>2, <1>3, <1>4 DEF Skipped

\* One turn of the reset of the distributor.
LEMMA ResetMirrors ==
  ASSUME Types, MirrorInv, cursor[0].level # 4,
         NEW cpu, NEW i, GicdReset(cpu, i),
         NEW g \in Guests, NEW w \in Words, NEW l \in Lanes
  PROVE  /\ Mirrored(g, w, l)'
         /\ Shared(Pirqmap[g][l]) => l \notin regs'[g][Start["ISCENABLER"]]
<1> DEFINE p == Pirqmap[g][4 * w + l]
           n == Start["ISCENABLER"]
<1>1. /\ forwarded = HostIrqs \union HwSgis /\ g \notin overrun
      /\ Shared(Pirqmap[g][l]) => l \notin regs[g][n]
  BY DEF MirrorInv
<1>2. n + 0 \in Positions /\ Skipped(n) /\ n + w \in Positions /\ n + 0 = n
  <2>1. 0 \in Words
    BY Layout DEF Words
  <2> QED
    BY <2>1, EnablePositions, Layout
<1>3. regs'[g][n] = regs[g][n]
  BY <1>2 DEF GicdReset, Types
<1>4. ASSUME Shared(p) PROVE Mirrored(g, w, l)'
  <2>1. p \notin forwarded /\ 4 * w + l \notin forwarded
    BY <1>1, <1>4, OffAtReset
  <2>2. l \notin EnabledLanes(w)
    BY <2>1 DEF EnabledLanes
  <2>3. l \notin EnableWord(g, w) /\ l \notin old[g][w]
    BY <1>1, <1>4, <2>1 DEF MirrorInv, Mirrored
  <2>4. CASE w = 0
    <3>1. banked'[g]["ISCENABLER"] \in {banked[g]["ISCENABLER"], EnabledLanes(0)}
      <4>1. "ISCENABLER" \in BankedRegs /\ ResetBanked("ISCENABLER") = EnabledLanes(0)
        BY DEF BankedRegs, ResetBanked
      <4> QED
        BY <4>1 DEF GicdReset, Types
    <3>2. old'[g][w] \in {old[g][w], regs'[g][n]}
      BY <1>2, <2>4 DEF GicdReset, Types
    <3>3. Shared(Pirqmap[g][l])
      <4>1. 4 * w + l = l
        BY <2>4 DEF Lanes
      <4> QED
        BY <1>4, <4>1
    <3> QED
      BY <1>1, <1>3, <2>1, <2>2, <2>3, <2>4, <3>1, <3>2, <3>3 DEF Mirrored, EnableWord, GicdReset
  <2>5. CASE w # 0
    <3>1. regs'[g][n + w] \in {regs[g][n + w], EnabledLanes(w)}
      BY <1>2, <2>5, EnablePositions DEF GicdReset, Types
    <3>2. old'[g][w] \in {old[g][w], regs'[g][n + w]}
      BY DEF GicdReset, Types
    <3> QED
      BY <2>1, <2>2, <2>3, <2>5, <3>1, <3>2 DEF Mirrored, EnableWord, GicdReset
  <2> QED
    BY <2>4, <2>5
<1>5. ~ Shared(p) => Mirrored(g, w, l)'
  BY DEF Mirrored, Shared
<1> QED
  BY <1>1, <1>3, <1>4, <1>5

\* An enable word of guest h becomes new; the other ones stay.
LEMMA EnableWords ==
  ASSUME Types, NEW h \in Guests, NEW x \in Words, NEW new \in SUBSET Lanes,
         SetEnable(h, x, new), NEW g \in Guests, NEW w \in Words
  PROVE  /\ EnableWord(g, w)' = IF g = h /\ w = x THEN new ELSE EnableWord(g, w)
         /\ overrun' = overrun
<1> DEFINE n == Start["ISCENABLER"]
<1>1. n + x \in Positions /\ n + w \in Positions /\ n \in Int /\ w \in Int /\ x \in Int
  BY EnablePositions, Layout DEF Words
<1>2. CASE x = 0
  <2>1. banked' = [banked EXCEPT ![h]["ISCENABLER"] = new] /\ UNCHANGED <<regs, overrun>>
    BY <1>2 DEF SetEnable, StoreBanked
  <2>2. "ISCENABLER" \in BankedRegs
    BY DEF BankedRegs
  <2>3. banked'[g]["ISCENABLER"] = IF g = h THEN new ELSE banked[g]["ISCENABLER"]
    BY <2>1, <2>2 DEF Types
  <2> QED
    BY <1>2, <2>1, <2>3 DEF EnableWord
<1>3. CASE x # 0
  <2>1. Owner(h, n + x) = h /\ Position(n + x) = n + x
    BY <1>1, Layout DEF Positions, Owner, Position
  <2>2. regs' = [regs EXCEPT ![h][n + x] = new] /\ UNCHANGED <<banked, overrun>>
    BY <1>3, <2>1 DEF SetEnable, Store
  <2>3. regs'[g][n + w] = IF g = h /\ n + w = n + x THEN new ELSE regs[g][n + w]
    BY <1>1, <2>2 DEF Types
  <2>4. n + w = n + x <=> w = x
    BY <1>1
  <2> QED
    BY <1>3, <2>2, <2>3, <2>4 DEF EnableWord
<1> QED
  BY <1>2, <1>3

\* A changed word is passed on bit by bit; other words and guests are left alone.
LEMMA EnableMirrors ==
  ASSUME Types, MirrorInv, NEW h \in Guests, Enables(h),
         NEW g \in Guests, NEW w \in Words, NEW l \in Lanes, g \notin overrun'
  PROVE  Mirrored(g, w, l)'
<1> DEFINE p == Pirqmap[g][4 * w + l]
<1> SUFFICES ASSUME Shared(p) PROVE Mirrored(g, w, l)'
  BY DEF Mirrored, Shared
<1>1. PICK x \in Words, new \in SUBSET Lanes :
        SetEnable(h, x, new) /\ ChangedIstatus(h, x, new)
  BY DEF Enables
<1> DEFINE changed == (old[h][x] \ new) \union (new \ old[h][x])
           on      == PirqsOf(h, IrqsOf(x, changed \intersect new))
           off     == PirqsOf(h, IrqsOf(x, changed \ new))
<1>2. /\ forwarded' = (forwarded \ off) \union on
      /\ target' = [q \in Irqs |-> IF q \in on THEN CpuOf[h] ELSE target[q]]
      /\ old' = [old EXCEPT ![h][x] = new]
  BY <1>1 DEF ChangedIstatus, Configure
<1>3. p \in Irqs /\ p # PIRQ_INVALID /\ 4 * w + l \in Irqs
  BY WordAndLane, MapAssumption DEF Shared
<1>4. ASSUME NEW bits \in SUBSET Lanes
      PROVE  p \in PirqsOf(h, IrqsOf(x, bits)) <=> h = g /\ x = w /\ l \in bits
  <2>1. ASSUME p \in PirqsOf(h, IrqsOf(x, bits)) PROVE h = g /\ x = w /\ l \in bits
    <3>1. PICK k \in bits : p = Pirqmap[h][4 * x + k]
      BY <2>1 DEF PirqsOf, IrqsOf
    <3>2. 4 * x + k \in Irqs
      BY WordAndLane
    <3>3. h = g /\ 4 * x + k = 4 * w + l
      BY <1>3, <3>1, <3>2, MapAssumption
    <3> QED
      BY <3>3, WordAndLane
  <2>2. ASSUME h = g, x = w, l \in bits PROVE p \in PirqsOf(h, IrqsOf(x, bits))
    BY <1>3, <2>2 DEF PirqsOf, IrqsOf
  <2> QED
    BY <2>1, <2>2
<1>5. /\ p \in on <=> h = g /\ x = w /\ l \in changed \intersect new
      /\ p \in off <=> h = g /\ x = w /\ l \in changed \ new
  <2>1. changed \intersect new \in SUBSET Lanes /\ changed \ new \in SUBSET Lanes
    BY DEF Types
  <2> HIDE DEF changed
  <2> QED
    BY <1>4, <2>1
<1>6. /\ EnableWord(g, w)' = IF g = h /\ w = x THEN new ELSE EnableWord(g, w)
      /\ overrun' = overrun
  BY <1>1, EnableWords
<1>7. /\ l \in EnableWord(g, w) <=> p \in forwarded
      /\ l \in old[g][w] <=> p \in forwarded
      /\ p \in forwarded => target[p] = CpuOf[g]
  BY <1>6 DEF MirrorInv, Mirrored
<1>8. CASE h = g /\ x = w
  <2>1. old'[g][w] = new /\ EnableWord(g, w)' = new
    BY <1>2, <1>6, <1>8 DEF Types
  <2>2. p \in forwarded' <=> l \in new
    BY <1>2, <1>5, <1>7, <1>8
  <2>3. p \in forwarded' => target'[p] = CpuOf[g]
    BY <1>2, <1>3, <1>5, <1>7, <1>8
  <2> QED
    BY <2>1, <2>2, <2>3 DEF Mirrored
<1>9. CASE ~ (h = g /\ x = w)
  <2>1. old'[g][w] = old[g][w] /\ EnableWord(g, w)' = EnableWord(g, w)
    BY <1>2, <1>6, <1>9 DEF Types
  <2>2. /\ p \in forwarded' <=> p \in forwarded
        /\ target'[p] = target[p]
    BY <1>2, <1>3, <1>5, <1>9
  <2> QED
    BY <1>7, <2>1, <2>2 DEF Mirrored
<1> QED
  BY <1>8, <1>9

\* Another word leaves the enable bits alone, but for the guest overrun by it.
LEMMA StoreMirrors ==
  ASSUME Types, MirrorInv, NEW h \in Guests, Stores(h) \/ Banks(h) \/ Marks,
         NEW g \in Guests, NEW w \in Words, NEW l \in Lanes, g \notin overrun'
  PROVE  Mirrored(g, w, l)'
<1> DEFINE e == Start["ISCENABLER"]
<1>1. e + w \in Positions /\ w \in Int /\ 0 <= w /\ w < NumWords
  BY EnablePositions, Layout DEF Words
<1>2. /\ EnableWord(g, w)' = EnableWord(g, w)
      /\ UNCHANGED <<old, forwarded, target>> /\ g \notin overrun
  <2>1. CASE Stores(h)
    <3>1. PICK n \in Nat, v \in SUBSET Lanes : Harmless(h, n) /\ Store(h, n, v) /\ OnlyWords
      BY <2>1 DEF Stores
    <3>2. regs'[g][e + w] = regs[g][e + w]
      <4>1. CASE n < Size
        <5>1. n # e + w
          BY <1>1, <3>1, Layout DEF Harmless
        <5>2. regs' = [regs EXCEPT ![h][n] = v]
          BY <3>1, <4>1 DEF Store, Owner, Position
        <5> QED
          BY <1>1, <5>1, <5>2 DEF Types
      <4>2. CASE ~ (n < Size)
        <5>1. Owner(h, n) = h + 1 /\ h + 1 # h
          BY <4>2 DEF Owner, Guests
        <5>2. g # h + 1
          BY <3>1, <5>1 DEF Store
        <5>3. regs' = [regs EXCEPT ![h + 1][Position(n)] = v]
          BY <3>1, <5>1 DEF Store
        <5> QED
          BY <5>2, <5>3 DEF Types
      <4> QED
        BY <4>1, <4>2
    <3> QED
      BY <3>1, <3>2 DEF Store, OnlyWords, EnableWord
  <2>2. CASE Banks(h) \/ Marks
    <3>1. PICK r, k, v : r # "ISCENABLER" /\ StoreBanked(k, r, v) /\ OnlyWords
      BY <2>2 DEF Banks, Marks, BankedRegs
    <3>2. banked'[g]["ISCENABLER"] = banked[g]["ISCENABLER"]
      <4>1. banked' = [banked EXCEPT ![k][r] = v] /\ r # "ISCENABLER"
        BY <3>1 DEF StoreBanked
      <4> QED
        BY <4>1 DEF Types
    <3> QED
      BY <3>1, <3>2 DEF StoreBanked, OnlyWords, EnableWord
  <2> QED
    BY <2>1, <2>2
<1>3. Mirrored(g, w, l)
  BY <1>2 DEF MirrorInv
<1> QED
  BY <1>2, <1>3 DEF Mirrored

\* The only processor's loop has not come to its end when it takes a turn.
LEMMA TurnBefore ==
  ASSUME NumCpus = 1, Types, NEW cpu \in 0 .. NumCpus - 1, InitDevices(cpu)
  PROVE  cpu = 0 /\ cursor[0].level # 4
<1>1. cpu = 0
  OBVIOUS
<1>2. cursor[0].level <= 3
  BY <1>1 DEF InitDevices, NextLevel, ResetGuest, InitDevice, AtDevice, InLoop
<1>3. cursor[0].level \in Int
  BY DEF Types, Cursors
<1> QED
  BY <1>1, <1>2, <1>3

LEMMA MirrorStep ==
  ASSUME NumCpus = 1, \A g \in Guests : CpuOf[g] = 0, Types, MirrorInv, [Next]_vars
  PROVE  MirrorInv'
<1>1. CASE UNCHANGED gicdVars /\ UNCHANGED cursor
  BY <1>1 DEF gicdVars, MirrorInv, Mirrored, EnableWord
<1>2. ASSUME NEW cpu \in 0 .. NumCpus - 1, InitDevices(cpu) PROVE MirrorInv'
  <2>1. cursor[0].level # 4
    BY <1>2, TurnBefore
  <2>2. CASE ResetGuest(cpu)
    <3>1. GicdReset(cpu, cursor[cpu].guest)
      BY <2>2 DEF ResetGuest
    <3>2. \A g \in Guests, w \in Words, l \in Lanes :
            Mirrored(g, w, l)' /\ (Shared(Pirqmap[g][l]) => l \notin regs'[g][Start["ISCENABLER"]])
      BY <2>1, <3>1, ResetMirrors
    <3>3. 0 \in Words
      BY Layout DEF Words
    <3>4. \A g \in Guests, l \in Lanes :
            Shared(Pirqmap[g][l]) => l \notin regs'[g][Start["ISCENABLER"]]
      BY <3>2, <3>3
    <3>5. forwarded' = HostIrqs \union HwSgis /\ overrun' = {}
      BY <2>1, <3>1 DEF GicdReset, MirrorInv
    <3> QED
      BY <3>2, <3>4, <3>5 DEF MirrorInv
  <2>3. CASE NextLevel(cpu) \/ InitDevice(cpu)
    <3>1. UNCHANGED gicdVars
      BY <2>3 DEF NextLevel, InitDevice
    <3> QED
      BY <2>1, <3>1 DEF gicdVars, MirrorInv, Mirrored, EnableWord
  <2> QED
    BY <1>2, <2>2, <2>3 DEF InitDevices
<1>3. ASSUME UNCHANGED cursor, NEW h \in Guests, Writes(h) PROVE MirrorInv'
  <2>1. cursor'[0].level = 4
    BY <1>3 DEF Writes, Running
  <2>2. ASSUME NEW g \in Guests, NEW w \in Words, NEW l \in Lanes, g \notin overrun'
        PROVE  Mirrored(g, w, l)'
    BY <1>3, <2>2, StoreMirrors, EnableMirrors DEF Writes
  <2> QED
    BY <2>1, <2>2 DEF MirrorInv
<1> QED
  BY <1>1, <1>2, <1>3, StepKinds

(***************************************************************************)
(* EnableMirrored: what a guest reads in its enable registers is what the  *)
(* physical distributor does, when one processor initialises the devices,  *)
(* for every guest whose registers no other one has overrun.  (The reset   *)
(* of a second processor would copy the physical bits, by their physical   *)
(* numbers, over the words the guests have changed since.)                 *)
(***************************************************************************)
THEOREM EnableFollowed ==
  ASSUME NumCpus = 1, \A g \in Guests : CpuOf[g] = 0
  PROVE  Spec => []EnableMirrored
<1>1. Init => MirrorInv
  <2> SUFFICES ASSUME Init PROVE MirrorInv
    OBVIOUS
  <2>1. ASSUME NEW g \in Guests, NEW w \in Words, NEW l \in Lanes
        PROVE  /\ Mirrored(g, w, l)
               /\ l \notin regs[g][Start["ISCENABLER"]]
    <3>1. "ISCENABLER" \in BankedRegs /\ Start["ISCENABLER"] + w \in Positions
      BY EnablePositions DEF BankedRegs
    <3>2. l \notin EnableWord(g, w) /\ l \notin old[g][w]
      BY <3>1 DEF Init, GicInit, EnableWord
    <3>3. Shared(Pirqmap[g][4 * w + l]) => Pirqmap[g][4 * w + l] \notin forwarded
      BY OffAtReset DEF Init, GicInit
    <3>4. Start["ISCENABLER"] \in Positions
      BY Layout DEF Positions
    <3>5. l \notin regs[g][Start["ISCENABLER"]]
      BY <3>4 DEF Init, GicInit
    <3> QED
      BY <3>2, <3>3, <3>5 DEF Mirrored
  <2>2. 0 \in Words
    BY Layout DEF Words
  <2> QED
    BY <2>1, <2>2 DEF Init, GicInit, MirrorInv
<1>2. Types /\ MirrorInv /\ [Next]_vars => MirrorInv'
  BY MirrorStep
<1>3. Types /\ MirrorInv => EnableMirrored
  <2> SUFFICES ASSUME Types, MirrorInv, NEW g \in Guests \ overrun, NEW v \in Irqs,
                      Shared(Pirqmap[g][v])
               PROVE  /\ ReadsEnabled(g, v) <=> Pirqmap[g][v] \in forwarded
                      /\ Pirqmap[g][v] \in forwarded => target[Pirqmap[g][v]] = CpuOf[g]
    BY DEF EnableMirrored, Shared
  <2> DEFINE w == v \div 4
             l == v % 4
  <2>1. v \in Int /\ 0 <= v /\ v < 4 * NumWords /\ NumWords \in Int
    BY Layout DEF Irqs
  <2>2. v = 4 * w + l /\ w \in Int /\ l \in Int /\ 0 <= l /\ l < 4
    BY <2>1
  <2>3. w \in Words /\ l \in Lanes
    <3>1. \A x, y \in Int : v = 4 * x + y /\ 0 <= y /\ y < 4 => x \in 0 .. NumWords - 1 /\ y \in 0 .. 3
      BY <2>1
    <3> HIDE DEF w, l
    <3> QED
      BY <2>2, <3>1 DEF Words, Lanes
  <2>4. Mirrored(g, w, l)
    BY <2>3 DEF MirrorInv
  <2>5. ReadsEnabled(g, v) <=> l \in EnableWord(g, w)
    BY DEF ReadsEnabled
  <2> HIDE DEF w, l
  <2> QED
    BY <2>2, <2>4, <2>5 DEF Mirrored
<1> QED
  BY <1>1, <1>2, <1>3, TypesKept, PTL DEF Spec

-----------------------------------------------------------------------------
(* Returning to the guest *)

LEMMA ResumeStep ==
  ASSUME [Next]_vars
  PROVE  resumed' = resumed \/ \E g \in Guests : \E d : Resume(g, d)
<1>1. CASE UNCHANGED vars
  BY <1>1 DEF vars
<1>2. CASE Register
  BY <1>2 DEF Register
<1>3. CASE \E cpu \in 0 .. NumCpus - 1 : InitDevices(cpu)
  BY <1>3 DEF InitDevices, NextLevel, ResetGuest, InitDevice
<1>4. ASSUME NEW g \in Guests, AnyAccess(g)
      PROVE  resumed' = resumed \/ \E d : Resume(g, d)
  <2>1. ASSUME NEW reg, NEW a, GicdAccess(g, a) \/ GicdRefused(g, a)
        PROVE  resumed' = resumed \/ \E d : Resume(g, d)
    BY <2>1 DEF GicdAccess, GicdRefused, Halt
  <2>2. ASSUME NEW filter, NEW list, NEW sgi, NEW injected,
               SgirAccess(g, filter, list, sgi, injected)
        PROVE  resumed' = resumed \/ \E d : Resume(g, d)
    BY <2>2 DEF SgirAccess
  <2>3. ASSUME NEW reg, NEW w, NEW v, SampleAccess(g, reg, w, v)
        PROVE  \E d : Resume(g, d)
    BY <2>3 DEF SampleAccess
  <2>4. ASSUME NEW w, NEW v, VtimerAccess(g, w, v)
        PROVE  \E d : Resume(g, d)
    BY <2>4 DEF VtimerAccess
  <2>5. ASSUME NEW d, BetweenRegs(g, d) PROVE resumed' = resumed
    BY <2>5 DEF BetweenRegs, Halt
  <2>6. ASSUME NEW inTable, NEW ok, MonitorAccess(g, inTable, ok)
        PROVE  resumed' = resumed \/ \E d : Resume(g, d)
    BY <2>6 DEF MonitorAccess, Halt
  <2> QED
    BY <1>4, <2>1, <2>2, <2>3, <2>4, <2>5, <2>6 DEF AnyAccess
<1>5. ASSUME NEW g \in Guests, OtherTrap(g)
      PROVE  resumed' = resumed \/ \E d : Resume(g, d)
  BY <1>5 DEF OtherTrap, Coprocessor, Hypercall, StrayTrap, StrayAccess, Unclaimed, Halt
<1>6. CASE Halted
  BY <1>6 DEF Halted, vars
<1> QED
  BY <1>1, <1>2, <1>3, <1>4, <1>5, <1>6 DEF Next, OtherTrap

(***************************************************************************)
(* ResumesBehind: a guest goes on behind the instruction that trapped,     *)
(* whatever device has claimed it, in ARM and in Thumb state, except that  *)
(* a device steps over the first half only of a 32-bit Thumb instruction.  *)
(***************************************************************************)
THEOREM ResumedBehind == Spec => []ResumesBehind
<1>1. Init => ResumesBehind
  BY DEF Init, ResumesBehind
<1>2. Types /\ ResumesBehind /\ [Next]_vars => ResumesBehind'
  <2>1. ASSUME Types, NEW g \in Guests, NEW d, Resume(g, d) PROVE ResumesBehind'
    <3>0. PICK thumb \in used.states : \E len \in Lengths(thumb, d) :
            resumed' = <<g, d, thumb, IF d \in Hypercalls THEN Entry(d, len)
                                      ELSE Entry(d, len) + IsizeOf(thumb), len>>
      BY <2>1 DEF Resume
    <3>1. PICK len \in Lengths(thumb, d) :
            resumed' = <<g, d, thumb, IF d \in Hypercalls THEN Entry(d, len)
                                      ELSE Entry(d, len) + IsizeOf(thumb), len>>
      BY <3>0
    <3>2. thumb \in BOOLEAN
      BY <2>1, WorkAssumption DEF Types
    <3>3. len \in {1, 2} /\ (~ thumb => len = 2)
      BY DEF Lengths
    <3> DEFINE moved == IF d \in Hypercalls THEN Entry(d, len) ELSE Entry(d, len) + IsizeOf(thumb)
    <3>4. moved = IF HalfWay(d, thumb, len) THEN 1 ELSE len
      BY <3>2, <3>3 DEF Entry, IsizeOf, HalfWay
    <3>5. resumed'[2] = d /\ resumed'[3] = thumb /\ resumed'[4] = moved /\ resumed'[5] = len
      BY <3>1
    <3> HIDE DEF moved
    <3> QED
      BY <3>4, <3>5 DEF ResumesBehind
  <2>2. ASSUME ResumesBehind, resumed' = resumed PROVE ResumesBehind'
    BY <2>2 DEF ResumesBehind
  <2> QED
    BY <2>1, <2>2, ResumeStep
<1> QED
  BY <1>1, <1>2, TypesKept, PTL DEF Spec

-----------------------------------------------------------------------------
(* The devices of other guests *)

\* What OwnDevicesOnly allows a trap of guest g to do to guest h.
Spared(g, h) ==
  /\ Alone(h)
  /\ \A n \in Positions : regs'[h][n] # regs[h][n] =>
       h = g + 1 /\ n < Reach /\ h \in overrun'
Apart(g) == \A h \in Guests : h # g => Spared(g, h)

\* A word that is written is the guest's own, or one of the guest behind it.
LEMMA StoresApart ==
  ASSUME Types, NEW g \in Guests, Stores(g), UNCHANGED <<sample, vtimer>>
  PROVE  Apart(g)
<1>1. PICK n \in Nat, v \in SUBSET Lanes : Harmless(g, n) /\ Store(g, n, v) /\ OnlyWords
  BY DEF Stores
<1> SUFFICES ASSUME NEW h \in Guests, h # g PROVE Spared(g, h)
  BY DEF Apart
<1>2. Alone(h)
  BY <1>1 DEF OnlyWords, Store, Alone
<1>3. ASSUME NEW m \in Positions, regs'[h][m] # regs[h][m]
      PROVE  h = g + 1 /\ m < Reach /\ h \in overrun'
  <2>1. h = Owner(g, n) /\ m = Position(n)
    <3>1. regs' = [regs EXCEPT ![Owner(g, n)][Position(n)] = v]
      BY <1>1 DEF Store
    <3> QED
      BY <1>3, <3>1 DEF Types
  <2>2. ~ (n < Size)
    BY <2>1 DEF Owner
  <2>3. h = g + 1 /\ m = n - Size
    BY <2>1, <2>2 DEF Owner, Position
  <2>4. n < Start["ITARGETSR"] + PrioPage
    BY <1>1, <2>2 DEF Harmless
  <2>5. m < Reach
    BY <2>3, <2>4, Layout DEF Reach
  <2>6. h \in overrun'
    BY <1>1, <2>1 DEF Store
  <2> QED
    BY <2>3, <2>5, <2>6
<1> QED
  BY <1>2, <1>3 DEF Spared

\* A banked word that is written is the guest's own, or the mark of an SGI.
LEMMA BanksApart ==
  ASSUME Types, NEW g \in Guests, Banks(g) \/ Marks, UNCHANGED <<sample, vtimer>>
  PROVE  Apart(g)
<1>1. PICK k, r, v : /\ StoreBanked(k, r, v) /\ OnlyWords
                     /\ k = g \/ r = "CPENDSGIR"
  BY DEF Banks, Marks
<1> SUFFICES ASSUME NEW h \in Guests, h # g PROVE Spared(g, h)
  BY DEF Apart
<1>2. ASSUME NEW s \in BankedRegs, s # "CPENDSGIR" PROVE banked'[h][s] = banked[h][s]
  <2>1. banked' = [banked EXCEPT ![k][r] = v]
    BY <1>1 DEF StoreBanked
  <2>2. h # k \/ s # r
    BY <1>1, <1>2
  <2> QED
    BY <2>1, <2>2 DEF Types
<1>3. Alone(h)
  BY <1>1, <1>2 DEF OnlyWords, Alone
<1> QED
  BY <1>1, <1>3 DEF StoreBanked, Spared

\* Enable bits that are changed are the guest's own, and so are their interrupts.
LEMMA EnablesApart ==
  ASSUME Types, NEW g \in Guests, Enables(g), UNCHANGED <<sample, vtimer>>
  PROVE  Apart(g)
<1>1. PICK x \in Words, new \in SUBSET Lanes :
        SetEnable(g, x, new) /\ ChangedIstatus(g, x, new)
  BY DEF Enables
<1> SUFFICES ASSUME NEW h \in Guests, h # g PROVE Spared(g, h)
  BY DEF Apart
<1> DEFINE changed == (old[g][x] \ new) \union (new \ old[g][x])
           on      == PirqsOf(g, IrqsOf(x, changed \intersect new))
           off     == PirqsOf(g, IrqsOf(x, changed \ new))
<1>2. /\ forwarded' = (forwarded \ off) \union on
      /\ target' = [q \in Irqs |-> IF q \in on THEN CpuOf[g] ELSE target[q]]
      /\ genabled' = [genabled EXCEPT ![g] = @ \union on]
      /\ old' = [old EXCEPT ![g][x] = new]
  BY <1>1 DEF ChangedIstatus, Configure
<1>3. ASSUME NEW v \in Irqs, Pirqmap[h][v] # PIRQ_INVALID
      PROVE  /\ Pirqmap[h][v] \in forwarded' <=> Pirqmap[h][v] \in forwarded
             /\ target'[Pirqmap[h][v]] = target[Pirqmap[h][v]]
  <2>1. ASSUME NEW bits \in SUBSET Lanes PROVE Pirqmap[h][v] \notin PirqsOf(g, IrqsOf(x, bits))
    <3>1. \A l \in bits : 4 * x + l \in Irqs
      BY WordAndLane
    <3>2. \A l \in bits : Pirqmap[h][v] # Pirqmap[g][4 * x + l]
      BY <1>3, <3>1, MapAssumption
    <3> QED
      BY <3>2 DEF PirqsOf, IrqsOf
  <2>2. changed \intersect new \in SUBSET Lanes /\ changed \ new \in SUBSET Lanes
    BY DEF Types
  <2>3. Pirqmap[h][v] \notin on /\ Pirqmap[h][v] \notin off
    <3> HIDE DEF changed
    <3> QED
      BY <2>1, <2>2
  <2>4. Pirqmap[h][v] \in Irqs
    BY <1>3, MapAssumption
  <2> QED
    BY <1>2, <2>3, <2>4
<1>4. /\ \A r \in BankedRegs : banked'[h][r] = banked[h][r]
      /\ \A n \in Positions : regs'[h][n] = regs[h][n]
  <2>1. CASE x = 0
    BY <1>1, <2>1 DEF SetEnable, StoreBanked, Types
  <2>2. CASE x # 0
    <3>1. Start["ISCENABLER"] + x < Size
      BY EnablePositions, Layout DEF Positions
    <3> QED
      BY <1>1, <2>2, <3>1 DEF SetEnable, Store, Owner, Types
  <2> QED
    BY <2>1, <2>2
<1>5. old'[h] = old[h] /\ genabled'[h] = genabled[h]
  BY <1>2 DEF Types
<1> QED
  BY <1>3, <1>4, <1>5 DEF Spared, Alone

LEMMA WritesApart ==
  ASSUME Types, NEW g \in Guests, UNCHANGED gicdVars \/ Writes(g), UNCHANGED <<sample, vtimer>>
  PROVE  Apart(g)
<1>1. CASE UNCHANGED gicdVars
  BY <1>1 DEF gicdVars, Apart, Spared, Alone
<1> QED
  BY <1>1, StoresApart, BanksApart, EnablesApart DEF Writes

\* A turn of the loop of vdev_init moves its cursor.
LEMMA TurnMoves ==
  ASSUME Types, NEW cpu \in 0 .. NumCpus - 1, InitDevices(cpu)
  PROVE  cursor' # cursor
<1> DEFINE c == cursor[cpu]
           next == [level |-> c.level + 1, dev |-> 1, guest |-> 0]
           done == [level |-> c.level, dev |-> c.dev + 1, guest |-> 0]
<1>1. c \in [level : Int, dev : Int, guest : Int]
  BY DEF Types, Cursors
<1>2. c.level \in Int /\ c.dev \in Int /\ c.guest \in Int
  BY <1>1
<1>3. ASSUME NEW x, cursor' = [cursor EXCEPT ![cpu] = x] PROVE cursor'[cpu] = x
  BY <1>3 DEF Types
<1>4. CASE NextLevel(cpu)
  <2>1. cursor'[cpu] = next
    BY <1>3, <1>4 DEF NextLevel
  <2>2. next.level = c.level + 1
    OBVIOUS
  <2> QED
    BY <1>2, <2>1, <2>2
<1>5. CASE ResetGuest(cpu)
  <2>1. cursor'[cpu] = [c EXCEPT !.guest = c.guest + 1]
    BY <1>3, <1>5 DEF ResetGuest
  <2>2. cursor'[cpu].guest = c.guest + 1
    BY <1>1, <2>1
  <2> QED
    BY <1>2, <2>2
<1>6. CASE InitDevice(cpu)
  <2>1. cursor'[cpu] = done
    BY <1>3, <1>6 DEF InitDevice
  <2>2. done.dev = c.dev + 1
    OBVIOUS
  <2> QED
    BY <1>2, <2>1, <2>2
<1> QED
  BY <1>4, <1>5, <1>6 DEF InitDevices

\* A step that is none of vdev_init changes no device, or is a trap of one guest.
LEMMA ApartStep ==
  ASSUME Types, [Next]_vars, cursor' = cursor, ~ halted'
  PROVE  \/ UNCHANGED <<gicdVars, sample, vtimer>>
         \/ \E g \in Guests : Apart(g) /\ resumed'[1] = g
<1> DEFINE Same == UNCHANGED <<gicdVars, sample, vtimer>>
<1>1. CASE UNCHANGED vars
  BY <1>1 DEF vars
<1>2. CASE Register
  BY <1>2 DEF Register
<1>3. CASE \E cpu \in 0 .. NumCpus - 1 : InitDevices(cpu)
  BY <1>3, TurnMoves
<1>4. ASSUME NEW g \in Guests, AnyAccess(g)
      PROVE  Same \/ (Apart(g) /\ resumed'[1] = g)
  <2>1. ASSUME NEW reg, NEW a, GicdAccess(g, a)
        PROVE  Apart(g) /\ resumed'[1] = g
    <3>1. resumed'[1] = g /\ UNCHANGED <<sample, vtimer>>
      BY <2>1 DEF GicdAccess, Resume
    <3> QED
      BY <1>4, <3>1, AccessKinds, WritesApart
  <2>2. ASSUME NEW reg, NEW a, GicdRefused(g, a) PROVE Same
    BY <2>2 DEF GicdRefused, Halt
  <2>3. ASSUME NEW filter, NEW list, NEW sgi, NEW injected,
               SgirAccess(g, filter, list, sgi, injected)
        PROVE  Apart(g) /\ resumed'[1] = g
    <3>1. resumed'[1] = g /\ UNCHANGED <<sample, vtimer>>
      BY <2>3 DEF SgirAccess, Resume
    <3> QED
      BY <1>4, <3>1, AccessKinds, WritesApart
  <2>4. ASSUME NEW reg, NEW w, NEW v, SampleAccess(g, reg, w, v)
        PROVE  Apart(g) /\ resumed'[1] = g
    <3>1. resumed'[1] = g /\ UNCHANGED gicdVars /\ vtimer' = vtimer
      BY <2>4 DEF SampleAccess, Resume
    <3>2. \A h \in Guests : h # g => sample'[h] = sample[h]
      BY <2>4 DEF SampleAccess, Types
    <3> QED
      BY <3>1, <3>2 DEF gicdVars, Apart, Spared, Alone
  <2>5. ASSUME NEW w, NEW v, VtimerAccess(g, w, v)
        PROVE  Apart(g) /\ resumed'[1] = g
    <3>1. resumed'[1] = g /\ UNCHANGED gicdVars /\ sample' = sample
      BY <2>5 DEF VtimerAccess, Resume
    <3>2. \A h \in Guests : h # g => vtimer'[h] = vtimer[h]
      BY <2>5 DEF VtimerAccess, Types
    <3> QED
      BY <3>1, <3>2 DEF gicdVars, Apart, Spared, Alone
  <2>6. ASSUME NEW d, BetweenRegs(g, d) PROVE Same
    BY <2>6 DEF BetweenRegs, Halt
  <2>7. ASSUME NEW inTable, NEW ok, MonitorAccess(g, inTable, ok) PROVE Same
    BY <2>7 DEF MonitorAccess, Halt
  <2> QED
    BY <1>4, <2>1, <2>2, <2>3, <2>4, <2>5, <2>6, <2>7 DEF AnyAccess
<1>5. ASSUME NEW g \in Guests, OtherTrap(g) PROVE Same
  BY <1>5, OtherTrapKinds
<1>6. CASE Halted
  BY <1>6 DEF Halted, vars
<1> QED
  BY <1>1, <1>2, <1>3, <1>4, <1>5, <1>6 DEF Next, OtherTrap

(***************************************************************************)
(* OwnDevicesOnly: a trap of one guest leaves the devices and interrupts   *)
(* of the others alone, up to the words behind its own registers that the  *)
(* last index of ITARGETSR reaches.                                        *)
(***************************************************************************)
THEOREM DevicesApart == Spec => OwnDevicesOnly
<1> DEFINE Step == \A h \in Guests :
              cursor' = cursor /\ resumed' # <<>> /\ h # resumed'[1] /\ ~halted' =>
                /\ Alone(h)
                /\ \A n \in Positions : regs'[h][n] # regs[h][n] =>
                     h = resumed'[1] + 1 /\ n < Reach /\ h \in overrun'
<1>1. Types /\ [Next]_vars => [Step]_vars
  <2> SUFFICES ASSUME Types, [Next]_vars, cursor' = cursor, ~ halted',
                      NEW h \in Guests, h # resumed'[1]
               PROVE  Spared(resumed'[1], h)
    BY DEF Spared
  <2>1. CASE UNCHANGED <<gicdVars, sample, vtimer>>
    BY <2>1 DEF gicdVars, Spared, Alone
  <2>2. CASE \E g \in Guests : Apart(g) /\ resumed'[1] = g
    BY <2>2 DEF Apart
  <2> QED
    BY <2>1, <2>2, ApartStep
<1> QED
  BY <1>1, TypesKept, PTL DEF Spec, OwnDevicesOnly

=============================================================================
