----------------------------- MODULE BootProofs -----------------------------
(* Theorems about Boot, for every set of tests a build may run. *)
EXTENDS Boot, FiniteSetTheorems, SequenceTheorems, TLAPS

-----------------------------------------------------------------------------
(* The inductive invariant *)

\* The place of a call in the order both boards keep.
Rank == [vcpu_init |-> 1, setup_memory |-> 2, memory_init |-> 3, setup_interrupt |-> 4,
         interrupt_init |-> 5, wake |-> 6, setup_timer |-> 7, timer_init |-> 8,
         guest_init |-> 9, vdev_init |-> 10, tests |-> 11, guest_sched_start |-> 12]

Handlers == {None, "maintenance", "timer", "nsptimer"}
Callbacks == {None, "guest_schedule"}
Registers == GuestMmu \cup MemoryEnable \cup {"imo", "vttbr", "vm"}

Vcpu == [list : Int, placed : BOOLEAN, tables : Int, vmid : Int, ready : BOOLEAN, slice : Int]

Irqs == [ops : BOOLEAN, map : SUBSET (RtsmMap \cup ArndaleMap), mapped : BOOLEAN,
         ppi : [Cpus -> [Private -> Handlers]]]
Gic == [base : BOOLEAN, dist : BOOLEAN, initialized : BOOLEAN,
        forwarded : [Cpus -> SUBSET Int], cpuif : [Cpus -> BOOLEAN]]
Timer == [irq : {0, TimerIrq}, callback : [Cpus -> Callbacks], enable : [Cpus -> BOOLEAN],
          imask : [Cpus -> BOOLEAN], counting : BOOLEAN]

Vgic == [base : BOOLEAN, on : [Cpus -> BOOLEAN], queued : SUBSET Int]

BootTypeOK ==
  /\ build \in [board : {"rtsm", "arndale"}, smp : BOOLEAN, tests : Tests]
  /\ todo \in [Cpus -> Seq(DOMAIN Rank)]
  /\ woken \in BOOLEAN
  /\ vcpus \in [0..3 -> Vcpu]
  /\ hyp \in [tables : {<<>>, HostTable}, heap : BOOLEAN]
  /\ regs \in [Cpus -> SUBSET Registers]
  /\ irqs \in Irqs
  /\ gic \in Gic
  /\ vgic \in Vgic
  /\ timer \in Timer
  /\ vdevs \in [size : [DOMAIN Modules -> Nat], reset : BOOLEAN]
  /\ sched \in [current : [Cpus -> Int], next : [Cpus -> Int], ticks : [Cpus -> Int]]

\* The calls of CPU 0 come in the order of the boards, each at most once.
Sorted ==
  \A m, n \in DOMAIN todo[0] : m < n => Rank[todo[0][m]] < Rank[todo[0][n]]

\* What CPU 0 still calls, and what it has called.
Remains(f) == \E n \in DOMAIN todo[0] : todo[0][n] = f
Called(f) == ~ Remains(f)

\* What each call of CPU 0 leaves, and what keeps it afterwards.
GuestsPlaced == Called("setup_memory") => \A g \in Guests : vcpus[g].placed

MemoryReady ==
  Called("memory_init") =>
    /\ hyp.tables = HostTable /\ hyp.heap /\ MemoryEnable \cup GuestMmu \subseteq regs[0]
    /\ \A g \in Own(0) : vcpus[g].tables = g

MapReady == Called("setup_interrupt") => irqs.map # {}

InterruptsReady ==
  Called("interrupt_init") =>
    /\ irqs.ops /\ irqs.mapped /\ gic.base /\ gic.dist /\ vgic.base /\ vgic.on[0]
    /\ MaintenanceIrq \in gic.forwarded[0]

ContextsReady ==
  Called("guest_init") => \A g \in Own(0) : vcpus[g].ready /\ vcpus[g].vmid = g

DevicesReady ==
  IF Called("vdev_init")
  THEN vdevs.reset /\ \A l \in DOMAIN Modules : vdevs.size[l] = Cardinality(Modules[l])
  ELSE \A l \in DOMAIN Modules : vdevs.size[l] = 0

Effects ==
  GuestsPlaced /\ MemoryReady /\ MapReady /\ InterruptsReady /\ ContextsReady /\ DevicesReady

\* CPU 1 is let go when what comes before in the order is done, a guest runs when all is.
Passed ==
  /\ woken => \A f \in DOMAIN Rank : Rank[f] < Rank["wake"] => Called(f)
  /\ sched.current[0] # NoVmid => todo[0] = <<>>

IInv == BootTypeOK /\ Sorted /\ Effects /\ Passed

-----------------------------------------------------------------------------

LEMMA Ranks ==
  /\ DOMAIN Rank = {"vcpu_init", "setup_memory", "memory_init", "setup_interrupt",
                    "interrupt_init", "wake", "setup_timer", "timer_init", "guest_init",
                    "vdev_init", "tests", "guest_sched_start"}
  /\ \A f \in DOMAIN Rank : Rank[f] \in 1 .. 12
  /\ \A f \in DOMAIN Rank : Rank[f] = 12 => f = "guest_sched_start"
  BY DEF Rank

LEMMA HeadTail ==
  ASSUME NEW S, NEW s \in Seq(S), s # <<>>
  PROVE  /\ Len(s) \in Nat /\ Len(s) >= 1 /\ DOMAIN s = 1 .. Len(s) /\ Head(s) = s[1]
         /\ Tail(s) \in Seq(S) /\ DOMAIN Tail(s) = 1 .. Len(s) - 1
         /\ \A n \in 1 .. Len(s) - 1 : Tail(s)[n] = s[n + 1]
  OBVIOUS

LEMMA LastCall ==
  ASSUME NEW S, NEW s \in Seq(S), Len(s) = 1
  PROVE  Tail(s) = <<>>
<1>1. s # <<>>
  BY EmptySeq
<1>2. Tail(s) \in Seq(S) /\ DOMAIN Tail(s) = 1 .. 0
  <2>1. Len(s) - 1 = 0
    OBVIOUS
  <2>2. Tail(s) \in Seq(S) /\ DOMAIN Tail(s) = 1 .. Len(s) - 1
    BY <1>1, HeadTail
  <2>. QED  BY <2>1, <2>2
<1>3. Len(Tail(s)) = 0
  BY <1>2
<1>. QED  BY <1>2, <1>3, EmptySeq

\* One call of the list: it is made once, after those before it and before those behind it.
LEMMA CallFirst ==
  ASSUME BootTypeOK, Sorted, NEW c \in Cpus, NEW f, Calls(c, f)
  PROVE  /\ todo' \in [Cpus -> Seq(DOMAIN Rank)] /\ Sorted' /\ build' = build
         /\ f \in DOMAIN Rank /\ todo[c] # <<>> /\ (c = 1 => woken)
         /\ \A g : g # f \/ c = 1 => (Called(g)' <=> Called(g))
         /\ c = 1 => todo'[0] = todo[0]
         /\ c = 0 => /\ Remains(f) /\ Called(f)'
                     /\ \A g \in DOMAIN Rank : Rank[g] < Rank[f] => Called(g)
                     /\ f = "guest_sched_start" => todo'[0] = <<>>
<1>1. /\ todo \in [Cpus -> Seq(DOMAIN Rank)]
      /\ todo[c] # <<>> /\ f = Head(todo[c]) /\ todo' = [todo EXCEPT ![c] = Tail(todo[c])]
      /\ build' = build /\ (c = 1 => woken)
  BY DEF BootTypeOK, Calls
<1>2. todo'[c] = Tail(todo[c])
  BY <1>1
<1>3. todo[c] \in Seq(DOMAIN Rank)
  BY <1>1
<1>4. /\ Len(todo[c]) \in Nat /\ Len(todo[c]) >= 1 /\ DOMAIN todo[c] = 1 .. Len(todo[c])
      /\ f = todo[c][1]
      /\ Tail(todo[c]) \in Seq(DOMAIN Rank) /\ DOMAIN Tail(todo[c]) = 1 .. Len(todo[c]) - 1
      /\ \A n \in 1 .. Len(todo[c]) - 1 : Tail(todo[c])[n] = todo[c][n + 1]
  BY <1>1, <1>3, HeadTail
<1>5. f \in DOMAIN Rank
  BY <1>3, <1>4
<1>6. todo' \in [Cpus -> Seq(DOMAIN Rank)]
  BY <1>1, <1>4
<1>7. CASE c = 1
  <2>1. todo'[0] = todo[0]
    BY <1>1, <1>7 DEF Cpus
  <2>2. Sorted' /\ \A g : Called(g)' <=> Called(g)
    BY <2>1 DEF Sorted, Called, Remains
  <2>. QED  BY <1>1, <1>5, <1>6, <1>7, <2>1, <2>2
<1>8. CASE c = 0
  <2>. DEFINE s == todo[0]
  <2>1. /\ Len(s) \in Nat /\ Len(s) >= 1 /\ DOMAIN s = 1 .. Len(s) /\ f = s[1]
        /\ DOMAIN todo'[0] = 1 .. Len(s) - 1
        /\ \A n \in 1 .. Len(s) - 1 : todo'[0][n] = s[n + 1]
        /\ todo'[0] \in Seq(DOMAIN Rank)
    BY <1>2, <1>4, <1>8
  <2>2. \A m, n \in 1 .. Len(s) : m < n => Rank[s[m]] < Rank[s[n]]
    BY <2>1 DEF Sorted
  <2>3. \A n \in 1 .. Len(s) : s[n] \in DOMAIN Rank /\ Rank[s[n]] \in 1 .. 12
    BY <1>3, <1>4, <1>8, Ranks
  <2>. HIDE DEF s
  <2>4. \A n \in 2 .. Len(s) : Rank[f] < Rank[s[n]]
    BY <2>1, <2>2
  <2>5. Sorted'
    <3>1. ASSUME NEW m \in 1 .. Len(s) - 1, NEW n \in 1 .. Len(s) - 1, m < n
          PROVE  Rank[todo'[0][m]] < Rank[todo'[0][n]]
      <4>1. m + 1 \in 1 .. Len(s) /\ n + 1 \in 1 .. Len(s) /\ m + 1 < n + 1
        BY <2>1, <3>1
      <4>. QED  BY <2>1, <2>2, <4>1
    <3>. QED  BY <2>1, <3>1 DEF Sorted
  <2>6. Remains(f)
    BY <2>1 DEF Remains, s
  <2>7. \A n \in 1 .. Len(s) - 1 : n + 1 \in 2 .. Len(s)
    BY <2>1
  <2>8. Called(f)'
    <3>1. ASSUME NEW n \in 1 .. Len(s) - 1, todo'[0][n] = f PROVE FALSE
      <4>1. s[n + 1] = f /\ n + 1 \in 2 .. Len(s)
        BY <2>1, <2>7, <3>1
      <4>2. Rank[f] < Rank[f] /\ Rank[f] \in 1 .. 12
        BY <2>1, <2>3, <2>4, <4>1
      <4>. QED  BY <4>2
    <3>. QED  BY <2>1, <3>1 DEF Called, Remains
  <2>9. ASSUME NEW g, g # f PROVE Remains(g)' <=> Remains(g)
    <3>1. ASSUME Remains(g)' PROVE Remains(g)
      <4>1. PICK n \in 1 .. Len(s) - 1 : todo'[0][n] = g
        BY <2>1, <3>1 DEF Remains
      <4>2. s[n + 1] = g /\ n + 1 \in 1 .. Len(s)
        BY <2>1, <4>1
      <4>. QED  BY <2>1, <4>2 DEF Remains, s
    <3>2. ASSUME Remains(g) PROVE Remains(g)'
      <4>1. PICK n \in 1 .. Len(s) : s[n] = g
        BY <2>1, <3>2 DEF Remains, s
      <4>2. n # 1
        BY <2>1, <2>9, <4>1
      <4>3. n - 1 \in 1 .. Len(s) - 1 /\ (n - 1) + 1 = n
        BY <2>1, <4>2
      <4>4. todo'[0][n - 1] = g
        BY <2>1, <4>1, <4>3
      <4>. QED  BY <2>1, <4>3, <4>4 DEF Remains
    <3>. QED  BY <3>1, <3>2
  <2>10. ASSUME NEW g \in DOMAIN Rank, Rank[g] < Rank[f] PROVE Called(g)
    <3>1. ASSUME NEW n \in 1 .. Len(s), s[n] = g PROVE FALSE
      <4>0. Rank[g] \in 1 .. 12 /\ Rank[f] \in 1 .. 12
        BY <1>5, Ranks
      <4>1. n = 1 \/ n \in 2 .. Len(s)
        BY <2>1
      <4>2. CASE n = 1
        <5>1. g = f
          BY <2>1, <3>1, <4>2
        <5>. QED  BY <2>10, <4>0, <5>1
      <4>3. CASE n \in 2 .. Len(s)
        <5>1. Rank[f] < Rank[g]
          BY <2>4, <3>1, <4>3
        <5>2. PICK x \in 1 .. 12, y \in 1 .. 12 : x = Rank[g] /\ y = Rank[f]
          BY <4>0
        <5>3. x < y /\ y < x
          BY <2>10, <5>1, <5>2
        <5>. QED  BY <5>3
      <4>. QED  BY <4>1, <4>2, <4>3
    <3>. QED  BY <2>1, <3>1 DEF Called, Remains, s
  <2>11. ASSUME f = "guest_sched_start" PROVE todo'[0] = <<>>
    <3>1. Rank[f] = 12
      BY <2>11 DEF Rank
    <3>2. ASSUME Len(s) >= 2 PROVE FALSE
      <4>1. 2 \in 2 .. Len(s) /\ 2 \in 1 .. Len(s)
        BY <2>1, <3>2
      <4>2. 12 < Rank[s[2]] /\ Rank[s[2]] \in 1 .. 12
        BY <2>3, <2>4, <3>1, <4>1
      <4>. QED  BY <4>2
    <3>3. Len(s) = 1
      BY <2>1, <3>2
    <3>4. todo'[0] = Tail(todo[0]) /\ todo[0] \in Seq(DOMAIN Rank)
      BY <1>2, <1>3, <1>8
    <3>. QED  BY <3>3, <3>4, LastCall DEF s
  <2>. QED  BY <1>1, <1>5, <1>6, <1>8, <2>5, <2>6, <2>8, <2>9, <2>10, <2>11 DEF Called
<1>. QED  BY <1>7, <1>8 DEF Cpus

\* Whoever calls, what is called stays called.
LEMMA PassedStays ==
  ASSUME BootTypeOK, Sorted, Passed, NEW c \in Cpus, NEW f, Calls(c, f), woken' = woken,
         sched'.current[0] = sched.current[0]
  PROVE  Passed'
<1>1. \A g : Called(g) => Called(g)'
  BY CallFirst DEF Cpus
<1>2. woken' => \A g \in DOMAIN Rank : Rank[g] < Rank["wake"] => Called(g)'
  BY <1>1 DEF Passed
<1>3. ASSUME sched'.current[0] # NoVmid PROVE todo'[0] = <<>>
  <2>1. todo[0] = <<>>
    BY <1>3 DEF Passed
  <2>. QED  BY <2>1, CallFirst DEF Cpus
<1>. QED  BY <1>2, <1>3 DEF Passed, Called, Remains

-----------------------------------------------------------------------------
(* Facts of the tables and the device lists *)

LEMMA MapVirqs ==
  ASSUME NEW m \in RtsmMap \cup ArndaleMap
  PROVE  m[2] # MaintenanceIrq
  BY DEF RtsmMap, ArndaleMap, MaintenanceIrq

\* guest 0 has an interrupt on either board
LEMMA MapGiven ==
  /\ \E m \in RtsmMap : m[1] = 0
  /\ \E m \in ArndaleMap : m[1] = 0
<1>1. <<0, 1, 1>> \in RtsmMap /\ <<0, 1, 1>>[1] = 0
  BY DEF RtsmMap
<1>2. <<0, 27, 27>> \in ArndaleMap /\ <<0, 27, 27>>[1] = 0
  BY DEF ArndaleMap
<1>. QED  BY <1>1, <1>2

LEMMA ModuleCounts ==
  /\ DOMAIN Modules = {"high", "middle", "low"}
  /\ \A l \in DOMAIN Modules : Cardinality(Modules[l]) \in Nat
  /\ Cardinality(Modules["high"]) > 0
<1>1. DOMAIN Modules = {"high", "middle", "low"}
      /\ Modules["high"] = {"cp"}
      /\ Modules["middle"] = {"ping"} \cup ({"stay"} \cup ({"yield"} \cup {"hvc_monitor"}))
      /\ Modules["low"] = {"gicd"} \cup ({"sample"} \cup ({"vtimer"} \cup {"monitor"}))
  BY DEF Modules, HighModules, MiddleModules, LowModules
<1>2. ASSUME NEW x PROVE IsFiniteSet({x}) /\ Cardinality({x}) = 1
  BY FS_Singleton
<1>3. ASSUME NEW a, NEW b, NEW x, NEW d PROVE IsFiniteSet({a} \cup ({b} \cup ({x} \cup {d})))
  <2>1. IsFiniteSet({x} \cup {d})
    BY <1>2, FS_Union
  <2>2. IsFiniteSet({b} \cup ({x} \cup {d}))
    BY <1>2, <2>1, FS_Union
  <2>. QED  BY <1>2, <2>2, FS_Union
<1>4. ASSUME NEW l \in DOMAIN Modules PROVE IsFiniteSet(Modules[l])
  <2>1. CASE l = "high"
    BY <1>1, <1>2, <2>1
  <2>2. CASE l = "middle"
    <3>1. IsFiniteSet({"ping"} \cup ({"stay"} \cup ({"yield"} \cup {"hvc_monitor"})))
      BY <1>3, Zenon
    <3>. QED  BY <1>1, <2>2, <3>1, Zenon
  <2>3. CASE l = "low"
    <3>1. IsFiniteSet({"gicd"} \cup ({"sample"} \cup ({"vtimer"} \cup {"monitor"})))
      BY <1>3, Zenon
    <3>. QED  BY <1>1, <2>3, <3>1, Zenon
  <2>. QED  BY <1>1, <2>1, <2>2, <2>3
<1>5. \A l \in DOMAIN Modules : Cardinality(Modules[l]) \in Nat
  <2>1. ASSUME NEW l \in DOMAIN Modules PROVE Cardinality(Modules[l]) \in Nat
    BY <1>4, FS_CardinalityType
  <2>. QED  BY <2>1
<1>6. Cardinality(Modules["high"]) = 1
  BY <1>1, <1>2
<1>. QED  BY <1>1, <1>5, <1>6

-----------------------------------------------------------------------------
(* The inductive step *)

\* A list in the order of the boards, and what is in it.
Ordered(s) == \A m, n \in DOMAIN s : m < n => Rank[s[m]] < Rank[s[n]]
In(f, s) == \E n \in DOMAIN s : s[n] = f

LEMMA Joined ==
  ASSUME NEW s \in Seq(DOMAIN Rank), NEW t \in Seq(DOMAIN Rank), Ordered(s), Ordered(t),
         \A m \in DOMAIN s, n \in DOMAIN t : Rank[s[m]] < Rank[t[n]]
  PROVE  /\ s \o t \in Seq(DOMAIN Rank) /\ Ordered(s \o t)
         /\ \A f : In(f, s \o t) <=> In(f, s) \/ In(f, t)
<1>. DEFINE u == s \o t
<1>1. /\ Len(s) \in Nat /\ DOMAIN s = 1 .. Len(s) /\ Len(t) \in Nat /\ DOMAIN t = 1 .. Len(t)
  BY LenProperties
<1>2. /\ u \in Seq(DOMAIN Rank) /\ Len(u) = Len(s) + Len(t)
      /\ \A n \in 1 .. Len(s) + Len(t) : u[n] = IF n <= Len(s) THEN s[n] ELSE t[n - Len(s)]
  BY ConcatProperties
<1>3. DOMAIN u = 1 .. Len(s) + Len(t)
  BY <1>1, <1>2, LenProperties
<1>. HIDE DEF u
<1>4. ASSUME NEW n \in DOMAIN u
      PROVE  \/ n \in DOMAIN s /\ u[n] = s[n]
             \/ n \notin DOMAIN s /\ n - Len(s) \in DOMAIN t /\ u[n] = t[n - Len(s)]
  BY <1>1, <1>2, <1>3
<1>5. ASSUME NEW m \in DOMAIN u, NEW n \in DOMAIN u, m < n PROVE Rank[u[m]] < Rank[u[n]]
  <2>1. CASE n \in DOMAIN s /\ u[n] = s[n]
    <3>1. m \in DOMAIN s /\ u[m] = s[m]
      BY <1>1, <1>2, <1>3, <1>5, <2>1
    <3>. QED  BY <1>5, <2>1, <3>1 DEF Ordered
  <2>2. CASE n \notin DOMAIN s /\ n - Len(s) \in DOMAIN t /\ u[n] = t[n - Len(s)]
    <3>1. CASE m \in DOMAIN s /\ u[m] = s[m]
      BY <2>2, <3>1
    <3>2. CASE m - Len(s) \in DOMAIN t /\ u[m] = t[m - Len(s)]
      <4>1. m - Len(s) < n - Len(s)
        BY <1>1, <1>3, <1>5
      <4>. QED  BY <2>2, <3>2, <4>1 DEF Ordered
    <3>. QED  BY <1>4, <3>1, <3>2
  <2>. QED  BY <1>4, <2>1, <2>2
<1>6. ASSUME NEW f PROVE In(f, u) <=> In(f, s) \/ In(f, t)
  <2>1. ASSUME In(f, u) PROVE In(f, s) \/ In(f, t)
    BY <1>4, <2>1 DEF In
  <2>2. ASSUME In(f, s) PROVE In(f, u)
    <3>1. PICK n \in DOMAIN s : s[n] = f
      BY <2>2 DEF In
    <3>2. n \in DOMAIN u /\ u[n] = s[n]
      BY <1>1, <1>2, <1>3
    <3>. QED  BY <3>1, <3>2 DEF In
  <2>3. ASSUME In(f, t) PROVE In(f, u)
    <3>1. PICK n \in DOMAIN t : t[n] = f
      BY <2>3 DEF In
    <3>2. n + Len(s) \in DOMAIN u /\ u[n + Len(s)] = t[n]
      BY <1>1, <1>2, <1>3
    <3>. QED  BY <3>1, <3>2 DEF In
  <2>. QED  BY <2>1, <2>2, <2>3
<1>. QED  BY <1>2, <1>5, <1>6 DEF Ordered, u

\* the lists that main_cpu_init is made of
LEMMA Pieces ==
  LET first == {<<"vcpu_init", "setup_memory", "memory_init", "setup_interrupt", "interrupt_init">>,
                <<"setup_memory", "memory_init", "setup_interrupt", "interrupt_init">>}
      wake  == {<<"wake">>, <<>>}
      rest  == <<"setup_timer", "timer_init", "guest_init", "vdev_init", "tests",
                 "guest_sched_start">>
  IN /\ \A s \in first :
          /\ s \in Seq(DOMAIN Rank) /\ Ordered(s) /\ \A n \in DOMAIN s : Rank[s[n]] <= 5
          /\ In("setup_memory", s) /\ In("memory_init", s) /\ In("setup_interrupt", s)
          /\ In("interrupt_init", s)
     /\ \A s \in wake :
          s \in Seq(DOMAIN Rank) /\ Ordered(s) /\ \A n \in DOMAIN s : Rank[s[n]] = 6
     /\ rest \in Seq(DOMAIN Rank) /\ Ordered(rest) /\ (\A n \in DOMAIN rest : Rank[rest[n]] > 6)
     /\ In("guest_init", rest) /\ In("vdev_init", rest)
<1>1. ASSUME NEW s \in {<<"vcpu_init", "setup_memory", "memory_init", "setup_interrupt",
                           "interrupt_init">>,
                         <<"setup_memory", "memory_init", "setup_interrupt", "interrupt_init">>}
      PROVE  /\ s \in Seq(DOMAIN Rank) /\ Ordered(s) /\ \A n \in DOMAIN s : Rank[s[n]] <= 5
             /\ In("setup_memory", s) /\ In("memory_init", s) /\ In("setup_interrupt", s)
             /\ In("interrupt_init", s)
  <2>1. CASE s = <<"setup_memory", "memory_init", "setup_interrupt", "interrupt_init">>
    <3>1. /\ DOMAIN s = 1 .. 4 /\ s[1] = "setup_memory" /\ s[2] = "memory_init"
          /\ s[3] = "setup_interrupt" /\ s[4] = "interrupt_init" /\ s \in Seq(DOMAIN Rank)
      BY <2>1, Ranks
    <3>2. Rank[s[1]] = 2 /\ Rank[s[2]] = 3 /\ Rank[s[3]] = 4 /\ Rank[s[4]] = 5
      BY <3>1 DEF Rank
    <3>. QED  BY <3>1, <3>2 DEF Ordered, In
  <2>2. CASE s = <<"vcpu_init", "setup_memory", "memory_init", "setup_interrupt",
                   "interrupt_init">>
    <3>1. /\ DOMAIN s = 1 .. 5 /\ s[1] = "vcpu_init" /\ s[2] = "setup_memory"
          /\ s[3] = "memory_init" /\ s[4] = "setup_interrupt" /\ s[5] = "interrupt_init"
          /\ s \in Seq(DOMAIN Rank)
      BY <2>2, Ranks
    <3>2. /\ Rank[s[1]] = 1 /\ Rank[s[2]] = 2 /\ Rank[s[3]] = 3 /\ Rank[s[4]] = 4
          /\ Rank[s[5]] = 5
      BY <3>1 DEF Rank
    <3>. QED  BY <3>1, <3>2 DEF Ordered, In
  <2>. QED  BY <2>1, <2>2
<1>2. ASSUME NEW s \in {<<"wake">>, <<>>}
      PROVE  s \in Seq(DOMAIN Rank) /\ Ordered(s) /\ \A n \in DOMAIN s : Rank[s[n]] = 6
  <2>1. CASE s = <<"wake">>
    BY <2>1, Ranks DEF Rank, Ordered
  <2>2. CASE s = <<>>
    BY <2>2 DEF Ordered
  <2>. QED  BY <2>1, <2>2
<1>3. LET rest  == <<"setup_timer", "timer_init", "guest_init", "vdev_init", "tests",
                     "guest_sched_start">>
      IN /\ rest \in Seq(DOMAIN Rank) /\ Ordered(rest) /\ (\A n \in DOMAIN rest : Rank[rest[n]] > 6)
         /\ In("guest_init", rest) /\ In("vdev_init", rest)
  BY DEF Rank, Ordered, In
<1>. QED  BY <1>1, <1>2, <1>3

LEMMA InitInv == Init => IInv
<1>. SUFFICES ASSUME Init PROVE IInv
  OBVIOUS
<1>1. PICK first \in {<<"vcpu_init", "setup_memory", "memory_init", "setup_interrupt",
                        "interrupt_init">>,
                      <<"setup_memory", "memory_init", "setup_interrupt", "interrupt_init">>},
           wake \in {<<"wake">>, <<>>} :
        todo[0] = (first \o wake) \o <<"setup_timer", "timer_init", "guest_init", "vdev_init",
                                       "tests", "guest_sched_start">>
  <2>1. todo[0] = IF build.board = "rtsm" THEN RtsmOrder(build.smp) ELSE ArndaleOrder(build.smp)
    BY DEF Init, Cpus
  <2>2. PICK wake \in {<<"wake">>, <<>>} : wake = IF build.smp THEN <<"wake">> ELSE <<>>
    OBVIOUS
  <2>3. CASE build.board = "rtsm"
    <3>1. todo[0] = RtsmOrder(build.smp)
      BY <2>1, <2>3
    <3>. QED  BY <2>2, <3>1, Zenon DEF RtsmOrder
  <2>4. CASE build.board # "rtsm"
    <3>1. todo[0] = ArndaleOrder(build.smp)
      BY <2>1, <2>4
    <3>. QED  BY <2>2, <3>1, Zenon DEF ArndaleOrder
  <2>. QED  BY <2>3, <2>4
<1>. DEFINE rest == <<"setup_timer", "timer_init", "guest_init", "vdev_init", "tests",
                      "guest_sched_start">>
<1>2. todo[0] = (first \o wake) \o rest
  BY <1>1
<1>3. /\ first \in Seq(DOMAIN Rank) /\ Ordered(first) /\ \A n \in DOMAIN first : Rank[first[n]] <= 5
      /\ In("setup_memory", first) /\ In("memory_init", first) /\ In("setup_interrupt", first)
      /\ In("interrupt_init", first)
      /\ wake \in Seq(DOMAIN Rank) /\ Ordered(wake) /\ \A n \in DOMAIN wake : Rank[wake[n]] = 6
      /\ rest \in Seq(DOMAIN Rank) /\ Ordered(rest) /\ (\A n \in DOMAIN rest : Rank[rest[n]] > 6)
      /\ In("guest_init", rest) /\ In("vdev_init", rest)
  BY <1>1, Pieces
<1>. HIDE DEF rest
<1>4. ASSUME NEW s \in Seq(DOMAIN Rank), NEW n \in DOMAIN s PROVE Rank[s[n]] \in 1 .. 12
  BY Ranks, LenProperties
<1>5. /\ first \o wake \in Seq(DOMAIN Rank) /\ Ordered(first \o wake)
      /\ \A f : In(f, first \o wake) <=> In(f, first) \/ In(f, wake)
  <2>1. ASSUME NEW m \in DOMAIN first, NEW n \in DOMAIN wake
        PROVE  Rank[first[m]] < Rank[wake[n]]
    <3>1. Rank[first[m]] <= 5 /\ Rank[wake[n]] = 6 /\ Rank[first[m]] \in 1 .. 12
      BY <1>3, <1>4
    <3>. QED  BY <3>1
  <2>. QED  BY <1>3, <2>1, Joined
<1>6. /\ todo[0] \in Seq(DOMAIN Rank) /\ Ordered(todo[0])
      /\ \A f : In(f, todo[0]) <=> In(f, first \o wake) \/ In(f, rest)
  <2>1. ASSUME NEW m \in DOMAIN (first \o wake), NEW n \in DOMAIN rest
        PROVE  Rank[(first \o wake)[m]] < Rank[rest[n]]
    <3>1. In((first \o wake)[m], first \o wake)
      BY DEF In
    <3>2. In((first \o wake)[m], first) \/ In((first \o wake)[m], wake)
      BY <1>5, <3>1
    <3>3. PICK x \in 1 .. 12 : x = Rank[(first \o wake)[m]]
      BY <1>4, <1>5
    <3>4. x <= 6
      <4>1. CASE In((first \o wake)[m], first)
        <5>1. PICK p \in DOMAIN first : first[p] = (first \o wake)[m]
          BY <4>1 DEF In
        <5>2. Rank[first[p]] <= 5
          BY <1>3
        <5>3. x <= 5
          BY <3>3, <5>1, <5>2
        <5>. QED  BY <5>3
      <4>2. CASE In((first \o wake)[m], wake)
        <5>1. PICK p \in DOMAIN wake : wake[p] = (first \o wake)[m]
          BY <4>2 DEF In
        <5>2. Rank[wake[p]] = 6
          BY <1>3
        <5>3. x = 6
          BY <3>3, <5>1, <5>2
        <5>. QED  BY <5>3
      <4>. QED  BY <3>2, <4>1, <4>2
    <3>5. PICK y \in 1 .. 12 : y = Rank[rest[n]]
      BY <1>3, <1>4
    <3>6. y > 6
      BY <1>3, <3>5
    <3>. QED  BY <3>3, <3>4, <3>5, <3>6
  <2>2. \A m \in DOMAIN (first \o wake), n \in DOMAIN rest :
          Rank[(first \o wake)[m]] < Rank[rest[n]]
    BY <2>1
  <2>. DEFINE w == first \o wake
  <2>3. w \in Seq(DOMAIN Rank) /\ Ordered(w)
        /\ \A m \in DOMAIN w, n \in DOMAIN rest : Rank[w[m]] < Rank[rest[n]]
    BY <1>5, <2>2
  <2>. HIDE DEF w
  <2>4. /\ w \o rest \in Seq(DOMAIN Rank) /\ Ordered(w \o rest)
        /\ \A f : In(f, w \o rest) <=> In(f, w) \/ In(f, rest)
    BY <1>3, <2>3, Joined
  <2>5. todo[0] = w \o rest
    BY <1>2 DEF w
  <2>6. todo[0] \in Seq(DOMAIN Rank) /\ Ordered(todo[0])
        /\ \A f : In(f, todo[0]) <=> In(f, w) \/ In(f, rest)
    BY <2>4, <2>5, Zenon
  <2>. QED  BY <2>6, Zenon DEF w
<1>7. Sorted
  BY <1>6 DEF Sorted, Ordered
<1>8. \A f : In(f, first) \/ In(f, rest) => ~ Called(f)
  BY <1>5, <1>6 DEF Called, Remains, In
<1>9. Effects
  <2>1. /\ ~ Called("setup_memory") /\ ~ Called("memory_init") /\ ~ Called("setup_interrupt")
        /\ ~ Called("interrupt_init") /\ ~ Called("guest_init") /\ ~ Called("vdev_init")
    BY <1>3, <1>8
  <2>2. \A l \in DOMAIN Modules : vdevs.size[l] = 0
    BY DEF Init
  <2>. QED  BY <2>1, <2>2 DEF Effects, GuestsPlaced, MemoryReady, MapReady, InterruptsReady,
                              ContextsReady, DevicesReady
<1>10. Passed
  BY DEF Init, Passed, Cpus
<1>11. BootTypeOK
  <2>1. todo \in [Cpus -> Seq(DOMAIN Rank)]
    <3>1. SecondOrder \in Seq(DOMAIN Rank)
      BY Ranks DEF SecondOrder
    <3>2. DOMAIN todo = Cpus /\ todo[1] = SecondOrder
      BY DEF Init, Cpus
    <3>3. todo = [c \in Cpus |-> todo[c]]
      BY DEF Init
    <3>. QED  BY <1>6, <3>1, <3>2, <3>3 DEF Cpus
  <2>2. vcpus \in [0..3 -> Vcpu]
    BY DEF Init, Vcpu, NoVmid
  <2>3. irqs \in Irqs
    <3>1. [c \in Cpus |-> [x \in Private |-> None]] \in [Cpus -> [Private -> Handlers]]
      BY DEF Handlers, Callbacks
    <3>. QED  BY <3>1 DEF Init, Irqs
  <2>4. vdevs \in [size : [DOMAIN Modules -> Nat], reset : BOOLEAN]
    BY DEF Init
  <2>5. sched \in [current : [Cpus -> Int], next : [Cpus -> Int], ticks : [Cpus -> Int]]
    BY DEF Init, NoVmid
  <2>6. timer \in Timer
    <3>1. PICK m \in [Cpus -> BOOLEAN] :
            timer = [irq |-> 0, callback |-> [c \in Cpus |-> None],
                     enable |-> [c \in Cpus |-> FALSE], imask |-> m,
                     counting |-> build.board = "rtsm"]
      BY DEF Init
    <3>2. [c \in Cpus |-> None] \in [Cpus -> Callbacks] /\ [c \in Cpus |-> FALSE] \in [Cpus -> BOOLEAN]
          /\ (build.board = "rtsm") \in BOOLEAN
      BY DEF Handlers, Callbacks
    <3>. QED  BY <3>1, <3>2 DEF Timer
  <2>7. gic \in Gic
    BY DEF Init, Gic
  <2>8. /\ build \in [board : {"rtsm", "arndale"}, smp : BOOLEAN, tests : Tests]
        /\ woken \in BOOLEAN /\ hyp \in [tables : {<<>>, HostTable}, heap : BOOLEAN]
        /\ regs \in [Cpus -> SUBSET Registers] /\ vgic \in Vgic
    BY DEF Init, Vgic
  <2>. QED  BY <2>1, <2>2, <2>3, <2>4, <2>5, <2>6, <2>7, <2>8 DEF BootTypeOK
<1>. QED  BY <1>7, <1>9, <1>10, <1>11 DEF IInv

\* A call leaves what the others have done as it was.
LEMMA Stays ==
  ASSUME BootTypeOK, Sorted, Effects, NEW c \in Cpus, NEW f, Calls(c, f)
  PROVE  /\ /\ f # "setup_memory" /\ \A g \in 0..3 : vcpus'[g].placed = vcpus[g].placed
            => GuestsPlaced'
         /\ /\ f # "memory_init" \/ c = 1
            /\ hyp' = hyp /\ regs[0] \subseteq regs'[0]
            /\ \A g \in 0..3 : vcpus'[g].tables = vcpus[g].tables
            => MemoryReady'
         /\ f # "setup_interrupt" /\ irqs'.map = irqs.map => MapReady'
         /\ /\ f # "interrupt_init" \/ c = 1
            /\ (irqs.ops => irqs'.ops) /\ (irqs.mapped => irqs'.mapped)
            /\ (gic.base => gic'.base) /\ (gic.dist => gic'.dist)
            /\ (vgic.base => vgic'.base) /\ (vgic.on[0] => vgic'.on[0])
            /\ gic.forwarded[0] \subseteq gic'.forwarded[0]
            => InterruptsReady'
         /\ /\ f # "guest_init" \/ c = 1
            /\ \A g \in Own(0) : vcpus'[g].ready = vcpus[g].ready /\ vcpus'[g].vmid = vcpus[g].vmid
            => ContextsReady'
         /\ /\ f # "vdev_init" \/ c = 1
            /\ vdevs'.size = vdevs.size /\ (vdevs.reset => vdevs'.reset)
            => DevicesReady'
<1>1. /\ build' = build
      /\ \A g : g # f \/ c = 1 => (Called(g)' <=> Called(g))
  BY CallFirst
<1>2. Guests' = Guests /\ Guests \subseteq 0..3 /\ Own(0) = 0..1 /\ 0..1 \subseteq 0..3
  BY <1>1 DEF Guests, Own, FirstVmid, LastVmid
<1>3. ASSUME f # "setup_memory", \A g \in 0..3 : vcpus'[g].placed = vcpus[g].placed
      PROVE  GuestsPlaced'
  BY <1>1, <1>2, <1>3 DEF GuestsPlaced, Effects
<1>4. ASSUME f # "memory_init" \/ c = 1, hyp' = hyp, regs[0] \subseteq regs'[0],
             \A g \in 0..3 : vcpus'[g].tables = vcpus[g].tables
      PROVE  MemoryReady'
  BY <1>1, <1>2, <1>4 DEF MemoryReady, Effects
<1>5. ASSUME f # "setup_interrupt", irqs'.map = irqs.map PROVE MapReady'
  BY <1>1, <1>5 DEF MapReady, Effects
<1>6. ASSUME f # "interrupt_init" \/ c = 1,
             (irqs.ops => irqs'.ops) /\ (irqs.mapped => irqs'.mapped),
             (gic.base => gic'.base) /\ (gic.dist => gic'.dist),
             (vgic.base => vgic'.base) /\ (vgic.on[0] => vgic'.on[0]),
             gic.forwarded[0] \subseteq gic'.forwarded[0]
      PROVE  InterruptsReady'
  BY <1>1, <1>6 DEF InterruptsReady, Effects
<1>7. ASSUME f # "guest_init" \/ c = 1,
             \A g \in Own(0) : vcpus'[g].ready = vcpus[g].ready /\ vcpus'[g].vmid = vcpus[g].vmid
      PROVE  ContextsReady'
  BY <1>1, <1>7 DEF ContextsReady, Effects
<1>8. ASSUME f # "vdev_init" \/ c = 1, vdevs'.size = vdevs.size, vdevs.reset => vdevs'.reset
      PROVE  DevicesReady'
  BY <1>1, <1>8 DEF DevicesReady, Effects
<1>. QED  BY <1>3, <1>4, <1>5, <1>6, <1>7, <1>8

\* The calls that change no more than a variable nothing of this depends on.
LEMMA VcpuInitStep ==
  ASSUME IInv, NEW c \in Cpus, VcpuInit(c)
  PROVE  IInv'
<1>0. /\ BootTypeOK /\ Sorted /\ Effects /\ Passed /\ Calls(c, "vcpu_init")
      /\ woken' = woken /\ hyp' = hyp /\ regs' = regs /\ irqs' = irqs /\ gic' = gic
      /\ vgic' = vgic /\ timer' = timer /\ vdevs' = vdevs /\ sched' = sched
  BY DEF IInv, VcpuInit
<1>1. Sorted' /\ Passed' /\ todo' \in [Cpus -> Seq(DOMAIN Rank)] /\ build' = build
  BY <1>0, CallFirst, PassedStays
<1>2. vcpus' = [g \in 0..3 |-> IF g \in Guests THEN [vcpus[g] EXCEPT !.slice = 5] ELSE vcpus[g]]
  BY <1>0 DEF VcpuInit, BootTypeOK
<1>3. ASSUME NEW g \in 0..3
      PROVE  /\ vcpus'[g] \in Vcpu /\ vcpus'[g].placed = vcpus[g].placed
             /\ vcpus'[g].tables = vcpus[g].tables /\ vcpus'[g].ready = vcpus[g].ready
             /\ vcpus'[g].vmid = vcpus[g].vmid
  <2>1. vcpus[g] \in Vcpu
    BY <1>0 DEF BootTypeOK
  <2>2. vcpus'[g] = vcpus[g] \/ vcpus'[g] = [vcpus[g] EXCEPT !.slice = 5]
    BY <1>2
  <2>. QED  BY <2>1, <2>2 DEF Vcpu
<1>4. vcpus' \in [0..3 -> Vcpu]
  BY <1>2, <1>3
<1>5. BootTypeOK'
  BY <1>0, <1>1, <1>4 DEF BootTypeOK
<1>6. Effects'
  <2>1. Own(0) \subseteq 0..3
    BY DEF Own, FirstVmid, LastVmid
  <2>. QED  BY <1>0, <1>3, <2>1, Stays DEF Effects
<1>. QED  BY <1>1, <1>5, <1>6 DEF IInv

LEMMA SetupMemoryStep ==
  ASSUME IInv, NEW c \in Cpus, SetupMemory(c)
  PROVE  IInv'
<1>0. /\ BootTypeOK /\ Sorted /\ Effects /\ Passed /\ Calls(c, "setup_memory")
      /\ woken' = woken /\ hyp' = hyp /\ regs' = regs /\ irqs' = irqs /\ gic' = gic
      /\ vgic' = vgic /\ timer' = timer /\ vdevs' = vdevs /\ sched' = sched
  BY DEF IInv, SetupMemory
<1>1. /\ Sorted' /\ Passed' /\ todo' \in [Cpus -> Seq(DOMAIN Rank)] /\ build' = build
  BY <1>0, CallFirst, PassedStays
<1>2. vcpus' = [g \in 0..3 |-> [vcpus[g] EXCEPT !.placed = g \in Guests]]
  BY <1>0 DEF SetupMemory, BootTypeOK
<1>3. ASSUME NEW g \in 0..3
      PROVE  /\ vcpus'[g] \in Vcpu /\ (g \in Guests => vcpus'[g].placed = TRUE)
             /\ vcpus'[g].tables = vcpus[g].tables /\ vcpus'[g].ready = vcpus[g].ready
             /\ vcpus'[g].vmid = vcpus[g].vmid
  <2>1. vcpus[g] \in Vcpu
    BY <1>0 DEF BootTypeOK
  <2>2. CASE g \in Guests
    <3>1. vcpus'[g] = [vcpus[g] EXCEPT !.placed = TRUE]
      <4>1. (g \in Guests) = TRUE
        BY <2>2
      <4>. QED  BY <1>2, <4>1, Zenon
    <3>. QED  BY <2>1, <3>1 DEF Vcpu
  <2>3. CASE g \notin Guests
    <3>1. vcpus'[g] = [vcpus[g] EXCEPT !.placed = FALSE]
      <4>1. (g \in Guests) = FALSE
        BY <2>3
      <4>. QED  BY <1>2, <4>1, Zenon
    <3>. QED  BY <2>1, <2>3, <3>1 DEF Vcpu
  <2>. QED  BY <2>2, <2>3
<1>4. vcpus' \in [0..3 -> Vcpu]
  BY <1>2, <1>3
<1>5. BootTypeOK'
  BY <1>0, <1>1, <1>4 DEF BootTypeOK
<1>6. GuestsPlaced'
  <2>1. Guests' = Guests /\ Guests \subseteq 0..3
    BY <1>1 DEF Guests
  <2>2. ASSUME NEW g \in Guests' PROVE vcpus'[g].placed
    <3>1. vcpus'[g].placed = TRUE
      BY <1>3, <2>1
    <3>. QED  BY <3>1
  <2>. QED  BY <2>2 DEF GuestsPlaced
<1>7. MemoryReady' /\ MapReady' /\ InterruptsReady' /\ ContextsReady' /\ DevicesReady'
  <2>1. Own(0) \subseteq 0..3
    BY DEF Own, FirstVmid, LastVmid
  <2>. QED  BY <1>0, <1>3, <2>1, Stays
<1>. QED  BY <1>1, <1>5, <1>6, <1>7 DEF IInv, Effects

LEMMA MemoryInitStep ==
  ASSUME IInv, NEW c \in Cpus, MemoryInit(c)
  PROVE  IInv'
<1>. DEFINE lists == [g \in 0..3 |-> IF g \in 0..1 THEN FirstVmid(c) + g ELSE vcpus[g].list]
<1>0. /\ BootTypeOK /\ Sorted /\ Effects /\ Passed /\ Calls(c, "memory_init")
      /\ hyp' = IF c = 0 THEN [tables |-> HostTable, heap |-> TRUE] ELSE hyp
      /\ regs' = [regs EXCEPT ![c] = regs[c] \cup GuestMmu \cup MemoryEnable]
      /\ woken' = woken /\ irqs' = irqs /\ gic' = gic
      /\ vgic' = vgic /\ timer' = timer /\ vdevs' = vdevs /\ sched' = sched
  BY DEF IInv, MemoryInit
<1>1. /\ Sorted' /\ Passed' /\ todo' \in [Cpus -> Seq(DOMAIN Rank)] /\ build' = build
  BY <1>0, CallFirst, PassedStays
<1>. DEFINE built == GuestMemoryInit(c, lists)
<1>2. PICK t \in [0..3 -> UNION {built[g] : g \in 0..3}] :
        /\ \A g \in 0..3 : t[g] \in built[g]
        /\ vcpus' = [g \in 0..3 |-> [vcpus[g] EXCEPT !.list = lists[g], !.tables = t[g]]]
  BY Zenon DEF MemoryInit
<1>3. ASSUME NEW g \in 0..3 PROVE lists[g] \in Int /\ vcpus[g] \in Vcpu
  <2>1. vcpus[g] \in Vcpu /\ vcpus[g].list \in Int
    BY <1>0 DEF BootTypeOK, Vcpu
  <2>2. FirstVmid(c) + g \in Int
    BY DEF FirstVmid, Cpus
  <2>3. lists[g] = FirstVmid(c) + g \/ lists[g] = vcpus[g].list
    OBVIOUS
  <2>. QED  BY <2>1, <2>2, <2>3
<1>4. c = 0 => lists[0] = 0 /\ lists[1] = 1
  BY DEF FirstVmid
<1>. HIDE DEF lists
<1>5. ASSUME NEW g \in 0..3
      PROVE  /\ t[g] \in Int
             /\ c = 1 => t[g] = vcpus[g].tables
             /\ c = 0 /\ g \in 0..1 => t[g] = g
  <2>0. /\ vcpus[g].tables \in Int /\ t[g] \in GuestMemoryInit(c, lists)[g]
    BY <1>2, <1>3 DEF Vcpu
  <2>1. CASE c = 0 /\ g \in Guests
    <3>1. t[g] \in Tables(g, lists[g])
      BY <2>0, <2>1 DEF GuestMemoryInit
    <3>2. g \in 0..1 => g = 0 \/ g = 1
      OBVIOUS
    <3>. QED  BY <1>3, <1>4, <2>1, <3>1, <3>2 DEF Tables, NoVmid, Junk
  <2>2. CASE ~ (c = 0 /\ g \in Guests)
    <3>1. t[g] = vcpus[g].tables
      BY <2>0, <2>2 DEF GuestMemoryInit
    <3>2. 0..1 \subseteq Guests
      BY DEF Guests
    <3>. QED  BY <2>0, <2>2, <3>1, <3>2
  <2>. QED  BY <2>1, <2>2
<1>6. ASSUME NEW g \in 0..3
      PROVE  /\ vcpus'[g] \in Vcpu /\ vcpus'[g].placed = vcpus[g].placed
             /\ vcpus'[g].tables = t[g] /\ vcpus'[g].ready = vcpus[g].ready
             /\ vcpus'[g].vmid = vcpus[g].vmid
  <2>1. vcpus'[g] = [vcpus[g] EXCEPT !.list = lists[g], !.tables = t[g]]
    BY <1>2
  <2>. QED  BY <1>3, <1>5, <2>1 DEF Vcpu
<1>7. vcpus' \in [0..3 -> Vcpu]
  BY <1>2, <1>6
<1>8. /\ regs' \in [Cpus -> SUBSET Registers] /\ regs[0] \subseteq regs'[0]
      /\ c = 0 => MemoryEnable \cup GuestMmu \subseteq regs'[0]
  BY <1>0 DEF BootTypeOK, Registers, Cpus
<1>9. BootTypeOK'
  <2>1. hyp' \in [tables : {<<>>, HostTable}, heap : BOOLEAN]
    BY <1>0 DEF BootTypeOK
  <2>. QED  BY <1>0, <1>1, <1>7, <1>8, <2>1 DEF BootTypeOK
<1>10. Own(0) = 0..1 /\ 0..1 \subseteq 0..3
  BY DEF Own, FirstVmid, LastVmid
<1>11. MemoryReady'
  <2>1. CASE c = 0
    <3>1. hyp'.tables = HostTable /\ hyp'.heap
      BY <1>0, <2>1
    <3>2. \A g \in Own(0) : vcpus'[g].tables = g
      BY <1>5, <1>6, <1>10, <2>1
    <3>. QED  BY <1>8, <2>1, <3>1, <3>2 DEF MemoryReady
  <2>2. CASE c = 1
    <3>1. hyp' = hyp /\ \A g \in 0..3 : vcpus'[g].tables = vcpus[g].tables
      BY <1>0, <1>5, <1>6, <2>2
    <3>. QED  BY <1>0, <1>8, <2>2, <3>1, Stays
  <2>. QED  BY <2>1, <2>2 DEF Cpus
<1>12. GuestsPlaced' /\ MapReady' /\ InterruptsReady' /\ ContextsReady' /\ DevicesReady'
  BY <1>0, <1>6, <1>10, Stays
<1>. QED  BY <1>1, <1>9, <1>11, <1>12 DEF IInv, Effects

LEMMA SetupInterruptStep ==
  ASSUME IInv, NEW c \in Cpus, SetupInterrupt(c)
  PROVE  IInv'
<1>. DEFINE board == IF build.board = "rtsm" THEN RtsmMap ELSE ArndaleMap
<1>0. /\ BootTypeOK /\ Sorted /\ Effects /\ Passed /\ Calls(c, "setup_interrupt")
      /\ irqs' = [irqs EXCEPT !.map = {m \in board : m[1] \in Guests}]
      /\ woken' = woken /\ vcpus' = vcpus /\ hyp' = hyp /\ regs' = regs /\ gic' = gic
      /\ vgic' = vgic /\ timer' = timer /\ vdevs' = vdevs /\ sched' = sched
  BY DEF IInv, SetupInterrupt
<1>1. /\ Sorted' /\ Passed' /\ todo' \in [Cpus -> Seq(DOMAIN Rank)] /\ build' = build
  BY <1>0, CallFirst, PassedStays
<1>2. board \subseteq RtsmMap \cup ArndaleMap /\ \E m \in board : m[1] = 0
  BY MapGiven
<1>. HIDE DEF board
<1>3. /\ irqs'.map = {m \in board : m[1] \in Guests}
      /\ irqs'.ops = irqs.ops /\ irqs'.mapped = irqs.mapped
      /\ irqs' \in Irqs
  <2>1. irqs \in Irqs
    BY <1>0 DEF BootTypeOK
  <2>. DEFINE given == {m \in board : m[1] \in Guests}
  <2>2. given \in SUBSET (RtsmMap \cup ArndaleMap) /\ irqs' = [irqs EXCEPT !.map = given]
    BY <1>0, <1>2
  <2>. HIDE DEF given
  <2>3. /\ irqs'.map = given /\ irqs'.ops = irqs.ops /\ irqs'.mapped = irqs.mapped
        /\ irqs' \in Irqs
    BY <2>1, <2>2 DEF Irqs
  <2>. QED  BY <2>3 DEF given
<1>4. BootTypeOK'
  <2>1. irqs' \in Irqs
    BY <1>3, Zenon
  <2>2. /\ build' \in [board : {"rtsm", "arndale"}, smp : BOOLEAN, tests : Tests]
        /\ vcpus' \in [0..3 -> Vcpu]
        /\ woken' \in BOOLEAN /\ hyp' \in [tables : {<<>>, HostTable}, heap : BOOLEAN]
    BY <1>0, <1>1 DEF BootTypeOK
  <2>. QED  BY <1>0, <1>1, <2>1, <2>2, Zenon DEF BootTypeOK
<1>5. MapReady'
  <2>1. 0 \in Guests
    BY DEF Guests
  <2>. QED  BY <1>2, <1>3, <2>1 DEF MapReady
<1>6. GuestsPlaced' /\ MemoryReady' /\ InterruptsReady' /\ ContextsReady' /\ DevicesReady'
  BY <1>0, <1>3, Stays
<1>. QED  BY <1>1, <1>4, <1>5, <1>6 DEF IInv, Effects

LEMMA WakeStep ==
  ASSUME IInv, NEW c \in Cpus, Wake(c)
  PROVE  IInv'
<1>0. /\ BootTypeOK /\ Sorted /\ Effects /\ Passed /\ Calls(c, "wake") /\ woken' = TRUE
      /\ vcpus' = vcpus /\ hyp' = hyp /\ regs' = regs /\ irqs' = irqs /\ gic' = gic
      /\ vgic' = vgic /\ timer' = timer /\ vdevs' = vdevs /\ sched' = sched
  BY DEF IInv, Wake
<1>1. /\ Sorted' /\ todo' \in [Cpus -> Seq(DOMAIN Rank)] /\ build' = build
      /\ todo[c] # <<>> /\ (c = 1 => woken)
      /\ \A g : g # "wake" \/ c = 1 => (Called(g)' <=> Called(g))
      /\ c = 1 => todo'[0] = todo[0]
      /\ c = 0 => \A g \in DOMAIN Rank : Rank[g] < Rank["wake"] => Called(g)
  BY <1>0, CallFirst
<1>2. BootTypeOK'
  BY <1>0, <1>1 DEF BootTypeOK
<1>3. Effects'
  BY <1>0, Stays DEF Effects
<1>4. Passed'
  <2>1. ASSUME NEW g \in DOMAIN Rank, Rank[g] < Rank["wake"] PROVE Called(g)'
    <3>1. Called(g)
      BY <1>0, <1>1, <2>1 DEF Passed, Cpus
    <3>2. g # "wake"
      BY <2>1 DEF Rank
    <3>. QED  BY <1>1, <3>1, <3>2
  <2>2. sched'.current[0] # NoVmid => todo'[0] = <<>>
    BY <1>0, <1>1 DEF Passed, Cpus
  <2>. QED  BY <2>1, <2>2 DEF Passed, Called, Remains
<1>. QED  BY <1>1, <1>2, <1>3, <1>4 DEF IInv

LEMMA RequestType ==
  ASSUME NEW table \in [Cpus -> [Private -> Handlers]], NEW c \in Cpus, NEW irq,
         NEW handler \in Handlers
  PROVE  Request(table, c, irq, handler) \in [Cpus -> [Private -> Handlers]]
<1>1. table[c] \in [Private -> Handlers]
  OBVIOUS
<1>2. [table[c] EXCEPT ![irq] = handler] \in [Private -> Handlers]
  BY <1>1
<1>3. Request(table, c, irq, handler) = [table EXCEPT ![c] = [table[c] EXCEPT ![irq] = handler]]
  BY DEF Request
<1>. QED  BY <1>2, <1>3

\* What is forwarded to a CPU grows, except when its interface is set up.
LEMMA Configured ==
  ASSUME NEW g \in Gic, NEW c \in Cpus, NEW irq \in Int
  PROVE  /\ Configure(g, c, irq) \in Gic
         /\ Configure(g, c, irq).base = g.base /\ Configure(g, c, irq).dist = g.dist
         /\ \A d \in Cpus : g.forwarded[d] \subseteq Configure(g, c, irq).forwarded[d]
         /\ irq \in Configure(g, c, irq).forwarded[c]
<1>. DEFINE more == [g.forwarded EXCEPT ![c] = g.forwarded[c] \cup {irq}]
<1>1. g.forwarded \in [Cpus -> SUBSET Int]
  BY DEF Gic
<1>2. /\ more \in [Cpus -> SUBSET Int] /\ irq \in more[c]
      /\ \A d \in Cpus : g.forwarded[d] \subseteq more[d]
  BY <1>1
<1>3. Configure(g, c, irq) = [g EXCEPT !.forwarded = more]
  BY DEF Configure
<1>. HIDE DEF more
<1>. QED  BY <1>2, <1>3 DEF Gic

LEMMA GicInitType ==
  ASSUME gic \in Gic, NEW c \in Cpus
  PROVE  /\ GicInit(c) \in Gic
         /\ gic.base \/ c = 0 => GicInit(c).base
         /\ gic.dist \/ c = 0 => GicInit(c).dist
         /\ \A d \in Cpus : d # c => GicInit(c).forwarded[d] = gic.forwarded[d]
<1>. DEFINE first == [gic.forwarded EXCEPT ![c] = (gic.forwarded[c] \ Private) \cup Sgis]
            base  == gic.base \/ c = 0
            dist  == gic.dist \/ c = 0
            on    == [gic.cpuif EXCEPT ![c] = TRUE]
<1>1. gic.forwarded \in [Cpus -> SUBSET Int] /\ gic.cpuif \in [Cpus -> BOOLEAN]
  BY DEF Gic
<1>2. /\ first \in [Cpus -> SUBSET Int] /\ on \in [Cpus -> BOOLEAN]
      /\ \A d \in Cpus : d # c => first[d] = gic.forwarded[d]
  BY <1>1 DEF Sgis
<1>3. base \in BOOLEAN /\ dist \in BOOLEAN
  BY DEF Gic
<1>4. GicInit(c) = [gic EXCEPT !.base = base, !.dist = dist, !.initialized = TRUE,
                               !.forwarded = first, !.cpuif = on]
  BY Zenon DEF GicInit, GicBase
<1>5. base = (gic.base \/ c = 0) /\ dist = (gic.dist \/ c = 0)
  OBVIOUS
<1>. HIDE DEF first, base, dist, on
<1>6. /\ GicInit(c) \in Gic /\ GicInit(c).base = base /\ GicInit(c).dist = dist
      /\ GicInit(c).forwarded = first
  BY <1>2, <1>3, <1>4 DEF Gic
<1>. QED  BY <1>2, <1>5, <1>6

LEMMA InterruptInitStep ==
  ASSUME IInv, NEW c \in Cpus, InterruptInit(c)
  PROVE  IInv'
<1>0. /\ BootTypeOK /\ Sorted /\ Effects /\ Passed /\ Calls(c, "interrupt_init")
      /\ regs' = [regs EXCEPT ![c] = regs[c] \cup {"imo"}]
      /\ gic' = Configure(GicInit(c), c, MaintenanceIrq)
      /\ vgic' = [base |-> vgic.base \/ c = 0, on |-> [vgic.on EXCEPT ![c] = TRUE], queued |-> {}]
      /\ woken' = woken /\ vcpus' = vcpus /\ hyp' = hyp
      /\ timer' = timer /\ vdevs' = vdevs /\ sched' = sched
  BY DEF IInv, InterruptInit, HostInterruptInit, GuestInterruptInit, VgicInit
<1>1. /\ Sorted' /\ Passed' /\ todo' \in [Cpus -> Seq(DOMAIN Rank)] /\ build' = build
  BY <1>0, CallFirst, PassedStays
<1>2. irqs \in Irqs /\ gic \in Gic /\ vgic \in Vgic
      /\ regs \in [Cpus -> SUBSET Registers]
  BY <1>0 DEF BootTypeOK
<1>3. /\ regs' \in [Cpus -> SUBSET Registers] /\ regs[0] \subseteq regs'[0]
  BY <1>0, <1>2 DEF Registers, Cpus
<1>4. /\ gic' \in Gic
      /\ gic.base \/ c = 0 => gic'.base
      /\ gic.dist \/ c = 0 => gic'.dist
      /\ MaintenanceIrq \in gic'.forwarded[c]
      /\ c = 1 => gic.forwarded[0] \subseteq gic'.forwarded[0]
  <2>1. GicInit(c) \in Gic /\ MaintenanceIrq \in Int /\ 0 \in Cpus
    BY <1>2, GicInitType DEF MaintenanceIrq, Cpus
  <2>2. /\ gic.base \/ c = 0 => GicInit(c).base
        /\ gic.dist \/ c = 0 => GicInit(c).dist
        /\ c = 1 => GicInit(c).forwarded[0] = gic.forwarded[0]
    BY <1>2, <2>1, GicInitType
  <2>3. /\ gic' \in Gic /\ gic'.base = GicInit(c).base /\ gic'.dist = GicInit(c).dist
        /\ GicInit(c).forwarded[0] \subseteq gic'.forwarded[0]
        /\ MaintenanceIrq \in gic'.forwarded[c]
    BY <1>0, <2>1, Configured
  <2>. QED  BY <2>2, <2>3
<1>5. /\ vgic' \in Vgic
      /\ (vgic.base \/ c = 0 => vgic'.base)
      /\ (vgic.on[0] \/ c = 0 => vgic'.on[0])
  <2>. DEFINE base == vgic.base \/ c = 0
              on   == [vgic.on EXCEPT ![c] = TRUE]
  <2>1. base \in BOOLEAN /\ on \in [Cpus -> BOOLEAN] /\ (vgic.on[0] \/ c = 0 => on[0])
    BY <1>2 DEF Vgic, Cpus
  <2>2. vgic' = [base |-> base, on |-> on, queued |-> {}] /\ (base <=> (vgic.base \/ c = 0))
    BY <1>0
  <2>. HIDE DEF base, on
  <2>. QED  BY <2>1, <2>2 DEF Vgic
<1>6. /\ irqs' \in Irqs /\ irqs'.map = irqs.map
      /\ irqs.ops \/ c = 0 => irqs'.ops
      /\ irqs.mapped \/ c = 0 => irqs'.mapped
  <2>. DEFINE ops == irqs.ops \/ c = 0
              mapped == irqs.mapped \/ c = 0
              ppi == Request(irqs.ppi, c, MaintenanceIrq, "maintenance")
  <2>1. /\ ops \in BOOLEAN /\ (ops <=> (irqs.ops \/ c = 0))
        /\ mapped \in BOOLEAN /\ (mapped <=> (irqs.mapped \/ c = 0))
    BY <1>2 DEF Irqs
  <2>2. ppi \in [Cpus -> [Private -> Handlers]]
    BY <1>2, RequestType DEF Irqs, Handlers
  <2>3. irqs' = [irqs EXCEPT !.ops = ops, !.mapped = mapped, !.ppi = ppi]
    BY Zenon DEF InterruptInit, GuestInterruptInit, VgicInit
  <2>. HIDE DEF ops, mapped, ppi
  <2>. QED  BY <1>2, <2>1, <2>2, <2>3 DEF Irqs
<1>7. BootTypeOK'
  BY <1>0, <1>1, <1>3, <1>4, <1>5, <1>6 DEF BootTypeOK
<1>8. InterruptsReady'
  <2>1. CASE c = 0
    BY <1>4, <1>5, <1>6, <2>1 DEF InterruptsReady
  <2>2. CASE c = 1
    BY <1>0, <1>4, <1>5, <1>6, <2>2, Stays
  <2>. QED  BY <2>1, <2>2 DEF Cpus
<1>9. GuestsPlaced' /\ MemoryReady' /\ MapReady' /\ ContextsReady' /\ DevicesReady'
  BY <1>0, <1>3, <1>6, Stays
<1>. QED  BY <1>1, <1>7, <1>8, <1>9 DEF IInv, Effects

LEMMA TimerCtrlType ==
  ASSUME NEW t \in Timer, NEW c \in Cpus, NEW e \in BOOLEAN, NEW m \in BOOLEAN
  PROVE  TimerCtrl(t, c, e, m) \in Timer
<1>. DEFINE enable == [t.enable EXCEPT ![c] = e]
            imask  == [t.imask EXCEPT ![c] = m]
<1>1. enable \in [Cpus -> BOOLEAN] /\ imask \in [Cpus -> BOOLEAN]
  BY DEF Timer
<1>2. TimerCtrl(t, c, e, m) = [t EXCEPT !.enable = enable, !.imask = imask]
  BY Zenon DEF TimerCtrl
<1>. HIDE DEF enable, imask
<1>. QED  BY <1>1, <1>2 DEF Timer

LEMMA TimerSetType ==
  ASSUME timer \in Timer, NEW c \in Cpus, NEW f \in Callbacks
  PROVE  TimerSet(c, f) \in Timer /\ TimerStart(TimerStop(timer, c), c) \in Timer
<1>1. TimerStop(timer, c) \in Timer
  BY TimerCtrlType DEF TimerStop
<1>. DEFINE stopped == TimerStop(timer, c)
            callback == [stopped.callback EXCEPT ![c] = f]
            set == [stopped EXCEPT !.callback = callback]
<1>. HIDE DEF stopped
<1>2. stopped \in Timer /\ stopped = TimerStop(timer, c)
  BY <1>1 DEF stopped
<1>3. callback \in [Cpus -> Callbacks]
  BY <1>2 DEF Timer
<1>. HIDE DEF callback
<1>4. set \in Timer
  BY <1>2, <1>3 DEF Timer
<1>5. TimerSet(c, f) = TimerStart(set, c)
  BY <1>2, Zenon DEF TimerSet, callback
<1>. HIDE DEF set
<1>. QED  BY <1>1, <1>4, <1>5, TimerCtrlType DEF TimerStart

LEMMA SetupTimerStep ==
  ASSUME IInv, NEW c \in Cpus, SetupTimer(c)
  PROVE  IInv'
<1>0. /\ BootTypeOK /\ Sorted /\ Effects /\ Passed /\ Calls(c, "setup_timer")
      /\ woken' = woken /\ vcpus' = vcpus /\ hyp' = hyp /\ regs' = regs /\ irqs' = irqs
      /\ gic' = gic /\ vgic' = vgic /\ vdevs' = vdevs /\ sched' = sched
  BY DEF IInv, SetupTimer
<1>1. /\ Sorted' /\ Passed' /\ todo' \in [Cpus -> Seq(DOMAIN Rank)] /\ build' = build
  BY <1>0, CallFirst, PassedStays
<1>2. timer' \in Timer
  <2>1. timer \in Timer
    BY <1>0 DEF BootTypeOK
  <2>. DEFINE t == [timer EXCEPT !.irq = TimerIrq]
  <2>2. t \in Timer
    BY <2>1 DEF Timer
  <2>3. timer' = t \/ timer' = MctInit(t)
    BY DEF SetupTimer
  <2>. HIDE DEF t
  <2>. QED  BY <2>2, <2>3 DEF MctInit, Timer
<1>3. BootTypeOK'
  BY <1>0, <1>1, <1>2 DEF BootTypeOK
<1>4. Effects'
  BY <1>0, Stays DEF Effects
<1>. QED  BY <1>1, <1>3, <1>4 DEF IInv

LEMMA TimerInitStep ==
  ASSUME IInv, NEW c \in Cpus, TimerInit(c)
  PROVE  IInv'
<1>0. /\ BootTypeOK /\ Sorted /\ Effects /\ Passed /\ Calls(c, "timer_init")
      /\ gic' = Configure(gic, c, timer.irq)
      /\ woken' = woken /\ vcpus' = vcpus /\ hyp' = hyp /\ regs' = regs
      /\ vgic' = vgic /\ timer' = timer /\ vdevs' = vdevs /\ sched' = sched
  BY DEF IInv, TimerInit
<1>1. /\ Sorted' /\ Passed' /\ todo' \in [Cpus -> Seq(DOMAIN Rank)] /\ build' = build
  BY <1>0, CallFirst, PassedStays
<1>2. irqs \in Irqs /\ gic \in Gic /\ timer.irq \in Int /\ 0 \in Cpus
  BY <1>0 DEF BootTypeOK, Timer, TimerIrq, Cpus
<1>3. /\ gic' \in Gic /\ gic'.base = gic.base /\ gic'.dist = gic.dist
      /\ gic.forwarded[0] \subseteq gic'.forwarded[0]
  BY <1>0, <1>2, Configured
<1>4. irqs' \in Irqs /\ irqs'.map = irqs.map /\ irqs'.ops = irqs.ops /\ irqs'.mapped = irqs.mapped
  <2>. DEFINE ppi == Request(irqs.ppi, c, timer.irq, "timer")
  <2>1. ppi \in [Cpus -> [Private -> Handlers]]
    BY <1>2, RequestType DEF Irqs, Handlers
  <2>2. irqs' = [irqs EXCEPT !.ppi = ppi]
    BY Zenon DEF TimerInit
  <2>. HIDE DEF ppi
  <2>. QED  BY <1>2, <2>1, <2>2 DEF Irqs
<1>5. BootTypeOK'
  BY <1>0, <1>1, <1>3, <1>4 DEF BootTypeOK
<1>6. Effects'
  BY <1>0, <1>3, <1>4, Stays DEF Effects
<1>. QED  BY <1>1, <1>5, <1>6 DEF IInv

LEMMA BasicTestsStep ==
  ASSUME IInv, NEW c \in Cpus, BasicTests(c)
  PROVE  IInv'
<1>0. /\ BootTypeOK /\ Sorted /\ Effects /\ Passed /\ Calls(c, "tests")
      /\ \/ gic' = Configure(gic, c, NsTimerIrq)
            /\ irqs' = [irqs EXCEPT !.ppi = Request(irqs.ppi, c, NsTimerIrq, "nsptimer")]
         \/ gic' = gic /\ irqs' = irqs
      /\ woken' = woken /\ vcpus' = vcpus /\ hyp' = hyp /\ regs' = regs
      /\ vgic' = vgic /\ timer' = timer /\ vdevs' = vdevs /\ sched' = sched
  BY DEF IInv, BasicTests
<1>1. /\ Sorted' /\ Passed' /\ todo' \in [Cpus -> Seq(DOMAIN Rank)] /\ build' = build
  BY <1>0, CallFirst, PassedStays
<1>2. irqs \in Irqs /\ gic \in Gic /\ NsTimerIrq \in Int /\ 0 \in Cpus
  BY <1>0 DEF BootTypeOK, NsTimerIrq, Cpus
<1>3. /\ gic' \in Gic /\ gic'.base = gic.base /\ gic'.dist = gic.dist
      /\ gic.forwarded[0] \subseteq gic'.forwarded[0]
  BY <1>0, <1>2, Configured
<1>4. irqs' \in Irqs /\ irqs'.map = irqs.map /\ irqs'.ops = irqs.ops /\ irqs'.mapped = irqs.mapped
  <2>. DEFINE ppi == Request(irqs.ppi, c, NsTimerIrq, "nsptimer")
  <2>1. ppi \in [Cpus -> [Private -> Handlers]]
    BY <1>2, RequestType DEF Irqs, Handlers
  <2>2. irqs' = [irqs EXCEPT !.ppi = ppi] \/ irqs' = irqs
    BY <1>0
  <2>. HIDE DEF ppi
  <2>. QED  BY <1>2, <2>1, <2>2 DEF Irqs
<1>5. BootTypeOK'
  BY <1>0, <1>1, <1>3, <1>4 DEF BootTypeOK
<1>6. Effects'
  BY <1>0, <1>3, <1>4, Stays DEF Effects
<1>. QED  BY <1>1, <1>5, <1>6 DEF IInv

LEMMA GuestInitStep ==
  ASSUME IInv, NEW c \in Cpus, GuestInit(c)
  PROVE  IInv'
<1>0. /\ BootTypeOK /\ Sorted /\ Effects /\ Passed /\ Calls(c, "guest_init")
      /\ timer' = TimerSet(c, "guest_schedule")
      /\ woken' = woken /\ hyp' = hyp /\ regs' = regs /\ irqs' = irqs /\ gic' = gic
      /\ vgic' = vgic /\ vdevs' = vdevs /\ sched' = sched
  BY DEF IInv, GuestInit
<1>1. /\ Sorted' /\ Passed' /\ todo' \in [Cpus -> Seq(DOMAIN Rank)] /\ build' = build
  BY <1>0, CallFirst, PassedStays
<1>2. vcpus' = [g \in 0..3 |-> IF g \in Own(c) THEN [[vcpus[g] EXCEPT !.vmid = g] EXCEPT !.ready = TRUE]
                               ELSE vcpus[g]]
  <2>1. DOMAIN vcpus = 0..3
    BY <1>0 DEF BootTypeOK
  <2>. QED  BY <2>1, Zenon DEF GuestInit, GuestHwInit
<1>3. ASSUME NEW g \in 0..3
      PROVE  /\ vcpus'[g] \in Vcpu /\ vcpus'[g].placed = vcpus[g].placed
             /\ vcpus'[g].tables = vcpus[g].tables
             /\ g \in Own(c) => vcpus'[g].ready /\ vcpus'[g].vmid = g
             /\ g \notin Own(c) => vcpus'[g] = vcpus[g]
  <2>1. vcpus[g] \in Vcpu
    BY <1>0 DEF BootTypeOK
  <2>2. vcpus'[g] = IF g \in Own(c) THEN [[vcpus[g] EXCEPT !.vmid = g] EXCEPT !.ready = TRUE]
                    ELSE vcpus[g]
    BY <1>2
  <2>3. CASE g \in Own(c)
    <3>1. vcpus'[g] = [[vcpus[g] EXCEPT !.vmid = g] EXCEPT !.ready = TRUE]
      BY <2>2, <2>3
    <3>2. [vcpus[g] EXCEPT !.vmid = g] \in Vcpu /\ [vcpus[g] EXCEPT !.vmid = g].vmid = g
          /\ [vcpus[g] EXCEPT !.vmid = g].placed = vcpus[g].placed
          /\ [vcpus[g] EXCEPT !.vmid = g].tables = vcpus[g].tables
      BY <2>1 DEF Vcpu
    <3>3. ASSUME NEW v \in Vcpu
          PROVE  /\ [v EXCEPT !.ready = TRUE] \in Vcpu /\ [v EXCEPT !.ready = TRUE].ready = TRUE
                 /\ [v EXCEPT !.ready = TRUE].vmid = v.vmid
                 /\ [v EXCEPT !.ready = TRUE].placed = v.placed
                 /\ [v EXCEPT !.ready = TRUE].tables = v.tables
      BY DEF Vcpu
    <3>. QED  BY <2>3, <3>1, <3>2, <3>3
  <2>4. CASE g \notin Own(c)
    <3>1. vcpus'[g] = vcpus[g]
      BY <2>2, <2>4
    <3>. QED  BY <2>1, <2>4, <3>1
  <2>. QED  BY <2>3, <2>4
<1>4. vcpus' \in [0..3 -> Vcpu]
  BY <1>2, <1>3
<1>5. timer' \in Timer
  BY <1>0, TimerSetType DEF BootTypeOK, Callbacks
<1>6. BootTypeOK'
  BY <1>0, <1>1, <1>4, <1>5 DEF BootTypeOK
<1>7. Own(0) = 0..1 /\ Own(1) = 2..3 /\ 0..1 \subseteq 0..3
  BY DEF Own, FirstVmid, LastVmid
<1>8. ContextsReady'
  <2>1. CASE c = 0
    BY <1>3, <1>7, <2>1 DEF ContextsReady
  <2>2. CASE c = 1
    <3>1. \A g \in Own(0) : vcpus'[g] = vcpus[g]
      BY <1>3, <1>7, <2>2
    <3>. QED  BY <1>0, <2>2, <3>1, Stays
  <2>. QED  BY <2>1, <2>2 DEF Cpus
<1>9. GuestsPlaced' /\ MemoryReady' /\ MapReady' /\ InterruptsReady' /\ DevicesReady'
  BY <1>0, <1>3, Stays
<1>. QED  BY <1>1, <1>6, <1>8, <1>9 DEF IInv, Effects

LEMMA VdevInitStep ==
  ASSUME IInv, NEW c \in Cpus, VdevInit(c)
  PROVE  IInv'
<1>. DEFINE size == IF c = 0
                    THEN [l \in DOMAIN Modules |-> vdevs.size[l] + Cardinality(Modules[l])]
                    ELSE vdevs.size
            reset == vdevs.reset \/ \E l \in DOMAIN Modules : size[l] > 0
<1>0. /\ BootTypeOK /\ Sorted /\ Effects /\ Passed /\ Calls(c, "vdev_init")
      /\ vdevs' = [size |-> size, reset |-> reset]
      /\ woken' = woken /\ vcpus' = vcpus /\ hyp' = hyp /\ regs' = regs /\ irqs' = irqs
      /\ gic' = gic /\ vgic' = vgic /\ timer' = timer /\ sched' = sched
  BY Zenon DEF IInv, VdevInit
<1>1. /\ Sorted' /\ Passed' /\ todo' \in [Cpus -> Seq(DOMAIN Rank)] /\ build' = build
      /\ c = 0 => Remains("vdev_init") /\ Called("vdev_init")'
  BY <1>0, CallFirst, PassedStays
<1>2. vdevs.size \in [DOMAIN Modules -> Nat] /\ vdevs.reset \in BOOLEAN
  BY <1>0 DEF BootTypeOK
<1>3. size \in [DOMAIN Modules -> Nat]
  BY <1>2, ModuleCounts
<1>4. vdevs'.size = size /\ (vdevs'.reset <=> reset) /\ vdevs' \in [size : [DOMAIN Modules -> Nat], reset : BOOLEAN]
  <2>1. reset \in BOOLEAN
    BY <1>2
  <2>. HIDE DEF size, reset
  <2>. QED  BY <1>0, <1>3, <2>1
<1>5. BootTypeOK'
  BY <1>0, <1>1, <1>4, Zenon DEF BootTypeOK
<1>6. DevicesReady'
  <2>1. CASE c = 0
    <3>1. \A l \in DOMAIN Modules : vdevs.size[l] = 0
      BY <1>0, <1>1, <2>1 DEF Effects, DevicesReady, Called
    <3>2. \A l \in DOMAIN Modules : size[l] = Cardinality(Modules[l])
      BY <2>1, <3>1, ModuleCounts
    <3>3. reset
      <4>1. "high" \in DOMAIN Modules /\ Cardinality(Modules["high"]) > 0
        BY ModuleCounts
      <4>2. size["high"] > 0
        BY <3>2, <4>1
      <4>. QED  BY <4>1, <4>2
    <3>. HIDE DEF size, reset
    <3>. QED  BY <1>1, <1>4, <2>1, <3>2, <3>3 DEF DevicesReady
  <2>2. CASE c = 1
    <3>1. vdevs'.size = vdevs.size /\ (vdevs.reset => vdevs'.reset)
      BY <1>4, <2>2
    <3>. HIDE DEF size, reset
    <3>. QED  BY <1>0, <2>2, <3>1, Stays
  <2>. QED  BY <2>1, <2>2 DEF Cpus
<1>. HIDE DEF size, reset
<1>7. GuestsPlaced' /\ MemoryReady' /\ MapReady' /\ InterruptsReady' /\ ContextsReady'
  BY <1>0, Stays
<1>. QED  BY <1>1, <1>5, <1>6, <1>7 DEF IInv, Effects

LEMMA SchedStartStep ==
  ASSUME IInv, NEW c \in Cpus, SchedStart(c)
  PROVE  IInv'
<1>. DEFINE vmid == vcpus[FirstVmid(c)].vmid
<1>0. /\ BootTypeOK /\ Sorted /\ Effects /\ Passed /\ Calls(c, "guest_sched_start")
      /\ sched' = [sched EXCEPT !.current = [sched.current EXCEPT ![c] = vmid],
                                !.next = [sched.next EXCEPT ![c] = vmid]]
      /\ regs' = [regs EXCEPT ![c] = regs[c] \cup {"vttbr", "vm"}]
      /\ woken' = woken /\ vcpus' = vcpus /\ hyp' = hyp /\ irqs' = irqs /\ gic' = gic
      /\ vgic' = vgic /\ timer' = timer /\ vdevs' = vdevs
  BY DEF IInv, SchedStart
<1>1. /\ Sorted' /\ todo' \in [Cpus -> Seq(DOMAIN Rank)] /\ build' = build
      /\ todo[c] # <<>>
      /\ \A g : g # "guest_sched_start" \/ c = 1 => (Called(g)' <=> Called(g))
      /\ c = 1 => todo'[0] = todo[0]
      /\ c = 0 => todo'[0] = <<>>
  BY <1>0, CallFirst
<1>2. vmid \in Int
  <2>1. FirstVmid(c) \in 0..3
    BY DEF FirstVmid, Cpus
  <2>. QED  BY <1>0, <2>1 DEF BootTypeOK, Vcpu
<1>. HIDE DEF vmid
<1>3. /\ sched' \in [current : [Cpus -> Int], next : [Cpus -> Int], ticks : [Cpus -> Int]]
      /\ c = 1 => sched'.current[0] = sched.current[0]
  <2>. DEFINE current == [sched.current EXCEPT ![c] = vmid]
              next    == [sched.next EXCEPT ![c] = vmid]
  <2>1. sched \in [current : [Cpus -> Int], next : [Cpus -> Int], ticks : [Cpus -> Int]]
    BY <1>0 DEF BootTypeOK
  <2>2. /\ current \in [Cpus -> Int] /\ next \in [Cpus -> Int]
        /\ c = 1 => current[0] = sched.current[0]
    BY <1>2, <2>1 DEF Cpus
  <2>3. sched' = [sched EXCEPT !.current = current, !.next = next]
    BY <1>0
  <2>. HIDE DEF current, next
  <2>. QED  BY <2>1, <2>2, <2>3
<1>4. regs' \in [Cpus -> SUBSET Registers] /\ regs[0] \subseteq regs'[0]
  BY <1>0 DEF BootTypeOK, Registers, Cpus
<1>5. BootTypeOK'
  BY <1>0, <1>1, <1>3, <1>4 DEF BootTypeOK
<1>6. Effects'
  BY <1>0, <1>4, Stays DEF Effects
<1>7. Passed'
  <2>1. ASSUME woken', NEW g \in DOMAIN Rank, Rank[g] < Rank["wake"] PROVE Called(g)'
    <3>1. Called(g)
      BY <1>0, <2>1 DEF Passed
    <3>2. g # "guest_sched_start"
      BY <2>1 DEF Rank
    <3>. QED  BY <1>1, <3>1, <3>2
  <2>2. sched'.current[0] # NoVmid => todo'[0] = <<>>
    BY <1>0, <1>1, <1>3 DEF Passed, Cpus
  <2>. QED  BY <2>1, <2>2 DEF Passed, Called, Remains
<1>. QED  BY <1>1, <1>5, <1>6, <1>7 DEF IInv

\* While the guests run the scheduler and the timer change nothing else.
LEMMA RunningSteps ==
  ASSUME IInv, NEW c \in Cpus, Tick(c) \/ NsTick(c) \/ Yield(c)
  PROVE  IInv'
<1>0. /\ BootTypeOK /\ Sorted /\ Effects /\ Passed /\ sched.current[c] # NoVmid /\ Schedule(c)
      /\ timer' = timer \/ timer' = TimerStart(TimerStop(timer, c), c)
      /\ build' = build /\ todo' = todo /\ woken' = woken /\ vcpus' = vcpus /\ hyp' = hyp
      /\ regs' = regs /\ irqs' = irqs /\ gic' = gic /\ vdevs' = vdevs
  BY DEF IInv, Tick, NsTick, Yield, Reaches
<1>. DEFINE now  == sched.current[c]
            then == IF now < LastVmid(c) THEN now + 1 ELSE FirstVmid(c)
<1>7. PICK g \in {now, then} :
        /\ sched' = [sched EXCEPT !.current[c] = g, !.next[c] = IF g = now THEN g ELSE NoVmid,
                                  !.ticks[c] = 1 - @]
        /\ vgic' = [vgic EXCEPT !.queued = IF g = now THEN @ ELSE @ \ {g}]
  BY <1>0, Zenon DEF Schedule
<1>1. timer' \in Timer
  BY <1>0, TimerSetType DEF BootTypeOK, Callbacks
<1>2. /\ sched' \in [current : [Cpus -> Int], next : [Cpus -> Int], ticks : [Cpus -> Int]]
      /\ c = 1 => sched'.current[0] = sched.current[0]
  <2>0. sched \in [current : [Cpus -> Int], next : [Cpus -> Int], ticks : [Cpus -> Int]]
    BY <1>0 DEF BootTypeOK
  <2>1. PICK n \in Int, t \in Int :
          /\ g \in Int
          /\ sched' = [sched EXCEPT !.current = [sched.current EXCEPT ![c] = g],
                                    !.next = [sched.next EXCEPT ![c] = n],
                                    !.ticks = [sched.ticks EXCEPT ![c] = t]]
    <3>1. now \in Int /\ then \in Int /\ 1 - sched.ticks[c] \in Int /\ NoVmid \in Int
      BY <2>0 DEF LastVmid, FirstVmid, NoVmid, Cpus
    <3>2. sched' = [sched EXCEPT !.current = [sched.current EXCEPT ![c] = g],
                                 !.next = [sched.next EXCEPT ![c] = IF g = now THEN g ELSE NoVmid],
                                 !.ticks = [sched.ticks EXCEPT ![c] = 1 - sched.ticks[c]]]
      BY <1>7, Zenon
    <3>. HIDE DEF now, then
    <3>3. PICK n \in Int : n = IF g = now THEN g ELSE NoVmid
      BY <3>1
    <3>4. sched' = [sched EXCEPT !.current = [sched.current EXCEPT ![c] = g],
                                 !.next = [sched.next EXCEPT ![c] = n],
                                 !.ticks = [sched.ticks EXCEPT ![c] = 1 - sched.ticks[c]]]
      BY <3>2, <3>3, Zenon
    <3>5. g \in Int
      BY <1>7, <3>1
    <3>. QED  BY <3>1, <3>4, <3>5, Zenon
  <2>. DEFINE current == [sched.current EXCEPT ![c] = g]
              next    == [sched.next EXCEPT ![c] = n]
              ticks   == [sched.ticks EXCEPT ![c] = t]
  <2>2. /\ current \in [Cpus -> Int] /\ next \in [Cpus -> Int] /\ ticks \in [Cpus -> Int]
        /\ c = 1 => current[0] = sched.current[0]
    BY <2>0 DEF Cpus
  <2>3. sched' = [sched EXCEPT !.current = current, !.next = next, !.ticks = ticks]
    BY <2>1
  <2>. HIDE DEF current, next, ticks
  <2>. QED  BY <2>0, <2>2, <2>3
<1>3. vgic' \in Vgic /\ vgic'.base = vgic.base /\ vgic'.on = vgic.on
  <2>1. vgic \in Vgic
    BY <1>0 DEF BootTypeOK
  <2>2. PICK q \in SUBSET Int : vgic' = [vgic EXCEPT !.queued = q]
    BY <1>7, <2>1 DEF Vgic
  <2>. QED  BY <2>1, <2>2 DEF Vgic
<1>4. BootTypeOK'
  BY <1>0, <1>1, <1>2, <1>3 DEF BootTypeOK
<1>6. Sorted' /\ Effects'
  BY <1>0, <1>3 DEF Sorted, Effects, GuestsPlaced, MemoryReady, MapReady, InterruptsReady,
              ContextsReady, DevicesReady, Called, Remains, Guests
<1>5. Passed'
  BY <1>0, <1>2 DEF Passed, Called, Remains, Cpus
<1>. QED  BY <1>4, <1>5, <1>6 DEF IInv

\* An interrupt that is saved for its guest changes only the queues.
LEMMA ArrivesStep ==
  ASSUME IInv, NEW c \in Cpus, Arrives(c)
  PROVE  IInv'
<1>1. /\ build' = build /\ todo' = todo /\ woken' = woken /\ vcpus' = vcpus /\ hyp' = hyp
      /\ regs' = regs /\ irqs' = irqs /\ gic' = gic /\ timer' = timer /\ vdevs' = vdevs
      /\ sched' = sched
      /\ \E g \in Own(c) : vgic' = [vgic EXCEPT !.queued = vgic.queued \cup {g}]
  BY DEF Arrives
<1>2. Own(c) \subseteq Int
  BY DEF Own, FirstVmid, LastVmid, Cpus
<1>3. vgic' \in Vgic /\ vgic'.base = vgic.base /\ vgic'.on = vgic.on
  <2>1. vgic \in Vgic
    BY DEF IInv, BootTypeOK
  <2>2. PICK q \in SUBSET Int : vgic' = [vgic EXCEPT !.queued = q]
    BY <1>1, <1>2, <2>1 DEF Vgic
  <2>. QED  BY <2>1, <2>2 DEF Vgic
<1>4. BootTypeOK' /\ Sorted' /\ Passed'
  BY <1>1, <1>3 DEF IInv, BootTypeOK, Sorted, Passed, Called, Remains
<1>5. Effects'
  BY <1>1, <1>3 DEF IInv, Effects, GuestsPlaced, MemoryReady, MapReady, InterruptsReady,
              ContextsReady, DevicesReady, Called, Remains, Guests
<1>. QED  BY <1>4, <1>5 DEF IInv

LEMMA StutterStep ==
  ASSUME IInv, UNCHANGED vars
  PROVE  IInv'
  BY DEF vars, IInv, BootTypeOK, Sorted, Effects, Passed, GuestsPlaced, MemoryReady, MapReady,
         InterruptsReady, ContextsReady, DevicesReady, Called, Remains, Guests

(***************************************************************************)
(* The invariant holds from main() on, on either board, with either number *)
(* of CPUs and whatever tests the build runs.                              *)
(***************************************************************************)
THEOREM Invariance == Spec => []IInv
<1>1. ASSUME IInv, [Next]_vars PROVE IInv'
  <2>1. ASSUME NEW c \in Cpus, Boots(c) PROVE IInv'
    BY <1>1, <2>1, VcpuInitStep, SetupMemoryStep, MemoryInitStep, SetupInterruptStep,
       InterruptInitStep, WakeStep, SetupTimerStep, TimerInitStep, GuestInitStep, VdevInitStep,
       BasicTestsStep, SchedStartStep
       DEF Boots
  <2>. QED  BY <1>1, <2>1, RunningSteps, ArrivesStep, StutterStep DEF Next
<1>. QED  BY InitInv, <1>1, PTL DEF Spec

(***************************************************************************)
(* The init functions of the two CPUs keep the types of the static         *)
(* variables they share.                                                   *)
(***************************************************************************)
THEOREM TypeCorrect == Spec => []BootTypeOK
<1>1. IInv => BootTypeOK
  BY DEF IInv
<1>. QED  BY <1>1, Invariance, PTL

(***************************************************************************)
(* When CPU 1 leaves its pen, what its memory_init and interrupt_init use  *)
(* of CPU 0's work is in place.  The interrupt of the timer and the list   *)
(* of virtual devices are not; LateShared, which is false, is about them.  *)
(***************************************************************************)
THEOREM PenOpensLate == Spec => []SharedFirst
<1>1. ASSUME IInv, woken PROVE SharedFirst
  <2>1. /\ Called("setup_memory") /\ Called("memory_init") /\ Called("setup_interrupt")
        /\ Called("interrupt_init")
    <3>1. \A f \in {"setup_memory", "memory_init", "setup_interrupt", "interrupt_init"} :
            f \in DOMAIN Rank /\ Rank[f] < Rank["wake"]
      BY DEF Rank
    <3>. QED  BY <1>1, <3>1 DEF IInv, Passed
  <2>. QED  BY <1>1, <2>1 DEF IInv, Effects, GuestsPlaced, MemoryReady, MapReady,
                             InterruptsReady, SharedFirst
<1>2. IInv => SharedFirst
  BY <1>1 DEF SharedFirst
<1>. QED  BY <1>2, Invariance, PTL

(***************************************************************************)
(* A guest of CPU 0 runs only when all it needs is there, whatever the     *)
(* other CPU does to the variables they share in the meantime.             *)
(***************************************************************************)
THEOREM GuestsRunReady == Spec => []ReadyToRun
<1>1. ASSUME IInv, sched.current[0] # NoVmid PROVE ReadyToRun
  <2>1. todo[0] = <<>>
    BY <1>1 DEF IInv, Passed
  <2>2. \A f : Called(f)
    BY <2>1 DEF Called, Remains
  <2>3. ~ ForGuest(MaintenanceIrq)
    BY <1>1, MapVirqs DEF IInv, BootTypeOK, Irqs, ForGuest
  <2>4. Own(0) \subseteq Guests
    BY DEF Own, FirstVmid, LastVmid, Guests
  <2>5. /\ hyp.tables = HostTable /\ hyp.heap /\ MemoryEnable \cup GuestMmu \subseteq regs[0]
        /\ \A g \in Own(0) : vcpus[g].tables = g
    BY <1>1, <2>2 DEF IInv, Effects, MemoryReady
  <2>6. \A g \in Own(0) : vcpus[g].ready /\ vcpus[g].vmid = g /\ vcpus[g].placed
    BY <1>1, <2>2, <2>4 DEF IInv, Effects, ContextsReady, GuestsPlaced
  <2>7. vdevs.reset /\ \A l \in DOMAIN Modules : vdevs.size[l] = Cardinality(Modules[l])
    BY <1>1, <2>2 DEF IInv, Effects, DevicesReady
  <2>8. vgic.base /\ vgic.on[0] /\ MaintenanceIrq \in gic.forwarded[0]
    BY <1>1, <2>2 DEF IInv, Effects, InterruptsReady
  <2>. QED  BY <2>3, <2>5, <2>6, <2>7, <2>8 DEF ReadyToRun
<1>2. IInv => ReadyToRun
  BY <1>1 DEF ReadyToRun
<1>. QED  BY <1>2, Invariance, PTL
=============================================================================
