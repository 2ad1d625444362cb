----------------------------- MODULE VgicProofs -----------------------------
(***************************************************************************)
(* Proofs about interrupt delivery, for any number of guests, list         *)
(* registers, queue entries and interrupts.                                *)
(***************************************************************************)
EXTENDS Vgic, TLAPS, WellFoundedInduction

(***************************************************************************)
(* A guest has enabled only pirqs of its own map, and a pirq is enabled in *)
(* the distributor only after the guest it is routed to asked for it.      *)
(***************************************************************************)
Routed ==
  /\ \A g \in Guests : \A p \in enabled[g] : Virqmap[g][p] # NoIrq
  /\ \A p \in forwarded : \E g \in Guests : p \in enabled[g]

(***************************************************************************)
(* Virq v on behalf of p: p is the pirq that v stands for in guest g, and  *)
(* no pirq when v is a software virq.                                      *)
(***************************************************************************)
Stands(g, v, p) ==
  \A q \in Pirqs : p = q <=> v = Virqmap[g][q] /\ v # NoIrq

SlotsStand ==
  \A g \in Guests, s \in Slots : Stands(g, virqatslot[g][s], pirqatslot[g][s])
EntriesStand ==
  \A g \in Guests, i \in Entries :
    virqs[g][i] # NoEntry => Stands(g, virqs[g][i].virq, virqs[g][i].pirq)

\* The first half of SlotsAgree.
TablesAgree ==
  \A g \in Guests, s \in Slots : virqatslot[g][s] = ListRegs(g)[s].virq

(***************************************************************************)
(* OneHolder, place by place: the pirq of a slot or of a queue entry is    *)
(* active, and no other place has it.                                      *)
(***************************************************************************)
EntryPirq(g, i) == IF virqs[g][i] = NoEntry THEN NoIrq ELSE virqs[g][i].pirq

SlotsHold ==
  \A g \in Guests, s \in Slots : pirqatslot[g][s] \in Pirqs =>
    /\ pirqatslot[g][s] \in active
    /\ \A t \in Slots : pirqatslot[g][t] = pirqatslot[g][s] => s = t
    /\ \A i \in Entries : EntryPirq(g, i) # pirqatslot[g][s]
EntriesHold ==
  \A g \in Guests, i \in Entries : EntryPirq(g, i) \in Pirqs =>
    /\ EntryPirq(g, i) \in active
    /\ \A j \in Entries : EntryPirq(g, j) = EntryPirq(g, i) => i = j

IInv ==
  /\ TypeOK /\ Routed
  /\ TablesAgree /\ SlotsStand /\ EntriesStand
  /\ SlotsHold /\ EntriesHold

-----------------------------------------------------------------------------
(* Constants and choices *)

(***************************************************************************)
(* "No interrupt" is none of the virqs.                                    *)
(***************************************************************************)
LEMMA NoIrqNotVirq == NoIrq \notin Virqs
BY IrqAssumption DEF Virqs, HwVirqs

(***************************************************************************)
(* vgic_find_free_slot and the search for a free queue entry find one when *)
(* there is one.                                                           *)
(***************************************************************************)
LEMMA SmallestIn ==
  ASSUME NEW S, S \subseteq Nat, S # {}
  PROVE  Smallest(S) \in S
<1> DEFINE R == OpToRel(<, Nat)
<1>1. IsWellFoundedOn(R, Nat)
  BY NatLessThanWellFounded
<1>2. \A x, y \in Nat : <<y, x>> \notin R => x <= y
  BY SMT DEF OpToRel
<1> HIDE DEF R
<1>3. PICK x \in S : \A y \in S : <<y, x>> \notin R
  BY <1>1, WFMin, Zenon
<1>4. \A y \in S : x <= y
  BY <1>2, <1>3, Zenon
<1> QED
  BY <1>4 DEF Smallest

(***************************************************************************)
(* The slot that an injection takes, and the queue entry that it fills.    *)
(***************************************************************************)
LEMMA FreeSlotIn ==
  ASSUME FreeSlots # {}
  PROVE  Smallest(FreeSlots) \in FreeSlots
<1>1. FreeSlots \subseteq Nat
  BY SizeAssumption DEF FreeSlots, Slots
<1> QED
  BY <1>1, SmallestIn

(***************************************************************************)
(* The same for the free entries and for the valid entries of a queue.     *)
(***************************************************************************)
LEMMA EntryIn ==
  ASSUME NEW g \in Guests
  PROVE  /\ FreeEntries(g) # {} => Smallest(FreeEntries(g)) \in FreeEntries(g)
         /\ Queued(g) # {} => Smallest(Queued(g)) \in Queued(g)
<1>1. FreeEntries(g) \subseteq Nat /\ Queued(g) \subseteq Nat
  BY SizeAssumption DEF FreeEntries, Queued, Entries
<1> QED
  BY <1>1, SmallestIn

(***************************************************************************)
(* Nothing is remembered of a free list register.                          *)
(***************************************************************************)
LEMMA FreeSlotForgotten ==
  ASSUME IInv, current \in Guests, NEW s \in FreeSlots
  PROVE  /\ s \in Slots
         /\ virqatslot[current][s] = NoIrq
         /\ pirqatslot[current][s] = NoIrq
<1>1. s \in Slots /\ lr[s] \in LRs /\ lr[s].state = "invalid"
  BY DEF IInv, TypeOK, FreeSlots
<1>2. lr[s].virq = NoIrq
  BY <1>1 DEF LRs, LREmpty
<1>3. virqatslot[current][s] = NoIrq
  BY <1>1, <1>2 DEF IInv, TablesAgree, ListRegs
<1>4. pirqatslot[current][s] \in Pirqs \union {NoIrq}
  BY <1>1 DEF IInv, TypeOK
<1> QED
  BY <1>1, <1>3, <1>4 DEF IInv, SlotsStand, Stands

-----------------------------------------------------------------------------
(* Injection into a list register *)

(***************************************************************************)
(* The tables after an injection into slot s of the running guest.         *)
(***************************************************************************)
LEMMA InjectSlotEffect ==
  ASSUME IInv, current \in Guests, NEW s \in FreeSlots,
         NEW v \in Virqs, NEW p \in Pirqs \union {NoIrq},
         InjectSlot(current, s, v, p)
  PROVE  /\ s \in Slots
         /\ lr' \in [Slots -> LRs]
         /\ virqatslot' \in [Guests -> [Slots -> Virqs \union {NoIrq}]]
         /\ pirqatslot' \in [Guests -> [Slots -> Pirqs \union {NoIrq}]]
         /\ lr'[s].virq = v
         /\ \A t \in Slots \ {s} : lr'[t] = lr[t]
         /\ virqatslot'[current][s] = v
         /\ pirqatslot'[current][s] = p
         /\ pirqatslot[current][s] = NoIrq
         /\ \A g \in Guests, t \in Slots : <<g, t>> # <<current, s>> =>
              /\ virqatslot'[g][t] = virqatslot[g][t]
              /\ pirqatslot'[g][t] = pirqatslot[g][t]
<1>1. s \in Slots /\ pirqatslot[current][s] = NoIrq
  BY FreeSlotForgotten
<1>2. lr' = [lr EXCEPT ![s] = [state |-> "pending", virq |-> v]]
  BY DEF InjectSlot
<1>3. lr \in [Slots -> LRs] /\ [state |-> "pending", virq |-> v] \in LRs
  BY DEF IInv, TypeOK, LRs
<1>4. /\ lr' \in [Slots -> LRs] /\ lr'[s].virq = v
      /\ \A t \in Slots \ {s} : lr'[t] = lr[t]
  BY <1>1, <1>2, <1>3
<1>5. /\ virqatslot \in [Guests -> [Slots -> Virqs \union {NoIrq}]]
      /\ pirqatslot \in [Guests -> [Slots -> Pirqs \union {NoIrq}]]
  BY DEF IInv, TypeOK
<1>6. /\ virqatslot' \in [Guests -> [Slots -> Virqs \union {NoIrq}]]
      /\ virqatslot'[current][s] = v
      /\ \A g \in Guests, t \in Slots : <<g, t>> # <<current, s>> =>
           virqatslot'[g][t] = virqatslot[g][t]
  BY <1>1, <1>5 DEF InjectSlot
<1>7. CASE p = NoIrq
  BY <1>1, <1>4, <1>5, <1>6, <1>7 DEF InjectSlot
<1>8. CASE p # NoIrq
  <2>1. pirqatslot' = [pirqatslot EXCEPT ![current][s] = p]
    BY <1>8 DEF InjectSlot
  <2> QED
    BY <1>1, <1>4, <1>5, <1>6, <2>1
<1> QED
  BY <1>7, <1>8

(***************************************************************************)
(* An injection keeps the tables in step with the list registers.          *)
(***************************************************************************)
LEMMA InjectSlotAgrees ==
  ASSUME IInv, current \in Guests, NEW s \in FreeSlots,
         NEW v \in Virqs, NEW p \in Pirqs \union {NoIrq}, Stands(current, v, p),
         InjectSlot(current, s, v, p), UNCHANGED <<current, status>>
  PROVE  TablesAgree' /\ SlotsStand'
<1>1. TablesAgree'
  <2> SUFFICES ASSUME NEW g \in Guests, NEW t \in Slots
               PROVE  virqatslot'[g][t] = ListRegs(g)'[t].virq
    BY DEF TablesAgree
  <2>1. CASE g = current /\ t = s
    BY <2>1, InjectSlotEffect DEF ListRegs
  <2>2. CASE g = current /\ t # s
    BY <2>2, InjectSlotEffect DEF ListRegs, IInv, TablesAgree
  <2>3. CASE g # current
    BY <2>3, InjectSlotEffect DEF ListRegs, IInv, TablesAgree
  <2> QED
    BY <2>1, <2>2, <2>3
<1>2. SlotsStand'
  <2> SUFFICES ASSUME NEW g \in Guests, NEW t \in Slots
               PROVE  Stands(g, virqatslot'[g][t], pirqatslot'[g][t])
    BY DEF SlotsStand, Stands
  <2>1. CASE <<g, t>> = <<current, s>>
    BY <2>1, InjectSlotEffect
  <2>2. CASE <<g, t>> # <<current, s>>
    BY <2>2, InjectSlotEffect DEF IInv, SlotsStand
  <2> QED
    BY <2>1, <2>2
<1> QED
  BY <1>1, <1>2

-----------------------------------------------------------------------------
(* virq_inject *)

(***************************************************************************)
(* What an injection into several guests on behalf of p is given.          *)
(***************************************************************************)
Injection(T, V, p) ==
  /\ T \subseteq Guests
  /\ p \in Pirqs \union {NoIrq}
  /\ \A g \in T : V[g] \in Virqs /\ Stands(g, V[g], p)
  /\ virq_inject(T, V, p)
  /\ UNCHANGED <<current, status>>

(***************************************************************************)
(* virq_inject writes at most one list register, and only of the running   *)
(* guest.                                                                  *)
(***************************************************************************)
LEMMA InjectRegs ==
  ASSUME IInv, current \in Guests, NEW T, NEW V, NEW p, Injection(T, V, p)
  PROVE  \/ UNCHANGED <<lr, virqatslot, pirqatslot>>
         \/ /\ current \in T /\ FreeSlots # {}
            /\ InjectSlot(current, Smallest(FreeSlots), V[current], p)
<1>1. virq_inject(T, V, p)
  BY DEF Injection
<1> QED
  BY <1>1 DEF virq_inject, Accepts

(***************************************************************************)
(* virq_inject writes only free queue entries, and only of guests that do  *)
(* not run.                                                                *)
(***************************************************************************)
LEMMA InjectQueue ==
  ASSUME IInv, current \in Guests, NEW T, NEW V, NEW p, Injection(T, V, p)
  PROVE  /\ virqs' \in [Guests -> [Entries -> QEntries \union {NoEntry}]]
         /\ \A g \in Guests, i \in Entries :
              \/ virqs'[g][i] = virqs[g][i]
              \/ /\ g \in T \ {current}
                 /\ i = Smallest(FreeEntries(g)) /\ virqs[g][i] = NoEntry
                 /\ virqs'[g][i] = [virq |-> V[g], pirq |-> p]
<1> DEFINE took == {g \in T : Accepts(g, V[g])}
           e(g) == [virq |-> V[g], pirq |-> p]
           q(g) == IF g \in took \ {current}
                     THEN [virqs[g] EXCEPT ![Smallest(FreeEntries(g))] = e(g)]
                     ELSE virqs[g]
<1>1. virqs' = [g \in Guests |-> q(g)]
  BY DEF Injection, virq_inject
<1>2. virqs \in [Guests -> [Entries -> QEntries \union {NoEntry}]]
  BY DEF IInv, TypeOK
<1>3. ASSUME NEW g \in Guests
      PROVE  /\ q(g) \in [Entries -> QEntries \union {NoEntry}]
             /\ \A i \in Entries :
                  \/ q(g)[i] = virqs[g][i]
                  \/ /\ g \in T \ {current}
                     /\ i = Smallest(FreeEntries(g)) /\ virqs[g][i] = NoEntry
                     /\ q(g)[i] = e(g)
  <2>1. CASE g \in took \ {current}
    <3>1. FreeEntries(g) # {}
      BY <2>1 DEF Accepts
    <3>2. /\ Smallest(FreeEntries(g)) \in Entries
          /\ virqs[g][Smallest(FreeEntries(g))] = NoEntry
      BY <3>1, EntryIn DEF FreeEntries
    <3>3. e(g) \in QEntries
      BY <2>1 DEF Injection, QEntries
    <3> QED
      BY <1>2, <2>1, <3>2, <3>3
  <2>2. CASE g \notin took \ {current}
    BY <1>2, <2>2
  <2> QED
    BY <2>1, <2>2
<1> HIDE DEF q
<1>4. \A g \in Guests : virqs'[g] = q(g)
  BY <1>1
<1> QED
  BY <1>1, <1>3, <1>4

(***************************************************************************)
(* virq_inject keeps the tables and the queues right.                      *)
(***************************************************************************)
LEMMA InjectAgrees ==
  ASSUME IInv, current \in Guests, NEW T, NEW V, NEW p, Injection(T, V, p)
  PROVE  /\ lr' \in [Slots -> LRs]
         /\ virqatslot' \in [Guests -> [Slots -> Virqs \union {NoIrq}]]
         /\ pirqatslot' \in [Guests -> [Slots -> Pirqs \union {NoIrq}]]
         /\ TablesAgree' /\ SlotsStand' /\ EntriesStand'
<1>1. EntriesStand'
  <2> SUFFICES ASSUME NEW g \in Guests, NEW i \in Entries, virqs'[g][i] # NoEntry
               PROVE  Stands(g, virqs'[g][i].virq, virqs'[g][i].pirq)
    BY DEF EntriesStand, Stands
  <2>1. CASE virqs'[g][i] = virqs[g][i]
    BY <2>1 DEF IInv, EntriesStand
  <2>2. CASE g \in T /\ virqs'[g][i] = [virq |-> V[g], pirq |-> p]
    BY <2>2 DEF Injection
  <2> QED
    BY <2>1, <2>2, InjectQueue
<1>2. CASE UNCHANGED <<lr, virqatslot, pirqatslot>>
  <2>1. UNCHANGED <<current, status>>
    BY DEF Injection
  <2> QED
    BY <1>1, <1>2, <2>1
    DEF IInv, TypeOK, TablesAgree, SlotsStand, Stands, ListRegs
<1>3. CASE /\ current \in T /\ FreeSlots # {}
           /\ InjectSlot(current, Smallest(FreeSlots), V[current], p)
  <2>1. /\ Smallest(FreeSlots) \in FreeSlots
        /\ V[current] \in Virqs /\ p \in Pirqs \union {NoIrq}
        /\ Stands(current, V[current], p)
        /\ UNCHANGED <<current, status>>
    BY <1>3, FreeSlotIn DEF Injection
  <2> QED
    BY <1>1, <1>3, <2>1, InjectSlotEffect, InjectSlotAgrees
<1> QED
  BY <1>2, <1>3, InjectRegs

(***************************************************************************)
(* Where the pirqs are after an injection: each place has what it had, or  *)
(* had none and has p.  At most one place of a guest gets p.               *)
(***************************************************************************)
LEMMA InjectPlaces ==
  ASSUME IInv, current \in Guests, NEW T, NEW V, NEW p, Injection(T, V, p)
  PROVE  /\ \A g \in Guests, s \in Slots :
              \/ pirqatslot'[g][s] = pirqatslot[g][s]
              \/ /\ g = current /\ s = Smallest(FreeSlots)
                 /\ pirqatslot[g][s] = NoIrq /\ pirqatslot'[g][s] = p
         /\ \A g \in Guests, i \in Entries :
              \/ EntryPirq(g, i)' = EntryPirq(g, i)
              \/ /\ g # current /\ i = Smallest(FreeEntries(g))
                 /\ EntryPirq(g, i) = NoIrq /\ EntryPirq(g, i)' = p
<1>1. ASSUME NEW g \in Guests, NEW s \in Slots
      PROVE  \/ pirqatslot'[g][s] = pirqatslot[g][s]
             \/ /\ g = current /\ s = Smallest(FreeSlots)
                /\ pirqatslot[g][s] = NoIrq /\ pirqatslot'[g][s] = p
  <2>1. CASE UNCHANGED pirqatslot
    BY <2>1
  <2>2. CASE /\ current \in T /\ FreeSlots # {}
             /\ InjectSlot(current, Smallest(FreeSlots), V[current], p)
    <3>1. /\ Smallest(FreeSlots) \in FreeSlots
          /\ V[current] \in Virqs /\ p \in Pirqs \union {NoIrq}
      BY <2>2, FreeSlotIn DEF Injection
    <3>2. CASE <<g, s>> = <<current, Smallest(FreeSlots)>>
      BY <2>2, <3>1, <3>2, InjectSlotEffect
    <3>3. CASE <<g, s>> # <<current, Smallest(FreeSlots)>>
      BY <2>2, <3>1, <3>3, InjectSlotEffect
    <3> QED
      BY <3>2, <3>3
  <2> QED
    BY <2>1, <2>2, InjectRegs
<1>2. ASSUME NEW g \in Guests, NEW i \in Entries
      PROVE  \/ EntryPirq(g, i)' = EntryPirq(g, i)
             \/ /\ g # current /\ i = Smallest(FreeEntries(g))
                /\ EntryPirq(g, i) = NoIrq /\ EntryPirq(g, i)' = p
  <2>1. CASE virqs'[g][i] = virqs[g][i]
    BY <2>1 DEF EntryPirq
  <2>2. CASE /\ g \in T \ {current}
             /\ i = Smallest(FreeEntries(g)) /\ virqs[g][i] = NoEntry
             /\ virqs'[g][i] = [virq |-> V[g], pirq |-> p]
    <3>1. virqs'[g][i] # NoEntry
      BY <2>2, IrqAssumption DEF Injection
    <3> QED
      BY <2>2, <3>1 DEF EntryPirq
  <2> QED
    BY <2>1, <2>2, InjectQueue
<1> QED
  BY <1>1, <1>2

(***************************************************************************)
(* An injection on behalf of an interrupt that was not active, or of none, *)
(* leaves every pirq with one holder.                                      *)
(***************************************************************************)
LEMMA InjectHolds ==
  ASSUME IInv, current \in Guests, NEW T, NEW V, NEW p, Injection(T, V, p),
         p \notin active, active \subseteq active', p \in Pirqs => p \in active'
  PROVE  SlotsHold' /\ EntriesHold'
<1> USE IrqAssumption
<1>1. \A g \in Guests, s \in Slots : pirqatslot[g][s] # p \/ p = NoIrq
  BY DEF IInv, SlotsHold, Injection
<1>2. \A g \in Guests, i \in Entries : EntryPirq(g, i) # p \/ p = NoIrq
  BY DEF IInv, EntriesHold, Injection
<1>3. SlotsHold'
  <2> SUFFICES ASSUME NEW g \in Guests, NEW s \in Slots, pirqatslot'[g][s] \in Pirqs
               PROVE  /\ pirqatslot'[g][s] \in active'
                      /\ \A t \in Slots : pirqatslot'[g][t] = pirqatslot'[g][s] => s = t
                      /\ \A i \in Entries : EntryPirq(g, i)' # pirqatslot'[g][s]
    BY DEF SlotsHold
  <2>1. CASE pirqatslot'[g][s] = pirqatslot[g][s]
    BY <1>1, <2>1, InjectPlaces DEF IInv, SlotsHold
  <2>2. CASE /\ g = current /\ s = Smallest(FreeSlots)
             /\ pirqatslot[g][s] = NoIrq /\ pirqatslot'[g][s] = p
    BY <1>1, <1>2, <2>2, InjectPlaces
  <2> QED
    BY <2>1, <2>2, InjectPlaces
<1>4. EntriesHold'
  <2> SUFFICES ASSUME NEW g \in Guests, NEW i \in Entries, EntryPirq(g, i)' \in Pirqs
               PROVE  /\ EntryPirq(g, i)' \in active'
                      /\ \A j \in Entries : EntryPirq(g, j)' = EntryPirq(g, i)' => i = j
    BY DEF EntriesHold
  <2>1. CASE EntryPirq(g, i)' = EntryPirq(g, i)
    BY <1>2, <2>1, InjectPlaces DEF IInv, EntriesHold
  <2>2. CASE /\ g # current /\ i = Smallest(FreeEntries(g))
             /\ EntryPirq(g, i) = NoIrq /\ EntryPirq(g, i)' = p
    BY <1>2, <2>2, InjectPlaces
  <2> QED
    BY <2>1, <2>2, InjectPlaces
<1> QED
  BY <1>3, <1>4

-----------------------------------------------------------------------------
(* The handlers *)

(***************************************************************************)
(* interrupt_service_routine injects a pirq as the virq it stands for.     *)
(***************************************************************************)
LEMMA GuestIrqInjects ==
  ASSUME IInv, NEW p \in Pirqs, GuestIrq(p)
  PROVE  Injection(Targets(p), [g \in Guests |-> Virqmap[g][p]], p)
<1>1. ASSUME NEW g \in Targets(p)
      PROVE  Virqmap[g][p] \in Virqs /\ Stands(g, Virqmap[g][p], p)
  <2>1. g \in Guests /\ Virqmap[g][p] # NoIrq
    BY DEF Targets, IInv, Routed
  <2>2. Virqmap[g][p] \in Virqs
    BY <2>1 DEF Virqs, HwVirqs
  <2> QED
    BY <2>1, <2>2, MapAssumption DEF Stands
<1>2. Targets(p) \subseteq Guests
  BY DEF Targets
<1> QED
  BY <1>1, <1>2 DEF Injection, GuestIrq

(***************************************************************************)
(* A software injection has no pirq.                                       *)
(***************************************************************************)
LEMMA SoftInjects ==
  ASSUME NEW T \in SUBSET Guests, NEW v \in SwVirqs \union Sgis,
         virq_inject(T, [h \in Guests |-> v], NoIrq), UNCHANGED <<current, status>>
  PROVE  Injection(T, [h \in Guests |-> v], NoIrq)
<1>1. \A g \in Guests : Stands(g, v, NoIrq)
  BY IrqAssumption, MapAssumption DEF Stands
<1>2. v \in Virqs
  BY DEF Virqs
<1> QED
  BY <1>1, <1>2 DEF Injection

(***************************************************************************)
(* A guest interrupt keeps the invariant.                                  *)
(***************************************************************************)
LEMMA GuestIrqInv ==
  ASSUME IInv, NEW p \in Pirqs, GuestIrq(p)
  PROVE  IInv'
<1> DEFINE V == [g \in Guests |-> Virqmap[g][p]]
<1>1. /\ current \in Guests /\ p \notin active /\ active' = active \union {p}
      /\ pc' = "exit" /\ UNCHANGED <<current, status, enabled, forwarded>>
  BY DEF GuestIrq, IInv, TypeOK
<1>2. Injection(Targets(p), V, p)
  BY GuestIrqInjects
<1> HIDE DEF V
<1>3. TypeOK'
  BY <1>1, <1>2, InjectAgrees, InjectQueue DEF IInv, TypeOK
<1>4. Routed'
  BY <1>1 DEF IInv, Routed
<1>5. SlotsHold' /\ EntriesHold'
  BY <1>1, <1>2, InjectHolds
<1> QED
  BY <1>1, <1>2, <1>3, <1>4, <1>5, InjectAgrees DEF IInv

(***************************************************************************)
(* So do the software injections, of the timer and the monitor and of a    *)
(* guest's SGI.                                                            *)
(***************************************************************************)
LEMMA SoftInv ==
  ASSUME IInv, pc = "guest", NEW T \in SUBSET Guests, NEW v \in SwVirqs \union Sgis,
         virq_inject(T, [h \in Guests |-> v], NoIrq),
         pc' \in {"exit", "abort"},
         UNCHANGED <<current, status, enabled, forwarded, active>>
  PROVE  IInv'
<1> DEFINE V == [h \in Guests |-> v]
<1>1. current \in Guests /\ NoIrq \notin active /\ NoIrq \notin Pirqs
  BY IrqAssumption DEF IInv, TypeOK
<1>2. Injection(T, V, NoIrq)
  BY SoftInjects
<1> HIDE DEF V
<1>3. TypeOK'
  BY <1>1, <1>2, InjectAgrees, InjectQueue DEF IInv, TypeOK
<1>4. Routed'
  BY DEF IInv, Routed
<1>5. SlotsHold' /\ EntriesHold'
  BY <1>1, <1>2, InjectHolds
<1> QED
  BY <1>1, <1>2, <1>3, <1>4, <1>5, InjectAgrees DEF IInv

(***************************************************************************)
(* The maintenance interrupt's effect on the tables of the running guest.  *)
(***************************************************************************)
LEMMA MaintenanceEffect ==
  ASSUME IInv, Maintenance
  PROVE  /\ current \in Guests
         /\ lr' \in [Slots -> LRs]
         /\ virqatslot' \in [Guests -> [Slots -> Virqs \union {NoIrq}]]
         /\ pirqatslot' \in [Guests -> [Slots -> Pirqs \union {NoIrq}]]
         /\ \A s \in Slots : lr'[s] = IF s \in Ended THEN LREmpty ELSE lr[s]
         /\ \A g \in Guests, s \in Slots :
              IF g = current /\ s \in Ended
                THEN virqatslot'[g][s] = NoIrq /\ pirqatslot'[g][s] = NoIrq
                ELSE /\ virqatslot'[g][s] = virqatslot[g][s]
                     /\ pirqatslot'[g][s] = pirqatslot[g][s]
<1>1. /\ current \in Guests
      /\ lr \in [Slots -> LRs]
      /\ virqatslot \in [Guests -> [Slots -> Virqs \union {NoIrq}]]
      /\ pirqatslot \in [Guests -> [Slots -> Pirqs \union {NoIrq}]]
  BY DEF Maintenance, IInv, TypeOK
<1>2. /\ lr' \in [Slots -> LRs]
      /\ \A s \in Slots : lr'[s] = IF s \in Ended THEN LREmpty ELSE lr[s]
  BY <1>1 DEF Maintenance, LRs
<1>3. /\ virqatslot' \in [Guests -> [Slots -> Virqs \union {NoIrq}]]
      /\ \A g \in Guests, s \in Slots : virqatslot'[g][s] =
           IF g = current /\ s \in Ended THEN NoIrq ELSE virqatslot[g][s]
  BY <1>1 DEF Maintenance
<1>4. /\ pirqatslot' \in [Guests -> [Slots -> Pirqs \union {NoIrq}]]
      /\ \A g \in Guests, s \in Slots : pirqatslot'[g][s] =
           IF g = current /\ s \in Ended THEN NoIrq ELSE pirqatslot[g][s]
  BY <1>1 DEF Maintenance
<1> QED
  BY <1>1, <1>2, <1>3, <1>4

(***************************************************************************)
(* A pirq is in the tables of one guest only.                              *)
(***************************************************************************)
LEMMA OneGuest ==
  ASSUME IInv, NEW p \in Pirqs, NEW g \in Guests, NEW h \in Guests,
         \/ \E s \in Slots : pirqatslot[g][s] = p
         \/ \E i \in Entries : EntryPirq(g, i) = p,
         \/ \E s \in Slots : pirqatslot[h][s] = p
         \/ \E i \in Entries : EntryPirq(h, i) = p
  PROVE  g = h
<1>1. ASSUME NEW k \in Guests,
             \/ \E s \in Slots : pirqatslot[k][s] = p
             \/ \E i \in Entries : EntryPirq(k, i) = p
      PROVE  Virqmap[k][p] # NoIrq
  <2>1. CASE \E s \in Slots : pirqatslot[k][s] = p
    BY <2>1 DEF IInv, SlotsStand, Stands
  <2>2. CASE \E i \in Entries : EntryPirq(k, i) = p
    <3>1. PICK i \in Entries : virqs[k][i] # NoEntry /\ virqs[k][i].pirq = p
      BY <2>2, IrqAssumption DEF EntryPirq
    <3> QED
      BY <3>1 DEF IInv, EntriesStand, Stands
  <2> QED
    BY <1>1, <2>1, <2>2
<1> QED
  BY <1>1, MapAssumption

(***************************************************************************)
(* The maintenance interrupt keeps the invariant: the pirqs it deactivates *)
(* are held by the slots it forgets and by nothing else.                   *)
(***************************************************************************)
LEMMA MaintenanceInv ==
  ASSUME IInv, Maintenance
  PROVE  IInv'
<1> DEFINE gone == {pirqatslot[current][s] : s \in Ended}
<1>1. /\ pc' = "exit" /\ active' = active \ gone
      /\ UNCHANGED <<current, status, virqs, enabled, forwarded>>
  BY DEF Maintenance
<1>2. TypeOK'
  BY <1>1, MaintenanceEffect DEF IInv, TypeOK
<1>3. Routed' /\ EntriesStand'
  BY <1>1 DEF IInv, Routed, EntriesStand, Stands
<1>4. TablesAgree'
  <2> SUFFICES ASSUME NEW g \in Guests, NEW s \in Slots
               PROVE  virqatslot'[g][s] = ListRegs(g)'[s].virq
    BY DEF TablesAgree
  <2>1. CASE g = current
    BY <1>1, <2>1, MaintenanceEffect DEF ListRegs, IInv, TablesAgree, LREmpty
  <2>2. CASE g # current
    BY <1>1, <2>2, MaintenanceEffect DEF ListRegs, IInv, TablesAgree
  <2> QED
    BY <2>1, <2>2
<1>5. SlotsStand'
  <2> SUFFICES ASSUME NEW g \in Guests, NEW s \in Slots
               PROVE  Stands(g, virqatslot'[g][s], pirqatslot'[g][s])
    BY DEF SlotsStand, Stands
  <2>1. CASE g = current /\ s \in Ended
    BY <2>1, MaintenanceEffect, IrqAssumption DEF Stands
  <2>2. CASE ~ (g = current /\ s \in Ended)
    BY <2>2, MaintenanceEffect DEF IInv, SlotsStand
  <2> QED
    BY <2>1, <2>2
<1>6. \A g \in Guests, i \in Entries : EntryPirq(g, i)' = EntryPirq(g, i)
  BY <1>1 DEF EntryPirq
<1>7. ASSUME NEW g \in Guests, NEW s \in Slots, pirqatslot'[g][s] \in Pirqs
      PROVE  pirqatslot'[g][s] = pirqatslot[g][s] /\ pirqatslot[g][s] \notin gone
  <2>1. pirqatslot'[g][s] = pirqatslot[g][s] /\ ~ (g = current /\ s \in Ended)
    BY <1>7, MaintenanceEffect, IrqAssumption
  <2> SUFFICES ASSUME NEW t \in Ended, pirqatslot[current][t] = pirqatslot[g][s]
               PROVE  FALSE
    BY <2>1
  <2>2. t \in Slots /\ current \in Guests /\ pirqatslot[g][s] \in Pirqs
    BY <1>7, <2>1, MaintenanceEffect DEF Ended
  <2>3. g = current
    BY <2>2, OneGuest
  <2> QED
    BY <2>1, <2>2, <2>3 DEF IInv, SlotsHold
<1>8. ASSUME NEW g \in Guests, NEW i \in Entries, EntryPirq(g, i) \in Pirqs
      PROVE  EntryPirq(g, i) \notin gone
  <2> SUFFICES ASSUME NEW t \in Ended, pirqatslot[current][t] = EntryPirq(g, i)
               PROVE  FALSE
    OBVIOUS
  <2>1. t \in Slots /\ current \in Guests
    BY MaintenanceEffect DEF Ended
  <2>2. g = current
    BY <1>8, <2>1, OneGuest
  <2> QED
    BY <1>8, <2>1, <2>2 DEF IInv, SlotsHold
<1> HIDE DEF gone
<1>9. SlotsHold'
  <2> SUFFICES ASSUME NEW g \in Guests, NEW s \in Slots, pirqatslot'[g][s] \in Pirqs
               PROVE  /\ pirqatslot'[g][s] \in active'
                      /\ \A t \in Slots : pirqatslot'[g][t] = pirqatslot'[g][s] => s = t
                      /\ \A i \in Entries : EntryPirq(g, i)' # pirqatslot'[g][s]
    BY DEF SlotsHold
  <2>1. pirqatslot'[g][s] \in active'
    BY <1>1, <1>7 DEF IInv, SlotsHold
  <2>2. \A t \in Slots : pirqatslot'[g][t] = pirqatslot'[g][s] => s = t
    BY <1>7 DEF IInv, SlotsHold
  <2> QED
    BY <1>6, <1>7, <2>1, <2>2 DEF IInv, SlotsHold
<1>10. EntriesHold'
  BY <1>1, <1>6, <1>8 DEF IInv, EntriesHold
<1> QED
  BY <1>2, <1>3, <1>4, <1>5, <1>9, <1>10 DEF IInv

(***************************************************************************)
(* vgicd_changed_istatus keeps the invariant.                              *)
(***************************************************************************)
LEMMA EnableInv ==
  ASSUME IInv, NEW p \in Pirqs, EnableIrq(p) \/ DisableIrq(p)
  PROVE  IInv'
<1>1. /\ pc' = "exit" /\ UNCHANGED <<current, lr, status, tables, active>>
      /\ current \in Guests /\ Virqmap[current][p] # NoIrq
  BY DEF EnableIrq, DisableIrq, IInv, TypeOK
<1>2. /\ TablesAgree' /\ SlotsStand' /\ EntriesStand'
      /\ SlotsHold' /\ EntriesHold'
  BY <1>1 DEF tables, IInv, TablesAgree, SlotsStand, EntriesStand, Stands,
              SlotsHold, EntriesHold, EntryPirq, ListRegs
<1>3. CASE EnableIrq(p)
  <2>1. /\ enabled' = [enabled EXCEPT ![current] = @ \union {p}]
        /\ forwarded' = forwarded \union {p}
    BY <1>3 DEF EnableIrq
  <2>2. enabled \in [Guests -> SUBSET Pirqs]
    BY DEF IInv, TypeOK
  <2>3. /\ enabled' \in [Guests -> SUBSET Pirqs]
        /\ \A g \in Guests : enabled'[g] =
             IF g = current THEN enabled[g] \union {p} ELSE enabled[g]
    BY <1>1, <2>1, <2>2
  <2>4. Routed'
    BY <1>1, <2>1, <2>3 DEF IInv, Routed
  <2>5. TypeOK'
    BY <1>1, <2>1, <2>3 DEF tables, IInv, TypeOK
  <2> QED
    BY <1>2, <2>4, <2>5 DEF IInv
<1>4. CASE DisableIrq(p)
  <2>1. forwarded' = forwarded \ {p} /\ enabled' = enabled
    BY <1>4 DEF DisableIrq
  <2>2. TypeOK' /\ Routed'
    BY <1>1, <2>1 DEF tables, IInv, TypeOK, Routed
  <2> QED
    BY <1>2, <2>2 DEF IInv
<1> QED
  BY <1>3, <1>4

-----------------------------------------------------------------------------
(* The guest, and the return to it *)

(***************************************************************************)
(* The guest's acknowledge and end of a virq leave it in its register.     *)
(***************************************************************************)
LEMMA GuestInv ==
  ASSUME IInv, NEW s \in Slots, Ack(s) \/ Eoi(s)
  PROVE  IInv'
<1>1. /\ UNCHANGED <<pc, current, status, tables, enabled, forwarded, active>>
      /\ current \in Guests /\ lr \in [Slots -> LRs]
      /\ lr[s].state \in {"pending", "active"}
  BY DEF Ack, Eoi, IInv, TypeOK
<1>2. PICK st \in {"active", "eoi"} : lr' = [lr EXCEPT ![s].state = st]
  BY DEF Ack, Eoi
<1>3. lr[s] \in [state : {"pending", "active", "eoi"}, virq : Virqs]
  BY <1>1 DEF LRs, LREmpty
<1>4. [lr[s] EXCEPT !.state = st] \in LRs /\ [lr[s] EXCEPT !.state = st].virq = lr[s].virq
  BY <1>3 DEF LRs
<1>5. lr' \in [Slots -> LRs] /\ \A t \in Slots : lr'[t].virq = lr[t].virq
  BY <1>1, <1>2, <1>4
<1>6. TablesAgree'
  BY <1>1, <1>5 DEF tables, IInv, TablesAgree, ListRegs
<1>7. TypeOK'
  BY <1>1, <1>5 DEF tables, IInv, TypeOK
<1>8. Routed' /\ SlotsStand' /\ EntriesStand' /\ SlotsHold' /\ EntriesHold'
  BY <1>1 DEF tables, IInv, Routed, SlotsStand, EntriesStand, Stands,
              SlotsHold, EntriesHold, EntryPirq
<1> QED
  BY <1>6, <1>7, <1>8 DEF IInv

(***************************************************************************)
(* Steps that move the processor along and nothing else.                   *)
(***************************************************************************)
LEMMA MoveInv ==
  ASSUME IInv, OtherTrap \/ Stay \/ FlushDone \/ Abort \/ UNCHANGED vars
  PROVE  IInv'
<1>1. /\ UNCHANGED <<current, lr, status, tables, enabled, forwarded, active>>
      /\ pc' = pc \/ (current \in Guests /\ pc' \in {"guest", "exit"})
  BY DEF OtherTrap, Stay, FlushDone, Abort, vars, IInv, TypeOK
<1>2. TypeOK' /\ Routed' /\ TablesAgree'
  BY <1>1 DEF tables, IInv, TypeOK, Routed, TablesAgree, ListRegs
<1>3. SlotsStand' /\ EntriesStand' /\ SlotsHold' /\ EntriesHold'
  BY <1>1 DEF tables, IInv, SlotsStand, EntriesStand, Stands,
              SlotsHold, EntriesHold, EntryPirq
<1> QED
  BY <1>2, <1>3 DEF IInv

(***************************************************************************)
(* save_and_restore keeps every guest's list registers, hence the          *)
(* invariant.                                                              *)
(***************************************************************************)
LEMMA SwitchRegs ==
  ASSUME IInv, NEW h \in Guests, SwitchTo(h)
  PROVE  /\ lr' \in [Slots -> LRs]
         /\ status' \in [Guests -> [Slots -> LRs]]
         /\ \A g \in Guests : ListRegs(g)' = ListRegs(g)
<1>1. /\ lr \in [Slots -> LRs] /\ status \in [Guests -> [Slots -> LRs]]
      /\ current \in Guests \union {NoGuest}
  BY DEF IInv, TypeOK
<1>2. lr' = status[h] /\ current' = h /\ h # current
  BY DEF SwitchTo
<1>3. CASE current = NoGuest
  <2>1. status' = status
    BY <1>3 DEF SwitchTo
  <2> QED
    BY <1>1, <1>2, <1>3, <2>1, GuestAssumption DEF ListRegs
<1>4. CASE current # NoGuest
  <2>1. status' = [status EXCEPT ![current] = lr]
    BY <1>4 DEF SwitchTo
  <2> QED
    BY <1>1, <1>2, <1>4, <2>1 DEF ListRegs
<1> QED
  BY <1>3, <1>4

(***************************************************************************)
(* The switch keeps the invariant.                                         *)
(***************************************************************************)
LEMMA SwitchInv ==
  ASSUME IInv, NEW h \in Guests, SwitchTo(h)
  PROVE  IInv'
<1>1. /\ UNCHANGED <<tables, enabled, forwarded, active>>
      /\ current' = h /\ pc' = "flush"
  BY DEF SwitchTo
<1>2. TypeOK' /\ TablesAgree'
  BY <1>1, SwitchRegs DEF tables, IInv, TypeOK, TablesAgree
<1>3. Routed' /\ SlotsStand' /\ EntriesStand' /\ SlotsHold' /\ EntriesHold'
  BY <1>1 DEF tables, IInv, Routed, SlotsStand, EntriesStand, Stands,
              SlotsHold, EntriesHold, EntryPirq
<1> QED
  BY <1>2, <1>3 DEF IInv

(***************************************************************************)
(* vgic_flush_virqs moves one entry, with its pirq, to a list register.    *)
(***************************************************************************)
LEMMA FlushEffect ==
  ASSUME IInv, FlushOne
  PROVE  \E i \in Entries, s \in FreeSlots :
           /\ current \in Guests /\ virqs[current][i] \in QEntries
           /\ virqs[current][i] # NoEntry
           /\ InjectSlot(current, s, virqs[current][i].virq, virqs[current][i].pirq)
           /\ virqs' \in [Guests -> [Entries -> QEntries \union {NoEntry}]]
           /\ \A g \in Guests, j \in Entries : virqs'[g][j] =
                IF g = current /\ j = i THEN NoEntry ELSE virqs[g][j]
<1> DEFINE i == Smallest(Queued(current))
           s == Smallest(FreeSlots)
<1>1. current \in Guests /\ virqs \in [Guests -> [Entries -> QEntries \union {NoEntry}]]
  BY DEF FlushOne, IInv, TypeOK
<1>2. i \in Queued(current) /\ s \in FreeSlots
  BY <1>1, EntryIn, FreeSlotIn DEF FlushOne
<1>3. i \in Entries /\ virqs[current][i] # NoEntry /\ virqs[current][i] \in QEntries
  BY <1>1, <1>2 DEF Queued, FreeEntries
<1>4. /\ InjectSlot(current, s, virqs[current][i].virq, virqs[current][i].pirq)
      /\ virqs' = [virqs EXCEPT ![current][i] = NoEntry]
  BY DEF FlushOne
<1> HIDE DEF i, s
<1>5. /\ virqs' \in [Guests -> [Entries -> QEntries \union {NoEntry}]]
      /\ \A g \in Guests, j \in Entries : virqs'[g][j] =
           IF g = current /\ j = i THEN NoEntry ELSE virqs[g][j]
  BY <1>1, <1>3, <1>4
<1> QED
  BY <1>1, <1>2, <1>3, <1>4, <1>5

(***************************************************************************)
(* The flush keeps the invariant.                                          *)
(***************************************************************************)
LEMMA FlushInv ==
  ASSUME IInv, FlushOne
  PROVE  IInv'
<1>1. PICK i \in Entries, s \in FreeSlots :
        /\ current \in Guests /\ virqs[current][i] \in QEntries
        /\ virqs[current][i] # NoEntry
        /\ InjectSlot(current, s, virqs[current][i].virq, virqs[current][i].pirq)
        /\ virqs' \in [Guests -> [Entries -> QEntries \union {NoEntry}]]
        /\ \A g \in Guests, j \in Entries : virqs'[g][j] =
             IF g = current /\ j = i THEN NoEntry ELSE virqs[g][j]
  BY FlushEffect
<1>2. UNCHANGED <<pc, current, status, enabled, forwarded, active>>
  BY DEF FlushOne
<1> DEFINE v == virqs[current][i].virq
           p == virqs[current][i].pirq
<1>3. v \in Virqs /\ p \in Pirqs \union {NoIrq}
  BY <1>1 DEF QEntries
<1>4. Stands(current, v, p)
  BY <1>1 DEF IInv, EntriesStand
<1>5. EntryPirq(current, i) = p
  BY <1>1 DEF EntryPirq
<1>6. InjectSlot(current, s, v, p) /\ current \in Guests
  BY <1>1
<1> HIDE DEF v, p
<1>7. \A g \in Guests, j \in Entries : EntryPirq(g, j)' =
        IF g = current /\ j = i THEN NoIrq ELSE EntryPirq(g, j)
  BY <1>1 DEF EntryPirq
<1>8. TypeOK'
  BY <1>1, <1>2, <1>3, <1>6, InjectSlotEffect DEF IInv, TypeOK
<1>9. TablesAgree' /\ SlotsStand'
  BY <1>2, <1>3, <1>4, <1>6, InjectSlotAgrees
<1>10. Routed' /\ EntriesStand'
  BY <1>1, <1>2 DEF IInv, Routed, EntriesStand, Stands
<1>11. SlotsHold'
  <2> SUFFICES ASSUME NEW g \in Guests, NEW t \in Slots, pirqatslot'[g][t] \in Pirqs
               PROVE  /\ pirqatslot'[g][t] \in active'
                      /\ \A u \in Slots : pirqatslot'[g][u] = pirqatslot'[g][t] => t = u
                      /\ \A j \in Entries : EntryPirq(g, j)' # pirqatslot'[g][t]
    BY DEF SlotsHold
  <2>1. \A u \in Slots : pirqatslot'[g][u] =
          IF g = current /\ u = s THEN p ELSE pirqatslot[g][u]
    BY <1>3, <1>6, InjectSlotEffect
  <2>2. CASE g = current /\ t = s
    BY <1>2, <1>5, <1>6, <1>7, <2>1, <2>2, IrqAssumption
    DEF IInv, SlotsHold, EntriesHold
  <2>3. CASE ~ (g = current /\ t = s)
    BY <1>2, <1>5, <1>6, <1>7, <2>1, <2>3, IrqAssumption DEF IInv, SlotsHold
  <2> QED
    BY <2>2, <2>3
<1>12. EntriesHold'
  BY <1>2, <1>7, IrqAssumption DEF IInv, EntriesHold
<1> QED
  BY <1>8, <1>9, <1>10, <1>11, <1>12 DEF IInv

-----------------------------------------------------------------------------
(* Invariants *)

(***************************************************************************)
(* The invariant holds after interrupt_init and vgic_init.                 *)
(***************************************************************************)
LEMMA InitInv == Init => IInv
<1> SUFFICES ASSUME Init PROVE IInv
  OBVIOUS
<1> USE DEF Init
<1>1. TypeOK
  BY DEF TypeOK, LRs
<1>2. Routed /\ TablesAgree
  BY GuestAssumption DEF Routed, TablesAgree, ListRegs, LREmpty
<1>3. SlotsStand /\ EntriesStand
  BY IrqAssumption DEF SlotsStand, EntriesStand, Stands
<1>4. SlotsHold /\ EntriesHold
  BY IrqAssumption DEF SlotsHold, EntriesHold, EntryPirq
<1> QED
  BY <1>1, <1>2, <1>3, <1>4 DEF IInv

(***************************************************************************)
(* Every step keeps the invariant.                                         *)
(***************************************************************************)
LEMMA NextInv == IInv /\ [Next]_vars => IInv'
<1> SUFFICES ASSUME IInv, [Next]_vars PROVE IInv'
  OBVIOUS
<1>1. ASSUME NEW p \in Pirqs, GuestIrq(p) PROVE IInv'
  BY <1>1, GuestIrqInv
<1>2. ASSUME NEW p \in Pirqs, EnableIrq(p) \/ DisableIrq(p) PROVE IInv'
  BY <1>2, EnableInv
<1>3. ASSUME NEW g \in Guests, NEW v \in SwVirqs, SwInject(g, v) PROVE IInv'
  <2>1. /\ pc = "guest" /\ {g} \in SUBSET Guests /\ v \in SwVirqs \union Sgis
        /\ virq_inject({g}, [h \in Guests |-> v], NoIrq) /\ pc' \in {"exit", "abort"}
        /\ UNCHANGED <<current, status, enabled, forwarded, active>>
    BY <1>3 DEF SwInject
  <2> QED
    BY <2>1, SoftInv
<1>4. ASSUME NEW T \in SUBSET Guests, NEW v \in Sgis, Sgi(T, v) PROVE IInv'
  <2>1. /\ pc = "guest" /\ v \in SwVirqs \union Sgis
        /\ virq_inject(T, [h \in Guests |-> v], NoIrq) /\ pc' \in {"exit", "abort"}
        /\ UNCHANGED <<current, status, enabled, forwarded, active>>
    BY <1>4 DEF Sgi
  <2> QED
    BY <2>1, SoftInv
<1>5. ASSUME NEW s \in Slots, Ack(s) \/ Eoi(s) PROVE IInv'
  BY <1>5, GuestInv
<1>6. ASSUME NEW g \in Guests, SwitchTo(g) PROVE IInv'
  BY <1>6, SwitchInv
<1>7. CASE Maintenance
  BY <1>7, MaintenanceInv
<1>8. CASE FlushOne
  BY <1>8, FlushInv
<1>9. CASE OtherTrap \/ Stay \/ FlushDone \/ Abort \/ UNCHANGED vars
  BY <1>9, MoveInv
<1> QED
  BY <1>1, <1>2, <1>3, <1>4, <1>5, <1>6, <1>7, <1>8, <1>9 DEF Next

(***************************************************************************)
(* The invariant of interrupt delivery.                                    *)
(***************************************************************************)
THEOREM Invariance == Spec => []IInv
BY InitInv, NextInv, PTL DEF Spec

(***************************************************************************)
(* The registers, tables and queues keep their types.                      *)
(***************************************************************************)
THEOREM TypeCorrect == Spec => []TypeOK
<1>1. IInv => TypeOK
  BY DEF IInv
<1> QED
  BY <1>1, Invariance, PTL

(***************************************************************************)
(* The slot tables describe the list registers of every guest, the running *)
(* one's in the hardware and the others' saved.                            *)
(***************************************************************************)
THEOREM SlotTablesAgree == Spec => []SlotsAgree
<1>1. IInv => SlotsAgree
  BY DEF IInv, TablesAgree, SlotsStand, Stands, SlotsAgree
<1> QED
  BY <1>1, Invariance, PTL

(***************************************************************************)
(* Every pirq that awaits deactivation is active and has one holder.       *)
(***************************************************************************)
THEOREM HeldOnce == Spec => []OneHolder
<1>1. ASSUME IInv PROVE OneHolder
  <2> SUFFICES ASSUME NEW p \in Pirqs
               PROVE  /\ Held(p) => p \in active
                      /\ \A x, y \in HeldBySlot(p) : x = y
                      /\ \A x, y \in HeldByEntry(p) : x = y
                      /\ HeldBySlot(p) = {} \/ HeldByEntry(p) = {}
    BY DEF OneHolder
  <2>1. ASSUME NEW x \in HeldBySlot(p)
        PROVE  /\ x[1] \in Guests /\ x[2] \in Slots /\ x = <<x[1], x[2]>>
               /\ pirqatslot[x[1]][x[2]] = p
    BY DEF HeldBySlot
  <2>2. ASSUME NEW x \in HeldByEntry(p)
        PROVE  /\ x[1] \in Guests /\ x[2] \in Entries /\ x = <<x[1], x[2]>>
               /\ EntryPirq(x[1], x[2]) = p
    BY DEF HeldByEntry, EntryPirq
  <2>3. Held(p) => p \in active
    BY <1>1, <2>1, <2>2 DEF Held, IInv, SlotsHold, EntriesHold
  <2>4. ASSUME NEW x \in HeldBySlot(p), NEW y \in HeldBySlot(p) PROVE x = y
    <3>1. x[1] = y[1]
      BY <1>1, <2>1, OneGuest
    <3>2. x[2] = y[2]
      BY <1>1, <2>1, <3>1 DEF IInv, SlotsHold
    <3> QED
      BY <2>1, <3>1, <3>2
  <2>5. ASSUME NEW x \in HeldByEntry(p), NEW y \in HeldByEntry(p) PROVE x = y
    <3>1. x[1] = y[1]
      BY <1>1, <2>2, OneGuest
    <3>2. x[2] = y[2]
      BY <1>1, <2>2, <3>1 DEF IInv, EntriesHold
    <3> QED
      BY <2>2, <3>1, <3>2
  <2>6. ASSUME NEW x \in HeldBySlot(p), NEW y \in HeldByEntry(p) PROVE FALSE
    <3>1. x[1] = y[1]
      BY <1>1, <2>1, <2>2, OneGuest
    <3> QED
      BY <1>1, <2>1, <2>2, <3>1 DEF IInv, SlotsHold
  <2> QED
    BY <2>3, <2>4, <2>5, <2>6
<1> QED
  BY <1>1, Invariance, PTL

(***************************************************************************)
(* No device's virq is in two list registers of a guest.                   *)
(***************************************************************************)
THEOREM DeviceVirqsOnce == Spec => []DeviceVirqOnce
<1>1. IInv => DeviceVirqOnce
  <2> SUFFICES ASSUME IInv, NEW g \in Guests, NEW p \in Pirqs,
                      NEW s \in Slots, NEW t \in Slots,
                      Virqmap[g][p] # NoIrq,
                      ListRegs(g)[s].virq = Virqmap[g][p],
                      ListRegs(g)[t].virq = Virqmap[g][p]
               PROVE  s = t
    BY DEF DeviceVirqOnce
  <2>1. virqatslot[g][s] = Virqmap[g][p] /\ virqatslot[g][t] = Virqmap[g][p]
    BY DEF IInv, TablesAgree
  <2>2. pirqatslot[g][s] = p /\ pirqatslot[g][t] = p
    BY <2>1 DEF IInv, SlotsStand, Stands
  <2> QED
    BY <2>2 DEF IInv, SlotsHold
<1> QED
  BY <1>1, Invariance, PTL

-----------------------------------------------------------------------------
(* Action properties *)

(***************************************************************************)
(* guest_perform_switch changes no guest's list registers.                 *)
(***************************************************************************)
THEOREM SwitchInvisible == Spec => SwitchKeepsListRegs
<1>1. IInv /\ [Next]_vars =>
        [pc = "exit" => \A g \in Guests : ListRegs(g)' = ListRegs(g)]_vars
  <2> SUFFICES ASSUME IInv, Next, pc = "exit"
               PROVE  \A g \in Guests : ListRegs(g)' = ListRegs(g)
    OBVIOUS
  <2>1. Stay \/ \E h \in Guests : SwitchTo(h)
    BY DEF Next, GuestIrq, EnableIrq, DisableIrq, SwInject, Sgi, Ack, Eoi,
           OtherTrap, Maintenance, FlushOne, FlushDone, Abort
  <2>2. CASE Stay
    BY <2>2 DEF Stay, ListRegs
  <2> QED
    BY <2>1, <2>2, SwitchRegs
<1> QED
  BY <1>1, Invariance, PTL DEF Spec, SwitchKeepsListRegs

(***************************************************************************)
(* A pirq is deactivated only for a virq its guest has ended.              *)
(***************************************************************************)
THEOREM DeactivationFollowsEoi == Spec => DeactivatedAfterEoi
<1>1. IInv /\ [Next]_vars =>
        [\A p \in active \ active' :
           \E s \in Slots : /\ lr[s].state = "eoi"
                            /\ lr[s].virq = Virqmap[current][p]]_vars
  <2> SUFFICES ASSUME IInv, Next, NEW p \in active \ active'
               PROVE  \E s \in Slots : /\ lr[s].state = "eoi"
                                       /\ lr[s].virq = Virqmap[current][p]
    OBVIOUS
  <2>1. Maintenance
    BY DEF Next, GuestIrq, EnableIrq, DisableIrq, SwInject, Sgi, Ack, Eoi,
           OtherTrap, Stay, SwitchTo, FlushOne, FlushDone, Abort, vars
  <2>2. PICK s \in Ended : pirqatslot[current][s] = p
    BY <2>1 DEF Maintenance
  <2>3. s \in Slots /\ lr[s].state = "eoi" /\ current \in Guests /\ p \in Pirqs
    BY <2>1 DEF Ended, Maintenance, IInv, TypeOK
  <2>4. virqatslot[current][s] = lr[s].virq
    BY <2>3 DEF IInv, TablesAgree, ListRegs
  <2>5. virqatslot[current][s] = Virqmap[current][p]
    BY <2>2, <2>3 DEF IInv, SlotsStand, Stands
  <2> QED
    BY <2>3, <2>4, <2>5
<1> QED
  BY <1>1, Invariance, PTL DEF Spec, DeactivatedAfterEoi

-----------------------------------------------------------------------------
(* Stranded interrupts *)

\* Held, place by place.
Has(p) ==
  \E g \in Guests : \/ \E s \in Slots : pirqatslot[g][s] = p
                    \/ \E i \in Entries : EntryPirq(g, i) = p

(***************************************************************************)
(* A holder is a place that has the pirq.                                  *)
(***************************************************************************)
LEMMA HeldIsHas ==
  ASSUME NEW p \in Pirqs
  PROVE  (Held(p) => Has(p)) /\ (Has(p)' => Held(p)')
<1>1. NoIrq # p
  BY IrqAssumption
<1>2. ASSUME NEW x \in HeldBySlot(p) PROVE Has(p)
  <2>1. x[1] \in Guests /\ x[2] \in Slots /\ pirqatslot[x[1]][x[2]] = p
    BY DEF HeldBySlot
  <2> QED
    BY <2>1 DEF Has
<1>3. ASSUME NEW x \in HeldByEntry(p) PROVE Has(p)
  <2>1. x[1] \in Guests /\ x[2] \in Entries /\ EntryPirq(x[1], x[2]) = p
    BY DEF HeldByEntry, EntryPirq
  <2> QED
    BY <2>1 DEF Has
<1>4. ASSUME NEW g \in Guests, NEW s \in Slots, pirqatslot'[g][s] = p
      PROVE  Held(p)'
  <2>1. <<g, s>> \in HeldBySlot(p)'
    BY <1>4 DEF HeldBySlot
  <2> QED
    BY <2>1 DEF Held
<1>5. ASSUME NEW g \in Guests, NEW i \in Entries, EntryPirq(g, i)' = p
      PROVE  Held(p)'
  <2>1. virqs'[g][i] # NoEntry /\ virqs'[g][i].pirq = p
    BY <1>1, <1>5 DEF EntryPirq
  <2>2. <<g, i>> \in HeldByEntry(p)'
    BY <2>1 DEF HeldByEntry
  <2> QED
    BY <2>2 DEF Held
<1>6. Held(p) => Has(p)
  BY <1>2, <1>3 DEF Held
<1>7. Has(p)' => Held(p)'
  BY <1>4, <1>5 DEF Has
<1> QED
  BY <1>6, <1>7

(***************************************************************************)
(* No injection takes a pirq from its place.                               *)
(***************************************************************************)
LEMMA InjectKeeps ==
  ASSUME IInv, current \in Guests, NEW T, NEW V, NEW p, Injection(T, V, p),
         NEW q \in Pirqs, Has(q)
  PROVE  Has(q)'
<1>1. q # NoIrq
  BY IrqAssumption
<1> QED
  BY <1>1, InjectPlaces DEF Has

(***************************************************************************)
(* A physical interrupt finds a place where its guest has one.             *)
(***************************************************************************)
LEMMA GuestIrqStores ==
  ASSUME IInv, NEW p \in Pirqs, GuestIrq(p), ~ Has(p)'
  PROVE  \E g \in Guests : Virqmap[g][p] # NoIrq /\ NoRoom(g)
<1> DEFINE V == [g \in Guests |-> Virqmap[g][p]]
<1>1. current \in Guests /\ p \notin active /\ p \in forwarded /\ p # NoIrq
  BY IrqAssumption DEF GuestIrq, IInv, TypeOK
<1>2. PICK g \in Guests : p \in enabled[g]
  BY <1>1 DEF IInv, Routed
<1>3. g \in Targets(p) /\ Virqmap[g][p] # NoIrq /\ V[g] = Virqmap[g][p]
  BY <1>2 DEF Targets, IInv, Routed
<1>4. Injection(Targets(p), V, p) /\ virq_inject(Targets(p), V, p)
  BY GuestIrqInjects DEF GuestIrq
<1> HIDE DEF V
<1> SUFFICES ASSUME ~ NoRoom(g) PROVE FALSE
  BY <1>3
<1>5. CASE g = current
  <2>1. FreeSlots # {} /\ Accepts(g, V[g])
    BY <1>5 DEF NoRoom, Accepts
  <2>2. InjectSlot(current, Smallest(FreeSlots), V[current], p)
    BY <1>3, <1>4, <1>5, <2>1 DEF virq_inject
  <2>3. /\ Smallest(FreeSlots) \in FreeSlots
        /\ V[current] \in Virqs /\ p \in Pirqs \union {NoIrq}
    BY <1>3, <1>4, <1>5, <2>1, FreeSlotIn DEF Injection
  <2>4. Smallest(FreeSlots) \in Slots /\ pirqatslot'[current][Smallest(FreeSlots)] = p
    BY <1>1, <2>2, <2>3, InjectSlotEffect
  <2> QED
    BY <1>1, <2>4 DEF Has
<1>6. CASE g # current
  <2>1. FreeEntries(g) # {}
    BY <1>6 DEF NoRoom
  <2>2. ASSUME NEW s \in Slots, virqatslot[g][s] = Virqmap[g][p] PROVE FALSE
    <3>1. pirqatslot[g][s] = p
      BY <1>3, <2>2 DEF IInv, SlotsStand, Stands
    <3> QED
      BY <1>1, <3>1 DEF IInv, SlotsHold
  <2>3. Accepts(g, V[g])
    BY <1>3, <1>6, <2>1, <2>2 DEF Accepts, VirqAtSlot
  <2>4. PICK i \in Entries : i = Smallest(FreeEntries(g))
    BY <2>1, EntryIn DEF FreeEntries
  <2>5. virqs'[g] = [virqs[g] EXCEPT ![i] = [virq |-> V[g], pirq |-> p]]
    BY <1>3, <1>4, <1>6, <2>3, <2>4 DEF virq_inject
  <2>6. virqs[g] \in [Entries -> QEntries \union {NoEntry}] /\ V[g] \in Virqs
    BY <1>3, <1>4 DEF IInv, TypeOK, Injection
  <2>7. virqs'[g][i] = [virq |-> V[g], pirq |-> p]
    BY <2>4, <2>5, <2>6
  <2>8. virqs'[g][i] # NoEntry
    BY <2>6, <2>7, IrqAssumption
  <2>9. EntryPirq(g, i)' = p
    BY <2>7, <2>8 DEF EntryPirq
  <2> QED
    BY <2>4, <2>9 DEF Has
<1> QED
  BY <1>5, <1>6

(***************************************************************************)
(* The maintenance interrupt forgets a pirq only when it deactivates it,   *)
(* and the flush takes it from the queue to a list register.               *)
(***************************************************************************)
LEMMA CleanKeeps ==
  ASSUME IInv, Maintenance \/ FlushOne, NEW p \in Pirqs, Has(p), p \in active'
  PROVE  Has(p)'
<1>1. p # NoIrq
  BY IrqAssumption
<1>2. CASE Maintenance
  <2>1. virqs' = virqs /\ \A s \in Ended : pirqatslot[current][s] # p
    BY <1>2 DEF Maintenance
  <2>2. \A g \in Guests, s \in Slots : pirqatslot[g][s] = p => pirqatslot'[g][s] = p
    BY <1>2, <2>1, MaintenanceEffect
  <2>3. \A g \in Guests, i \in Entries : EntryPirq(g, i)' = EntryPirq(g, i)
    BY <2>1 DEF EntryPirq
  <2> QED
    BY <2>2, <2>3 DEF Has
<1>3. CASE FlushOne
  <2>1. PICK i \in Entries, s \in FreeSlots :
          /\ current \in Guests /\ virqs[current][i] \in QEntries
          /\ virqs[current][i] # NoEntry
          /\ InjectSlot(current, s, virqs[current][i].virq, virqs[current][i].pirq)
          /\ \A g \in Guests, j \in Entries : virqs'[g][j] =
               IF g = current /\ j = i THEN NoEntry ELSE virqs[g][j]
    BY <1>3, FlushEffect
  <2>2. /\ virqs[current][i].virq \in Virqs
        /\ virqs[current][i].pirq \in Pirqs \union {NoIrq}
    BY <2>1 DEF QEntries
  <2>3. /\ s \in Slots /\ pirqatslot'[current][s] = EntryPirq(current, i)
        /\ \A g \in Guests, t \in Slots :
             pirqatslot[g][t] # NoIrq => pirqatslot'[g][t] = pirqatslot[g][t]
    BY <2>1, <2>2, InjectSlotEffect DEF EntryPirq
  <2>4. \A g \in Guests, j \in Entries :
          EntryPirq(g, j)' = EntryPirq(g, j) \/ (g = current /\ j = i)
    BY <2>1 DEF EntryPirq
  <2> QED
    BY <1>1, <2>1, <2>3, <2>4 DEF Has
<1> QED
  BY <1>2, <1>3

(***************************************************************************)
(* An interrupt is stranded only by arriving when its guest has no room.   *)
(***************************************************************************)
THEOREM StrandedByOverflow == Spec => StrandedOnlyWhenFull
<1>1. IInv /\ [Next]_vars =>
        [\A p \in Pirqs : Stranded(p)' /\ ~ Stranded(p) =>
           \E g \in Guests : Virqmap[g][p] # NoIrq /\ NoRoom(g)]_vars
  <2> SUFFICES ASSUME IInv, Next, NEW p \in Pirqs, Stranded(p)', ~ Stranded(p)
               PROVE  \E g \in Guests : Virqmap[g][p] # NoIrq /\ NoRoom(g)
    OBVIOUS
  <2>1. p \in active' /\ ~ Has(p)' /\ (p \in active => Has(p))
    BY HeldIsHas DEF Stranded
  <2>2. ASSUME NEW q \in Pirqs, GuestIrq(q), q # p PROVE FALSE
    <3>1. current \in Guests /\ p \in active
      BY <2>1, <2>2 DEF GuestIrq, IInv, TypeOK
    <3> QED
      BY <2>1, <2>2, <3>1, GuestIrqInjects, InjectKeeps
  <2>3. ASSUME NEW T \in SUBSET Guests, NEW v \in SwVirqs \union Sgis, pc = "guest",
               virq_inject(T, [h \in Guests |-> v], NoIrq),
               UNCHANGED <<current, status, active>>
        PROVE  FALSE
    <3>1. current \in Guests /\ p \in active
      BY <2>1, <2>3 DEF IInv, TypeOK
    <3>2. Injection(T, [h \in Guests |-> v], NoIrq)
      BY <2>3, SoftInjects
    <3> QED
      BY <2>1, <3>1, <3>2, InjectKeeps
  <2>4. ASSUME UNCHANGED <<pirqatslot, virqs, active>> PROVE FALSE
    BY <2>1, <2>4 DEF Has, EntryPirq
  <2>5. ASSUME Maintenance \/ FlushOne PROVE FALSE
    <3>1. p \in active
      BY <2>1, <2>5 DEF Maintenance, FlushOne
    <3> QED
      BY <2>1, <2>5, <3>1, CleanKeeps
  <2>6. ASSUME NEW g \in Guests, NEW v \in SwVirqs, SwInject(g, v) PROVE FALSE
    <3>1. {g} \in SUBSET Guests
      OBVIOUS
    <3> QED
      BY <2>3, <2>6, <3>1 DEF SwInject
  <2>7. ASSUME NEW T \in SUBSET Guests, NEW v \in Sgis, Sgi(T, v) PROVE FALSE
    BY <2>3, <2>7 DEF Sgi
  <2>8. GuestIrq(p)
    BY <2>2, <2>4, <2>5, <2>6, <2>7
    DEF Next, EnableIrq, DisableIrq, Ack, Eoi, SwitchTo, OtherTrap, Stay,
        FlushDone, Abort, vars, tables
  <2> QED
    BY <2>1, <2>8, GuestIrqStores
<1> QED
  BY <1>1, Invariance, PTL DEF Spec, StrandedOnlyWhenFull
=============================================================================
