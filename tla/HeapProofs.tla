------------------------------ MODULE HeapProofs ------------------------------
(***************************************************************************)
(* Proofs about the heap, for every page size, every size of the heap and  *)
(* every set of requests, those that wrap the address space included.      *)
(***************************************************************************)
EXTENDS Heap, TLAPS

(***************************************************************************)
(* GrowthSound with mm_break at a page.  After a failure nothing is left   *)
(* between last_valid_address and the end of the heap.                     *)
(***************************************************************************)
Grown ==
  /\ ~ failed => brk = last /\ Mapped = HEAP_ADDR .. brk - 1 /\ brk % PageUnits = 0
  /\ failed /\ pc # "stray" => last = HEAP_END_ADDR
  /\ pc # "stray" => \A u \in Mapped : u < brk

(***************************************************************************)
(* Every written link leads to a header that has one, and the loops are at *)
(* such headers.  freep_base is of size 0, so it is never handed out.      *)
(***************************************************************************)
Threaded ==
  /\ \A c \in Addrs : ptr[c] # Null => Listed(ptr[c])
  /\ freep # Null => Listed(freep)
  /\ freep = Null => pc = "idle" /\ Live = {}
  /\ pc \in {"search", "free", "grow"} => Listed(p)
  /\ pc = "search" => Listed(prevp) /\ nu \in Requests
  /\ pc = "grow" => nu \in Requests
  /\ pc \in {"free", "grow"} => bp \in Mapped
  /\ Live \subseteq Mapped /\ size[Base] = 0

HeapInv == TypeOK /\ Grown /\ Threaded

-----------------------------------------------------------------------------
(* Arithmetic *)

LEMMA Multiply ==
  ASSUME NEW d \in Nat, NEW a \in Int, NEW b \in Int, a <= b
  PROVE  a * d <= b * d
<1>1. \A c \in Nat : c * d >= 0
  OBVIOUS
<1>2. b * d = a * d + (b - a) * d
  OBVIOUS
<1>3. (b - a) * d >= 0
  BY <1>1
<1> QED
  BY <1>2, <1>3

\* A unit lies in pages k to k + m - 1 just when its address does.
LEMMA PageRange ==
  ASSUME NEW d \in Nat \ {0}, NEW u \in Nat, NEW k \in Nat, NEW m \in Nat
  PROVE  u \div d \in k .. k + m - 1 <=> k * d <= u /\ u < (k + m) * d
<1> DEFINE q == u \div d
           r == u % d
<1>1. q \in Nat /\ r \in 0 .. d - 1 /\ u = q * d + r
  OBVIOUS
<1> HIDE DEF q, r
<1>2. ASSUME q \in k .. k + m - 1 PROVE k * d <= u /\ u < (k + m) * d
  <2>1. k * d <= q * d /\ (q + 1) * d <= (k + m) * d
    BY <1>1, <1>2, Multiply
  <2> QED
    BY <1>1, <2>1
<1>3. ASSUME k * d <= u, u < (k + m) * d PROVE q \in k .. k + m - 1
  <2>1. ASSUME q < k PROVE FALSE
    <3>1. (q + 1) * d <= k * d
      BY <1>1, <2>1, Multiply
    <3> QED
      BY <1>1, <1>3, <3>1
  <2>2. ASSUME q >= k + m PROVE FALSE
    <3>1. (k + m) * d <= q * d
      BY <1>1, <2>2, Multiply
    <3> QED
      BY <1>1, <1>3, <3>1
  <2> QED
    BY <1>1, <2>1, <2>2
<1> QED
  BY <1>2, <1>3 DEF q

\* Where the heap is.
LEMMA Geometry ==
  /\ HEAP_ADDR \in Nat \ {0} /\ HEAP_END_ADDR \in Nat /\ HEAP_ADDR < HEAP_END_ADDR
  /\ \A u \in Units : u \in Nat /\ u # Base /\ u \in Addrs /\ u \div PageUnits \in Pages
  /\ Addrs \subseteq Nat /\ Base \in Addrs /\ Null \notin Addrs
<1>1. HEAP_ADDR \in Nat \ {0} /\ HEAP_END_ADDR \in Nat
  BY HeapAssumption DEF HEAP_ADDR, HEAP_END_ADDR
<1>2. 2 * PageUnits <= HEAP_END_ADDR
  BY HeapAssumption, Multiply DEF HEAP_END_ADDR
<1>3. HEAP_ADDR < HEAP_END_ADDR
  BY <1>1, <1>2, HeapAssumption DEF HEAP_ADDR
<1>4. ASSUME NEW u \in Units PROVE u \div PageUnits \in Pages
  <2>1. u \in Nat /\ 1 * PageUnits <= u /\ u < (1 + HeapPages) * PageUnits
    BY HeapAssumption, <1>1 DEF Units, HEAP_ADDR, HEAP_END_ADDR
  <2>2. u \div PageUnits \in 1 .. 1 + HeapPages - 1
    BY <2>1, HeapAssumption, PageRange
  <2> QED
    BY <2>2, HeapAssumption DEF Pages
<1> QED
  BY <1>1, <1>3, <1>4 DEF Units, Addrs, Base, Null

\* A page's units are units of the heap.
LEMMA Cell ==
  ASSUME NEW f \in Pages, NEW r \in 0 .. PageUnits - 1
  PROVE  (f * PageUnits) + r \in Units
<1>1. PageUnits \in Nat \ {0} /\ f \in Nat /\ 1 <= f /\ f <= HeapPages /\ HeapPages \in Nat
  BY HeapAssumption DEF Pages
<1>2. f * PageUnits \in Nat /\ 1 * PageUnits <= f * PageUnits /\ (f + 1) * PageUnits <= (HeapPages + 1) * PageUnits
  BY <1>1, Multiply
<1>3. (f + 1) * PageUnits = (f * PageUnits) + PageUnits
  BY <1>1
<1> HIDE DEF Pages
<1>4. (HeapPages + 1) * PageUnits \in Nat
  BY <1>1
<1> DEFINE x == f * PageUnits
           y == (HeapPages + 1) * PageUnits
           z == (f + 1) * PageUnits
<1>5. x \in Nat /\ y \in Nat /\ PageUnits <= x /\ z <= y /\ z = x + PageUnits
  BY <1>1, <1>2, <1>3, <1>4
<1> HIDE DEF x, y, z
<1>6. x + r \in PageUnits .. y - 1
  BY <1>1, <1>5
<1> QED
  BY <1>6 DEF x, y, Units, HEAP_ADDR, HEAP_END_ADDR

\* A mapped unit has a cell of the heap's memory.
LEMMA PhysCell ==
  ASSUME TypeOK
  PROVE  /\ Base \in Addrs /\ Phys(Base) = Base
         /\ \A a \in Mapped : a \in Units /\ a \in Addrs /\ Phys(a) \in Units /\ Phys(a) \in Addrs
                              /\ Phys(a) # Base
<1>1. ASSUME NEW a \in Mapped PROVE a \in Units /\ a \in Addrs /\ Phys(a) \in Units /\ Phys(a) \in Addrs /\ Phys(a) # Base
  <2>1. a \in Units /\ frame[a \div PageUnits] # 0 /\ a \in Nat /\ a # Base /\ a \in Addrs
        /\ a \div PageUnits \in Pages
    BY Geometry DEF Mapped
  <2>2. frame[a \div PageUnits] \in Pages
    BY <2>1 DEF TypeOK
  <2>3. a % PageUnits \in 0 .. PageUnits - 1
    BY <2>1, HeapAssumption
  <2>4. (frame[a \div PageUnits] * PageUnits) + (a % PageUnits) \in Units
    BY <2>2, <2>3, Cell
  <2>5. Phys(a) \in Units
    BY <2>1, <2>4 DEF Phys
  <2> QED
    BY <2>1, <2>5, Geometry
<1>2. Base \in Addrs /\ Phys(Base) = Base
  BY DEF Addrs, Phys
<1> QED
  BY <1>1, <1>2

\* A listed header: its address, its cell, its link and its size.
LEMMA AtHeader ==
  ASSUME TypeOK, Threaded, NEW a, Listed(a)
  PROVE  /\ a \in Addrs /\ a \in {Base} \union Mapped /\ Phys(a) \in Addrs
         /\ Nxt(a) \in Addrs /\ Nxt(a) # Null /\ Listed(Nxt(a)) /\ Size(a) \in Nat
         /\ Size(a) > 0 => a \in Mapped /\ a # Base
<1>1. a \in {Base} \union Mapped /\ Nxt(a) # Null
  BY DEF Listed
<1>2. a \in Addrs /\ Phys(a) \in Addrs
  BY <1>1, PhysCell
<1>3. Nxt(a) \in Addrs /\ Size(a) \in Nat /\ Listed(Nxt(a))
  BY <1>1, <1>2 DEF TypeOK, Threaded, Nxt, Size
<1>4. Size(Base) = 0
  BY PhysCell DEF Threaded, Size
<1> QED
  BY <1>1, <1>2, <1>3, <1>4

\* What stays in use when pages are kept and links are rewritten but never erased.
LEMMA StaysListed ==
  ASSUME TypeOK, TypeOK', \A g \in Pages : frame[g] # 0 => frame'[g] = frame[g],
         \A c \in Addrs : ptr[c] # Null => ptr'[c] # Null
  PROVE  /\ Mapped \subseteq Mapped'
         /\ \A a \in Addrs : a \in {Base} \union Mapped => Phys(a)' = Phys(a)
         /\ \A a : Listed(a) => Listed(a)'
<1>1. ASSUME NEW a \in Mapped PROVE a \in Mapped' /\ frame'[a \div PageUnits] = frame[a \div PageUnits]
  BY Geometry DEF Mapped
<1>2. \A a \in Addrs : a \in {Base} \union Mapped => Phys(a)' = Phys(a)
  BY <1>1 DEF Phys
<1>3. ASSUME NEW a, Listed(a) PROVE Listed(a)'
  <2>1. a \in {Base} \union Mapped /\ ptr[Phys(a)] # Null
    BY <1>3 DEF Listed, Nxt
  <2>2. a \in Addrs /\ Phys(a) \in Addrs
    BY <2>1, PhysCell
  <2>3. a \in {Base} \union Mapped' /\ ptr'[Phys(a)'] # Null
    BY <1>1, <1>2, <2>1, <2>2
  <2> QED
    BY <2>3 DEF Listed, Nxt, Base, Null
<1> QED
  BY <1>1, <1>2, <1>3

LEMMA SameGrowth ==
  ASSUME Grown, UNCHANGED <<brk, last, frame, failed>>, pc # "stray"
  PROVE  Grown'
BY DEF Grown, Mapped

\* The links stay threaded if each cell is left alone or gets a listed header.
LEMMA SameThreads ==
  ASSUME TypeOK, TypeOK', Threaded, UNCHANGED frame,
         \A c \in Addrs : ptr'[c] = ptr[c] \/ Listed(ptr'[c])
  PROVE  /\ \A c \in Addrs : ptr'[c] # Null => Listed(ptr[c])'
         /\ \A a : Listed(a) => Listed(a)'
         /\ Mapped' = Mapped
<1>1. \A a : Listed(a) => a \in Addrs /\ a # Null
  BY PhysCell, Geometry DEF Listed
<1>2. \A c \in Addrs : ptr[c] # Null => ptr'[c] # Null
  BY <1>1
<1>3. \A a : Listed(a) => Listed(a)'
  BY <1>2, StaysListed
<1>4. Mapped' = Mapped
  BY DEF Mapped
<1>5. ASSUME NEW c \in Addrs, ptr'[c] # Null PROVE Listed(ptr[c])'
  <2>1. Listed(ptr'[c])
    BY <1>5 DEF Threaded
  <2> QED
    BY <1>3, <2>1
<1> QED
  BY <1>3, <1>4, <1>5

-----------------------------------------------------------------------------
(* malloc *)

LEMMA MallocInv ==
  ASSUME HeapInv, NEW n \in Requests, Malloc(n)
  PROVE  HeapInv'
<1>1. /\ pc = "idle" /\ pc' = "search" /\ nu' = n /\ ptr' = First
      /\ freep' = (IF freep = Null THEN Base ELSE freep)
      /\ prevp' = freep' /\ p' = First[Phys(freep')]
      /\ UNCHANGED <<brk, last, frame, size, held, failed, bp>>
  BY DEF Malloc
<1>2. TypeOK /\ Grown /\ Threaded
  BY DEF HeapInv
<1>3. ptr' \in [Addrs -> Addrs \union {Null}] /\ \A c \in Addrs : ptr[c] # Null => ptr'[c] # Null
  BY <1>1, <1>2, Geometry DEF First, TypeOK, Base, Null
<1>4. Phys(Base) = Base /\ Base \in Addrs /\ Base # Null
  BY <1>2, PhysCell DEF Base, Null
<1>5. freep' \in Addrs /\ Phys(freep') \in Addrs /\ freep' \in {Base} \union Mapped
      /\ ptr'[Phys(freep')] # Null /\ p' = ptr'[Phys(freep')]
  <2>1. CASE freep = Null
    <3>1. freep' = Base /\ ptr' = [ptr EXCEPT ![Base] = Base]
      BY <1>1, <2>1 DEF First
    <3> QED
      BY <1>1, <1>2, <1>4, <3>1 DEF TypeOK
  <2>2. CASE freep # Null
    <3>1. freep' = freep /\ ptr' = ptr /\ Listed(freep)
      BY <1>1, <1>2, <2>2 DEF First, Threaded
    <3> QED
      BY <1>1, <1>2, <3>1, AtHeader DEF Nxt
  <2> QED
    BY <2>1, <2>2
<1>6. p' \in Addrs
  BY <1>3, <1>5
<1>7. TypeOK'
  BY <1>1, <1>2, <1>3, <1>5, <1>6 DEF TypeOK
<1>8. Mapped' = Mapped /\ (\A a : Listed(a) => Listed(a)') /\ \A a \in Addrs : a \in {Base} \union Mapped => Phys(a)' = Phys(a)
  BY <1>1, <1>2, <1>3, <1>7, StaysListed DEF Mapped
<1>9. Listed(freep)'
  BY <1>5, <1>8 DEF Listed, Nxt
<1>10. ASSUME NEW c \in Addrs, ptr'[c] # Null PROVE Listed(ptr[c])'
  <2>1. CASE freep # Null
    BY <1>1, <1>2, <1>8, <1>10, <2>1 DEF First, Threaded
  <2>2. CASE freep = Null
    <3>1. ptr' = [ptr EXCEPT ![Base] = Base] /\ freep' = Base
      BY <1>1, <2>2 DEF First
    <3>2. CASE c = Base
      BY <1>2, <1>4, <1>9, <3>1, <3>2 DEF TypeOK
    <3>3. CASE c # Base
      BY <1>2, <1>8, <1>10, <3>1, <3>3 DEF TypeOK, Threaded
    <3> QED
      BY <3>2, <3>3
  <2> QED
    BY <2>1, <2>2
<1>11. Listed(p)'
  BY <1>5, <1>10
<1>12. Threaded'
  BY <1>1, <1>2, <1>5, <1>8, <1>9, <1>10, <1>11, Geometry DEF Threaded, Live
<1> QED
  BY <1>1, <1>2, <1>7, <1>12, SameGrowth DEF HeapInv

LEMMA AdvanceInv ==
  ASSUME HeapInv, Advance
  PROVE  HeapInv'
<1>1. pc = "search" /\ pc' = pc /\ prevp' = p /\ p' = Nxt(p)
      /\ UNCHANGED <<brk, last, frame, ptr, size, freep, held, failed, nu, bp>>
  BY DEF Advance
<1>2. TypeOK /\ Grown /\ Threaded /\ Listed(p) /\ Listed(Nxt(p)) /\ p \in Addrs /\ Nxt(p) \in Addrs
  BY <1>1, AtHeader DEF HeapInv, Threaded
<1>3. TypeOK'
  BY <1>1, <1>2 DEF TypeOK
<1>4. /\ \A c \in Addrs : ptr'[c] # Null => Listed(ptr[c])'
      /\ (\A a : Listed(a) => Listed(a)') /\ Mapped' = Mapped
  BY <1>1, <1>2, <1>3, SameThreads
<1>5. Threaded'
  BY <1>1, <1>2, <1>4 DEF Threaded, Live
<1> QED
  BY <1>1, <1>2, <1>3, <1>5, SameGrowth DEF HeapInv

\* A block that is given out, in the type of held.
LEMMA Given ==
  ASSUME TypeOK, NEW b \in Mapped, GiveOut(b), Live \subseteq Mapped
  PROVE  held' \in [Units -> 0 .. MaxHeld] /\ {c \in Units : held'[c] > 0} \subseteq Mapped
<1>1. b \in Units /\ held[b] \in 0 .. MaxHeld /\ held[b] < MaxHeld /\ MaxHeld \in Nat
      /\ held' = [held EXCEPT ![b] = held[b] + 1]
  BY HeapAssumption DEF TypeOK, GiveOut, Mapped
<1>2. held[b] + 1 \in 0 .. MaxHeld
  BY <1>1
<1>3. \A c \in Units : held'[c] = IF c = b THEN held[b] + 1 ELSE held[c]
  BY <1>1 DEF TypeOK
<1> QED
  BY <1>1, <1>2, <1>3 DEF TypeOK, Live

LEMMA TakeAllInv ==
  ASSUME HeapInv, TakeAll
  PROVE  HeapInv'
<1>1. /\ pc = "search" /\ Size(p) = nu /\ ptr' = [ptr EXCEPT ![Phys(prevp)] = Nxt(p)]
      /\ freep' = prevp /\ GiveOut(p)
      /\ pc' = "idle" /\ nu' = 0 /\ bp' = Base /\ p' = Base /\ prevp' = Base
      /\ UNCHANGED <<brk, last, frame, size, failed>>
  BY DEF TakeAll, Return
<1>2. /\ TypeOK /\ Grown /\ Threaded /\ Listed(p) /\ Listed(prevp) /\ Listed(Nxt(p))
      /\ Nxt(p) \in Addrs /\ Phys(prevp) \in Addrs /\ prevp \in Addrs
  BY <1>1, AtHeader DEF HeapInv, Threaded
<1>3. p \in Mapped
  <2>1. nu \in Requests
    BY <1>1, <1>2 DEF Threaded
  <2>2. Size(p) > 0
    BY <1>1, <2>1, HeapAssumption
  <2> QED
    BY <1>2, <2>2, AtHeader
<1>4. held' \in [Units -> 0 .. MaxHeld] /\ {c \in Units : held'[c] > 0} \subseteq Mapped
  BY <1>1, <1>2, <1>3, Given DEF Threaded
<1>5. TypeOK'
  BY <1>1, <1>2, <1>4, PhysCell DEF TypeOK
<1>6. \A c \in Addrs : ptr'[c] = ptr[c] \/ Listed(ptr'[c])
  BY <1>1, <1>2 DEF TypeOK
<1>7. /\ \A c \in Addrs : ptr'[c] # Null => Listed(ptr[c])'
      /\ (\A a : Listed(a) => Listed(a)') /\ Mapped' = Mapped
  BY <1>1, <1>2, <1>5, <1>6, SameThreads
<1>8. Threaded'
  BY <1>1, <1>2, <1>4, <1>7, Geometry DEF Threaded, Live
<1> QED
  BY <1>1, <1>2, <1>5, <1>8, SameGrowth DEF HeapInv

LEMMA TakeTailInv ==
  ASSUME HeapInv, TakeTail
  PROVE  HeapInv'
<1>1. /\ pc = "search" /\ Size(p) > nu /\ Tail \in Mapped
      /\ size' = [size EXCEPT ![Phys(p)] = Rest, ![Phys(Tail)] = nu]
      /\ freep' = prevp /\ GiveOut(Tail)
      /\ pc' = "idle" /\ nu' = 0 /\ bp' = Base /\ p' = Base /\ prevp' = Base
      /\ UNCHANGED <<brk, last, frame, ptr, failed>>
  BY DEF TakeTail, Return
<1>2. /\ TypeOK /\ Grown /\ Threaded /\ Listed(p) /\ Listed(prevp) /\ prevp \in Addrs
      /\ Size(p) \in Nat
  BY <1>1, AtHeader DEF HeapInv, Threaded
<1>3. p \in Mapped /\ nu \in Nat /\ Rest \in Nat
  <2>1. nu \in Requests
    BY <1>1, <1>2 DEF Threaded
  <2>2. nu \in Nat /\ Size(p) > 0
    BY <1>1, <1>2, <2>1, HeapAssumption
  <2> QED
    BY <1>1, <1>2, <2>2, AtHeader DEF Rest
<1>4. held' \in [Units -> 0 .. MaxHeld] /\ {c \in Units : held'[c] > 0} \subseteq Mapped
  BY <1>1, <1>2, Given DEF Threaded
<1>5. size' \in [Addrs -> Nat] /\ size'[Base] = size[Base]
  <2>1. Phys(p) \in Addrs /\ Phys(Tail) \in Addrs /\ Phys(p) # Base /\ Phys(Tail) # Base /\ Base \in Addrs
    BY <1>1, <1>2, <1>3, PhysCell
  <2> QED
    BY <1>1, <1>2, <1>3, <2>1 DEF TypeOK
<1>6. TypeOK'
  BY <1>1, <1>2, <1>4, <1>5, PhysCell DEF TypeOK
<1>7. /\ \A c \in Addrs : ptr'[c] # Null => Listed(ptr[c])'
      /\ (\A a : Listed(a) => Listed(a)') /\ Mapped' = Mapped
  BY <1>1, <1>2, <1>6, SameThreads
<1>8. Threaded'
  BY <1>1, <1>2, <1>4, <1>5, <1>7, Geometry DEF Threaded, Live
<1> QED
  BY <1>1, <1>2, <1>6, <1>8, SameGrowth DEF HeapInv

-----------------------------------------------------------------------------
(* Growth *)

\* What is a whole number of pages.
LEMMA Whole ==
  ASSUME NEW d \in Nat \ {0}, NEW x \in Nat, x % d = 0
  PROVE  x \div d \in Nat /\ x = (x \div d) * d
OBVIOUS

LEMMA WholeSum ==
  ASSUME NEW d \in Nat \ {0}, NEW x \in Nat, NEW y \in Nat, x % d = 0, y % d = 0
  PROVE  (x + y) % d = 0
<1> DEFINE k == (x \div d) + (y \div d)
           q == (x + y) \div d
           r == (x + y) % d
<1>1. k \in Nat /\ x + y = k * d
  BY Whole
<1>2. q \in Nat /\ r \in 0 .. d - 1 /\ x + y = q * d + r
  OBVIOUS
<1> HIDE DEF k, q, r
<1>3. ASSUME k < q PROVE FALSE
  <2>1. (k + 1) * d <= q * d
    BY <1>1, <1>2, <1>3, Multiply
  <2> QED
    BY <1>1, <1>2, <2>1
<1>4. ASSUME q < k PROVE FALSE
  <2>1. (q + 1) * d <= k * d
    BY <1>1, <1>2, <1>4, Multiply
  <2> QED
    BY <1>1, <1>2, <2>1
<1>5. r = 0
  BY <1>1, <1>2, <1>3, <1>4
<1> QED
  BY <1>5 DEF r


\* mm_break, as the code computes it, is an address.
LEMMA BreakAddress ==
  ASSUME TypeOK, nu \in Requests
  PROVE  Growth \in Nat \ {0} /\ NewBrk \in 0 .. AddrEnd - 1 /\ Need \in Int
<1>1. nu \in Nat \ {0} /\ NALLOC \in Nat \ {0} /\ AddrEnd \in Nat \ {0} /\ brk \in Nat /\ last \in Int
  BY HeapAssumption, Geometry DEF TypeOK
<1>2. Growth \in Nat \ {0}
  BY <1>1 DEF Growth
<1>3. brk + Growth \in Nat
  BY <1>1, <1>2
<1> QED
  BY <1>1, <1>2, <1>3 DEF NewBrk, Need

\* A growth takes up where the pages in use end, and maps just the pages of the new area.
LEMMA GrowStep ==
  ASSUME HeapInv, Grow
  PROVE  /\ ~ failed /\ brk = last /\ brk \in Units /\ NewBrk % PageUnits = 0
         /\ NewBrk \in Nat /\ brk < NewBrk /\ NewBrk <= HEAP_END_ADDR /\ last' = NewBrk
         /\ frame' \in [Pages -> {0} \union Pages]
         /\ \A g \in Pages : frame[g] # 0 => frame'[g] = frame[g]
         /\ Mapped' = HEAP_ADDR .. NewBrk - 1
<1>1. /\ pc = "search" /\ Need > 0 /\ Need % PageUnits = 0 /\ last + Need <= HEAP_END_ADDR
      /\ host_memory_map(brk, Need \div PageUnits) /\ last' = last + Need
  BY DEF Grow, Round, Fits
<1>2. TypeOK /\ Grown /\ Threaded /\ nu \in Requests
  BY <1>1 DEF HeapInv, Threaded
<1>3. /\ NewBrk \in Nat /\ Need = NewBrk - last /\ Need \in Nat
      /\ last \in HEAP_ADDR .. HEAP_END_ADDR /\ HEAP_ADDR \in Nat /\ HEAP_END_ADDR \in Nat
  BY <1>1, <1>2, BreakAddress, Geometry DEF Need, TypeOK
<1>4. ~ failed /\ brk = last /\ Mapped = HEAP_ADDR .. brk - 1 /\ brk % PageUnits = 0
  BY <1>1, <1>2, <1>3 DEF Grown
<1>5. brk \in Units /\ brk < NewBrk /\ NewBrk <= HEAP_END_ADDR /\ last' = NewBrk /\ NewBrk = brk + Need
      /\ brk \in Nat /\ brk \in HEAP_ADDR .. HEAP_END_ADDR - 1
  BY <1>1, <1>3, <1>4 DEF Units
<1>6. NewBrk % PageUnits = 0
  <2>1. PageUnits \in Nat \ {0} /\ brk \in Nat /\ Need \in Nat
        /\ brk % PageUnits = 0 /\ Need % PageUnits = 0
    BY <1>1, <1>3, <1>4, <1>5, HeapAssumption
  <2>2. (brk + Need) % PageUnits = 0
    BY <2>1, WholeSum
  <2> QED
    BY <1>5, <2>2
<1> DEFINE k == brk \div PageUnits
           m == Need \div PageUnits
<1>7. /\ PageUnits \in Nat \ {0} /\ k \in Pages /\ k \in Nat /\ k # 0 /\ m \in Nat
      /\ brk = k * PageUnits /\ Need = m * PageUnits
  <2>1. PageUnits \in Nat \ {0} /\ brk \in Nat /\ Need \in Nat
        /\ brk % PageUnits = 0 /\ Need % PageUnits = 0
    BY <1>1, <1>3, <1>4, <1>5, HeapAssumption
  <2>2. k \in Nat /\ brk = k * PageUnits
    BY <2>1, Whole
  <2>3. m \in Nat /\ Need = m * PageUnits
    BY <2>1, Whole
  <2>4. k \in Pages /\ k # 0
    BY <1>5, Geometry DEF Pages
  <2> QED
    BY <2>1, <2>2, <2>3, <2>4
<1>8. frame' = [g \in Pages |-> IF g \in k .. k + m - 1 THEN k ELSE frame[g]]
  BY <1>1 DEF host_memory_map
<1> HIDE DEF k, m
<1>9. frame \in [Pages -> {0} \union Pages]
  BY <1>2 DEF TypeOK
<1>10. frame' \in [Pages -> {0} \union Pages]
  BY <1>7, <1>8, <1>9
<1>11. ASSUME NEW u \in Units
       PROVE  frame'[u \div PageUnits] # 0 <=> (brk <= u /\ u < NewBrk) \/ u \in Mapped
  <2> DEFINE g == u \div PageUnits
  <2>1. u \in Nat /\ g \in Pages
    BY Geometry
  <2>2. g \in k .. k + m - 1 <=> k * PageUnits <= u /\ u < (k + m) * PageUnits
    BY <1>7, <2>1, PageRange
  <2>3. (k + m) * PageUnits = NewBrk
    BY <1>5, <1>7
  <2>4. u \in Mapped <=> frame[g] # 0
    BY DEF Mapped
  <2> HIDE DEF g
  <2>5. frame'[g] # 0 <=> (brk <= u /\ u < NewBrk) \/ u \in Mapped
    BY <1>7, <1>8, <2>1, <2>2, <2>3, <2>4
  <2> QED
    BY <2>5 DEF g
<1>12. Mapped' = HEAP_ADDR .. NewBrk - 1
  <2>1. Mapped' = {u \in Units : (brk <= u /\ u < NewBrk) \/ u \in Mapped}
    BY <1>11 DEF Mapped
  <2> QED
    BY <1>3, <1>4, <1>5, <2>1 DEF Units
<1>13. ASSUME NEW g \in Pages, frame[g] # 0 PROVE frame'[g] = frame[g]
  <2>1. 0 \in 0 .. PageUnits - 1
    BY <1>7
  <2> DEFINE u == (g * PageUnits) + 0
  <2>2. u \in Units
    BY <2>1, Cell
  <2>3. g \in Nat /\ u = g * PageUnits /\ u \in Nat
    BY <1>7 DEF Pages
  <2>4. u \div PageUnits \in g .. g + 1 - 1
    <3>1. g * PageUnits <= u /\ u < (g + 1) * PageUnits
      BY <1>7, <2>3
    <3> QED
      BY <1>7, <2>3, <3>1, PageRange
  <2>5. u \div PageUnits = g
    BY <2>3, <2>4
  <2>6. u \in Mapped
    BY <1>13, <2>2, <2>5 DEF Mapped
  <2> HIDE DEF u
  <2>7. u < brk
    BY <1>4, <1>5, <2>6
  <2>8. ~ (k <= g)
    <3>1. k <= g => k * PageUnits <= g * PageUnits
      BY <1>7, <2>3, Multiply
    <3> QED
      BY <1>5, <1>7, <2>3, <2>7, <3>1
  <2> QED
    BY <1>7, <1>8, <2>3, <2>8
<1> QED
  BY <1>3, <1>4, <1>5, <1>6, <1>10, <1>12, <1>13

LEMMA GrowInv ==
  ASSUME HeapInv, Grow
  PROVE  HeapInv'
<1>1. /\ pc = "search" /\ size' = [size EXCEPT ![brk] = Growth] /\ brk' = NewBrk
      /\ bp' = brk /\ p' = freep /\ pc' = "grow"
      /\ UNCHANGED <<ptr, freep, held, failed, nu, prevp>>
  BY DEF Grow, Round
<1>2. /\ ~ failed /\ brk = last /\ brk \in Units /\ NewBrk % PageUnits = 0
      /\ NewBrk \in Nat /\ brk < NewBrk /\ NewBrk <= HEAP_END_ADDR /\ last' = NewBrk
      /\ frame' \in [Pages -> {0} \union Pages]
      /\ \A g \in Pages : frame[g] # 0 => frame'[g] = frame[g]
      /\ Mapped' = HEAP_ADDR .. NewBrk - 1
  BY GrowStep
<1>3. TypeOK /\ Grown /\ Threaded /\ nu \in Requests /\ freep # Null
  BY <1>1 DEF HeapInv, Threaded
<1>4. Growth \in Nat /\ NewBrk \in 0 .. AddrEnd - 1
  BY <1>3, BreakAddress
<1>5. Listed(freep) /\ freep \in Addrs
  BY <1>3, AtHeader DEF Threaded
<1>6. brk \in Addrs /\ brk # Base /\ HEAP_ADDR \in Nat /\ brk \in Nat
  BY <1>2, Geometry
<1>7. TypeOK'
  <2>1. last' \in HEAP_ADDR .. HEAP_END_ADDR
    BY <1>2, Geometry DEF Units
  <2>2. size' \in [Addrs -> Nat]
    BY <1>1, <1>3, <1>4, <1>6 DEF TypeOK
  <2> QED
    BY <1>1, <1>2, <1>3, <1>4, <1>5, <1>6, <2>1, <2>2 DEF TypeOK
<1>8. Mapped \subseteq Mapped' /\ \A a : Listed(a) => Listed(a)'
  BY <1>1, <1>2, <1>3, <1>7, StaysListed
<1>9. Grown'
  BY <1>1, <1>2, <1>6 DEF Grown
<1>10. brk \in Mapped'
  BY <1>2, <1>6 DEF Units
<1>11. size'[Base] = 0
  BY <1>1, <1>3, <1>6, PhysCell DEF TypeOK, Threaded
<1>12. Live' = Live
  BY <1>1 DEF Live
<1>13. Threaded'
  BY <1>1, <1>3, <1>5, <1>8, <1>10, <1>11, <1>12 DEF Threaded
<1> QED
  BY <1>7, <1>9, <1>13 DEF HeapInv

LEMMA FailInv ==
  ASSUME HeapInv, Fail
  PROVE  HeapInv'
<1>1. /\ pc = "search" /\ Need > 0 /\ brk' = NewBrk /\ last' = HEAP_END_ADDR /\ failed' = TRUE
      /\ pc' = "idle" /\ nu' = 0 /\ bp' = Base /\ p' = Base /\ prevp' = Base
      /\ UNCHANGED <<frame, ptr, size, freep, held>>
  BY DEF Fail, Round, Return
<1>2. TypeOK /\ Grown /\ Threaded /\ nu \in Requests
  BY <1>1 DEF HeapInv, Threaded
<1>3. NewBrk \in 0 .. AddrEnd - 1 /\ last < NewBrk /\ last \in Nat /\ NewBrk \in Nat
  BY <1>1, <1>2, BreakAddress, Geometry DEF Need, TypeOK
<1>4. TypeOK'
  BY <1>1, <1>2, <1>3, Geometry DEF TypeOK
<1>5. Grown'
  <2>1. \A u \in Mapped : u < last
    <3>1. \A u \in Mapped : u \in Nat /\ u < HEAP_END_ADDR /\ u < brk
      BY <1>1, <1>2, Geometry DEF Mapped, Grown, Units
    <3> QED
      BY <1>1, <1>2, <3>1 DEF Grown
  <2>2. \A u \in Mapped : u \in Nat
    BY Geometry DEF Mapped
  <2> QED
    BY <1>1, <1>3, <2>1, <2>2 DEF Grown, Mapped
<1>6. /\ \A c \in Addrs : ptr'[c] # Null => Listed(ptr[c])'
      /\ (\A a : Listed(a) => Listed(a)') /\ Mapped' = Mapped
  BY <1>1, <1>2, <1>4, SameThreads
<1>7. Threaded'
  BY <1>1, <1>2, <1>6, Geometry DEF Threaded, Live
<1> QED
  BY <1>4, <1>5, <1>7 DEF HeapInv

LEMMA StrayInv ==
  ASSUME HeapInv, Stray
  PROVE  HeapInv'
<1>1. /\ pc = "search" /\ pc' = "stray"
      /\ \/ brk' = NewBrk /\ failed' = TRUE
         \/ UNCHANGED <<brk, failed>>
      /\ UNCHANGED <<last, frame, ptr, size, freep, held, nu, bp, p, prevp>>
  BY DEF Stray, Round, locals
<1>2. TypeOK /\ Grown /\ Threaded /\ nu \in Requests
  BY <1>1 DEF HeapInv, Threaded
<1>3. TypeOK'
  BY <1>1, <1>2, BreakAddress DEF TypeOK
<1>4. Grown'
  BY <1>1, <1>2 DEF Grown, Mapped
<1>5. /\ \A c \in Addrs : ptr'[c] # Null => Listed(ptr[c])'
      /\ (\A a : Listed(a) => Listed(a)') /\ Mapped' = Mapped
  BY <1>1, <1>2, <1>3, SameThreads
<1>6. Threaded'
  BY <1>1, <1>2, <1>5 DEF Threaded, Live
<1> QED
  BY <1>3, <1>4, <1>6 DEF HeapInv

-----------------------------------------------------------------------------
(* free *)

LEMMA FreeInv ==
  ASSUME HeapInv, NEW b \in Live, Free(b)
  PROVE  HeapInv'
<1>1. /\ pc = "idle" /\ pc' = "free" /\ held' = [held EXCEPT ![b] = @ - 1] /\ bp' = b /\ p' = freep
      /\ UNCHANGED <<brk, last, frame, ptr, size, freep, failed, nu, prevp>>
  BY DEF Free
<1>2. TypeOK /\ Grown /\ Threaded
  BY DEF HeapInv
<1>3. freep # Null /\ Listed(freep) /\ freep \in Addrs /\ b \in Mapped /\ b \in Units /\ b \in Addrs
  BY <1>2, AtHeader, Geometry DEF Threaded, Live
<1>4. held' \in [Units -> 0 .. MaxHeld] /\ Live' \subseteq Live
  <2>1. held[b] \in 1 .. MaxHeld /\ MaxHeld \in Nat
    BY <1>2, HeapAssumption DEF TypeOK, Live
  <2>2. held[b] - 1 \in 0 .. MaxHeld
    BY <2>1
  <2>3. \A c \in Units : held'[c] = IF c = b THEN held[b] - 1 ELSE held[c]
    BY <1>1, <1>2 DEF TypeOK
  <2> QED
    BY <1>1, <1>2, <2>1, <2>2, <2>3 DEF TypeOK, Live
<1>5. TypeOK'
  BY <1>1, <1>2, <1>3, <1>4 DEF TypeOK
<1>6. /\ \A c \in Addrs : ptr'[c] # Null => Listed(ptr[c])'
      /\ (\A a : Listed(a) => Listed(a)') /\ Mapped' = Mapped
  BY <1>1, <1>2, <1>5, SameThreads
<1>7. Threaded'
  BY <1>1, <1>2, <1>3, <1>4, <1>6 DEF Threaded
<1> QED
  BY <1>1, <1>2, <1>5, <1>7, SameGrowth DEF HeapInv

LEMMA SeekInv ==
  ASSUME HeapInv, Seek
  PROVE  HeapInv'
<1>1. pc \in {"free", "grow"} /\ p' = Nxt(p)
      /\ UNCHANGED <<brk, last, frame, ptr, size, freep, held, failed, pc, nu, bp, prevp>>
  BY DEF Seek
<1>2. TypeOK /\ Grown /\ Threaded /\ Listed(Nxt(p)) /\ Nxt(p) \in Addrs
  BY <1>1, AtHeader DEF HeapInv, Threaded
<1>3. TypeOK'
  BY <1>1, <1>2 DEF TypeOK
<1>4. /\ \A c \in Addrs : ptr'[c] # Null => Listed(ptr[c])'
      /\ (\A a : Listed(a) => Listed(a)') /\ Mapped' = Mapped
  BY <1>1, <1>2, <1>3, SameThreads
<1>5. Threaded'
  BY <1>1, <1>2, <1>4 DEF Threaded, Live
<1> QED
  BY <1>1, <1>2, <1>3, <1>5, SameGrowth DEF HeapInv

LEMMA LinkInv ==
  ASSUME HeapInv, Link
  PROVE  HeapInv'
<1> DEFINE up    == Nxt(p)
           upper == (bp + Size(bp)) % AddrEnd = up
           size1 == IF upper THEN [size EXCEPT ![Phys(bp)] = (@ + Size(up)) % SizeEnd] ELSE size
           next  == IF upper THEN Nxt(up) ELSE up
           ptr1  == [ptr EXCEPT ![Phys(bp)] = next]
           lower == (p + size1[Phys(p)]) % AddrEnd = bp
<1>1. /\ pc \in {"free", "grow"} /\ freep' = p
      /\ size' = IF lower THEN [size1 EXCEPT ![Phys(p)] = (@ + size1[Phys(bp)]) % SizeEnd] ELSE size1
      /\ ptr' = [ptr1 EXCEPT ![Phys(p)] = IF lower THEN ptr1[Phys(bp)] ELSE bp]
      /\ \/ pc = "grow" /\ pc' = "search" /\ prevp' = p /\ p' = ptr'[Phys(p)] /\ bp' = Base /\ nu' = nu
         \/ pc = "free" /\ pc' = "idle" /\ nu' = 0 /\ bp' = Base /\ p' = Base /\ prevp' = Base
      /\ UNCHANGED <<brk, last, frame, held, failed>>
  BY DEF Link, Return
<1>2. /\ TypeOK /\ Grown /\ Threaded /\ Listed(p) /\ bp \in Mapped
      /\ SizeEnd \in Nat \ {0} /\ AddrEnd \in Nat \ {0}
  BY <1>1, HeapAssumption, Geometry DEF HeapInv, Threaded
<1>3. /\ p \in Addrs /\ p \in {Base} \union Mapped /\ Phys(p) \in Addrs
      /\ bp \in Addrs /\ bp # Base /\ Phys(bp) \in Addrs /\ Phys(bp) # Base
      /\ p # Base => Phys(p) # Base
  BY <1>2, AtHeader, PhysCell, Geometry
<1>4. Listed(up) /\ up \in Addrs /\ Size(up) \in Nat /\ Listed(next) /\ next \in Addrs
  BY <1>2, AtHeader
<1>5. size1 \in [Addrs -> Nat] /\ size1[Base] = 0
  <2>1. (size[Phys(bp)] + Size(up)) % SizeEnd \in Nat
    BY <1>2, <1>3, <1>4 DEF TypeOK
  <2>2. size \in [Addrs -> Nat] /\ size[Base] = 0 /\ Base \in Addrs
    BY <1>2, PhysCell DEF TypeOK, Threaded
  <2> QED
    BY <1>3, <2>1, <2>2
<1> HIDE DEF upper, size1
<1>6. lower => p # Base
  <2>1. Phys(Base) = Base
    BY <1>2, PhysCell
  <2>2. (0 + 0) % AddrEnd = 0
    BY <1>2
  <2> QED
    BY <1>3, <1>5, <2>1, <2>2 DEF Base
<1>7. size' \in [Addrs -> Nat] /\ size'[Base] = 0
  <2>1. (size1[Phys(p)] + size1[Phys(bp)]) % SizeEnd \in Nat
    BY <1>2, <1>3, <1>5
  <2>2. Base \in Addrs
    BY <1>2, PhysCell
  <2> HIDE DEF lower
  <2> QED
    BY <1>1, <1>3, <1>5, <1>6, <2>1, <2>2
<1> HIDE DEF next, lower
<1>8. \A c \in Addrs : ptr1[c] = IF c = Phys(bp) THEN next ELSE ptr[c]
  BY <1>2, <1>3 DEF TypeOK
<1>9. ptr1 \in [Addrs -> Addrs \union {Null}]
  BY <1>2, <1>3, <1>4 DEF TypeOK
<1> HIDE DEF ptr1
<1> DEFINE link == IF lower THEN next ELSE bp
<1>10. ptr1[Phys(bp)] = next /\ link \in Addrs
  BY <1>3, <1>4, <1>8
<1>11. \A c \in Addrs : ptr'[c] = IF c = Phys(p) THEN link ELSE ptr1[c]
  BY <1>1, <1>3, <1>9, <1>10
<1>12. ptr' \in [Addrs -> Addrs \union {Null}]
  BY <1>1, <1>3, <1>9, <1>10
<1> HIDE DEF link
<1>13. TypeOK'
  <2>1. ptr'[Phys(p)] \in Addrs
    BY <1>3, <1>10, <1>11
  <2>2. p' \in Addrs /\ prevp' \in Addrs /\ bp' \in Addrs
    BY <1>1, <1>2, <1>3, <2>1, PhysCell
  <2>3. nu' \in {0} \union Requests /\ pc' \in {"idle", "search", "free", "grow", "stray"}
    BY <1>1, <1>2 DEF TypeOK
  <2> QED
    BY <1>1, <1>2, <1>3, <1>7, <1>12, <2>2, <2>3 DEF TypeOK
<1>14. \A c \in Addrs : ptr[c] # Null => ptr'[c] # Null
  BY <1>4, <1>8, <1>10, <1>11, Geometry
<1>15. Mapped' = Mapped /\ (\A a : Listed(a) => Listed(a)') /\ \A a \in Addrs : a \in {Base} \union Mapped => Phys(a)' = Phys(a)
  BY <1>1, <1>2, <1>13, <1>14, StaysListed DEF Mapped
<1>16. PICK b \in Addrs : b = bp
  BY <1>3
<1>17. Listed(b)'
  <2>1. ptr'[Phys(bp)] # Null
    BY <1>3, <1>4, <1>8, <1>10, <1>11, <1>16, Geometry DEF link
  <2>2. Phys(b)' = Phys(bp) /\ b \in Mapped'
    BY <1>2, <1>3, <1>15, <1>16
  <2> QED
    BY <2>1, <2>2 DEF Listed, Nxt, Null
<1>18. ASSUME NEW c \in Addrs, ptr'[c] # Null PROVE Listed(ptr[c])'
  <2>1. ptr'[c] = ptr[c] \/ ptr'[c] = next \/ ptr'[c] = b
    BY <1>8, <1>10, <1>11, <1>16 DEF link
  <2>2. Listed(next)
    BY <1>4
  <2>3. ptr'[c] = ptr[c] => Listed(ptr[c])
    BY <1>2, <1>18 DEF Threaded
  <2> QED
    BY <1>15, <1>17, <2>1, <2>2, <2>3
<1>19. Listed(freep)' /\ freep' # Null /\ ptr'[Phys(p)] # Null
  <2>1. Phys(freep)' = Phys(p) /\ Listed(freep)'
    BY <1>1, <1>2, <1>3, <1>15
  <2> QED
    BY <1>1, <1>3, <2>1, Geometry DEF Listed, Nxt, Null
<1>20. Threaded'
  <2>1. pc' = "search" => Listed(p)' /\ Listed(prevp)' /\ nu' \in Requests
    BY <1>1, <1>2, <1>3, <1>15, <1>18, <1>19 DEF Threaded
  <2>2. Live' = Live /\ Live \subseteq Mapped
    BY <1>1, <1>2 DEF Live, Threaded
  <2>3. pc' \in {"search", "idle"}
    BY <1>1
  <2> QED
    BY <1>7, <1>15, <1>18, <1>19, <2>1, <2>2, <2>3 DEF Threaded, Base
<1>21. pc # "stray"
  BY <1>1
<1> QED
  BY <1>1, <1>2, <1>13, <1>20, <1>21, SameGrowth DEF HeapInv

-----------------------------------------------------------------------------
(* The invariant *)

LEMMA InitInv ==
  Init => HeapInv
<1> SUFFICES ASSUME Init PROVE HeapInv
  OBVIOUS
<1>1. /\ HEAP_ADDR \in Nat /\ HEAP_END_ADDR \in Nat /\ HEAP_ADDR < HEAP_END_ADDR
      /\ HEAP_END_ADDR < AddrEnd /\ AddrEnd \in Nat /\ MaxHeld \in Nat /\ Base \in Addrs
  BY Geometry, HeapAssumption
<1>2. TypeOK
  <2>1. brk \in 0 .. AddrEnd - 1 /\ last \in HEAP_ADDR .. HEAP_END_ADDR
    BY <1>1 DEF Init
  <2>2. held \in [Units -> 0 .. MaxHeld]
    BY <1>1 DEF Init
  <2> QED
    BY <1>1, <2>1, <2>2 DEF Init, TypeOK
<1>3. Mapped = {}
  BY Geometry DEF Init, Mapped
<1>4. Grown
  <2>1. HEAP_ADDR % PageUnits = 0 /\ HEAP_ADDR .. HEAP_ADDR - 1 = {}
    BY HeapAssumption, <1>1 DEF HEAP_ADDR
  <2> QED
    BY <1>3, <2>1 DEF Init, Grown
<1>5. Threaded
  BY <1>1 DEF Init, Threaded, Live
<1> QED
  BY <1>2, <1>4, <1>5 DEF HeapInv

LEMMA StutterInv ==
  ASSUME HeapInv, UNCHANGED vars
  PROVE  HeapInv'
BY DEF vars, locals, HeapInv, TypeOK, Grown, Threaded, Listed, Nxt, Phys, Mapped, Live

LEMMA NextInv ==
  HeapInv /\ [Next]_vars => HeapInv'
<1> SUFFICES ASSUME HeapInv, [Next]_vars PROVE HeapInv'
  OBVIOUS
<1>1. ASSUME NEW n \in Requests, Malloc(n) PROVE HeapInv'
  BY <1>1, MallocInv
<1>2. ASSUME NEW b \in Live, Free(b) PROVE HeapInv'
  BY <1>2, FreeInv
<1>3. CASE Advance
  BY <1>3, AdvanceInv
<1>4. CASE TakeAll
  BY <1>4, TakeAllInv
<1>5. CASE TakeTail
  BY <1>5, TakeTailInv
<1>6. CASE Grow
  BY <1>6, GrowInv
<1>7. CASE Fail
  BY <1>7, FailInv
<1>8. CASE Stray
  BY <1>8, StrayInv
<1>9. CASE Seek
  BY <1>9, SeekInv
<1>10. CASE Link
  BY <1>10, LinkInv
<1>11. CASE Astray
  BY <1>11, StutterInv DEF Astray
<1>12. CASE UNCHANGED vars
  BY <1>12, StutterInv
<1> QED
  BY <1>1, <1>2, <1>3, <1>4, <1>5, <1>6, <1>7, <1>8, <1>9, <1>10, <1>11, <1>12 DEF Next

LEMMA Invariance ==
  Spec => []HeapInv
<1> QED
  BY InitInv, NextInv, PTL DEF Spec

-----------------------------------------------------------------------------
(* What follows from it *)

(***************************************************************************)
(* The variables keep their types: links and loops stay at addresses of    *)
(* the heap, mm_break below the end of the address space.                  *)
(***************************************************************************)
THEOREM TypesKept ==
  Spec => []TypeOK
<1>1. HeapInv => TypeOK
  BY DEF HeapInv
<1> QED
  BY <1>1, Invariance, PTL

(***************************************************************************)
(* As long as no growth of host_memory_sbrk has failed, mm_break and       *)
(* last_valid_address agree and just the pages below them are mapped; no   *)
(* growth makes an area of memory that is in use, after a failure either:  *)
(* for requests of any size.                                               *)
(***************************************************************************)
THEOREM GrowthKept ==
  Spec => []GrowthSound
<1>1. HeapInv => GrowthSound
  BY DEF HeapInv, Grown, GrowthSound
<1> QED
  BY <1>1, Invariance, PTL

(***************************************************************************)
(* Although pages of one growth are the same memory, and headers overwrite *)
(* one another, the loops of malloc and free are at headers in mapped      *)
(* pages whose links were written.                                         *)
(***************************************************************************)
THEOREM LinksStayMapped ==
  Spec => []LinksMapped
<1>1. ASSUME HeapInv PROVE LinksMapped
  <2>1. TypeOK /\ Threaded
    BY <1>1 DEF HeapInv
  <2>2. pc \in {"search", "free", "grow"} => Listed(p) /\ Listed(freep)
    BY <2>1 DEF Threaded
  <2>3. pc \in {"search", "free", "grow"} => Listed(Nxt(p))
    BY <2>1, <2>2, AtHeader
  <2> QED
    BY <2>1, <2>2, <2>3 DEF LinksMapped, Threaded
<1> QED
  BY <1>1, Invariance, PTL

\* The frames are changed by growth alone.
LEMMA OnlyGrow ==
  ASSUME [Next]_vars, frame' # frame
  PROVE  Grow
BY DEF Next, Malloc, Free, Advance, TakeAll, TakeTail, Fail, Stray, Seek, Link, Astray, vars, locals

(***************************************************************************)
(* No growth of the heap, nor its failure, exchanges the physical page     *)
(* under a page that is in use.                                            *)
(***************************************************************************)
THEOREM FramesKept ==
  Spec => PagesKept
<1>1. ASSUME HeapInv, [Next]_vars
      PROVE  [\A g \in Pages : frame[g] # 0 => frame'[g] = frame[g]]_frame
  BY <1>1, OnlyGrow, GrowStep
<1> QED
  BY <1>1, Invariance, PTL DEF Spec, PagesKept

(***************************************************************************)
(* After one growth that failed no page is ever mapped again.              *)
(***************************************************************************)
THEOREM NoGrowthAfterFailure ==
  Spec => FailureLasts
<1>1. ASSUME HeapInv, [Next]_vars
      PROVE  [failed => frame' = frame]_frame
  BY <1>1, OnlyGrow, GrowStep
<1> QED
  BY <1>1, Invariance, PTL DEF Spec, FailureLasts
=============================================================================
