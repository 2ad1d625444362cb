-------------------------------- MODULE Heap --------------------------------
(***************************************************************************)
(* The hypervisor's heap (memory_hw.c: host_memory_malloc, morecore,       *)
(* host_memory_sbrk, host_memory_map, host_memory_free): a first-fit       *)
(* allocator over a circular list of free blocks, which takes pages of the *)
(* heap region into use as it grows.                                       *)
(*                                                                         *)
(* Addresses are counted in headers (8 bytes).  freep_base is at address 0 *)
(* and the heap starts with page 1.  All pages of one growth are mapped to *)
(* one physical page, so a header is kept by its physical address: what is *)
(* written through one page is read back through the others.  Clients free *)
(* what they hold and write nothing into it (tests_malloc.c, the only      *)
(* client of memory_alloc, does not).                                      *)
(***************************************************************************)
EXTENDS Integers

CONSTANTS
  PageUnits,    \* headers in a page (512)
  HeapPages,    \* HEAP_SIZE in pages
  AddrEnd,      \* 2^32 bytes, where unsigned addresses wrap
  SizeEnd,      \* 2^32, where the unsigned size of a header wraps
  NALLOC,       \* the least that morecore asks for (two pages)
  Requests,     \* the values of nunits that clients ask for
  MaxHeld       \* bound: how often one block is held

HEAP_ADDR     == PageUnits
HEAP_END_ADDR == (HeapPages + 1) * PageUnits
Pages         == 1 .. HeapPages
Units         == HEAP_ADDR .. HEAP_END_ADDR - 1
Base          == 0
Null          == -1
Addrs         == {Base} \union Units

\* The heap lies in the address space; nunits < 2 is refused at once and is no request here.
ASSUME HeapAssumption ==
  /\ PageUnits \in Nat \ {0} /\ HeapPages \in Nat \ {0}
  /\ AddrEnd \in Nat /\ HEAP_END_ADDR < AddrEnd /\ SizeEnd \in Nat \ {0}
  /\ NALLOC \in Nat \ {0} /\ MaxHeld \in Nat
  /\ Requests \subseteq Nat \ {0, 1}

VARIABLES
  brk,          \* mm_break
  last,         \* last_valid_address
  frame,        \* _hmm_pgtable_l3: the page's physical page, 0 without
  ptr, size,    \* union header, by physical address: s.ptr, Null before it is written, and s.size
  freep,        \* freep
  held,         \* how often a block was given out and is not yet freed
  failed,       \* a growth failed, or asked for no page (history)
  pc,           \* "idle", or the loop that runs: "search", "free", "grow"
                \* (the free of morecore); "stray" after an access to memory
                \* that is not the heap's
  nu,           \* nunits of the call
  bp,           \* the block to free
  p, prevp      \* the variables p and prevp of the loops

locals == <<nu, bp, p, prevp>>
vars   == <<brk, last, frame, ptr, size, freep, held, failed, pc, locals>>

Mapped  == {u \in Units : frame[u \div PageUnits] # 0}
Phys(a) == IF a = Base THEN Base ELSE (frame[a \div PageUnits] * PageUnits) + (a % PageUnits)
Nxt(a)  == ptr[Phys(a)]
Size(a) == size[Phys(a)]
Live    == {b \in Units : held[b] > 0}

\* The call is over, and its variables with it.
Return == pc' = "idle" /\ nu' = 0 /\ bp' = Base /\ p' = Base /\ prevp' = Base

Init ==
  /\ brk = HEAP_ADDR /\ last = HEAP_ADDR
  /\ frame = [g \in Pages |-> 0]
  /\ ptr = [a \in Addrs |-> Null] /\ size = [a \in Addrs |-> 0]
  /\ freep = Null
  /\ held = [b \in Units |-> 0] /\ failed = FALSE
  /\ pc = "idle" /\ nu = 0 /\ bp = Base /\ p = Base /\ prevp = Base

-----------------------------------------------------------------------------
(* host_memory_malloc *)

\* Fault: freep_base is not made a list.
FirstBare == ptr

\* The first call makes freep_base an empty list.
First == IF freep = Null THEN [ptr EXCEPT ![Base] = Base] ELSE ptr

Malloc(n) ==
  /\ pc = "idle"
  /\ nu' = n
  /\ ptr' = First
  /\ freep' = IF freep = Null THEN Base ELSE freep
  /\ prevp' = freep' /\ p' = First[Phys(freep')]
  /\ pc' = "search"
  /\ UNCHANGED <<brk, last, frame, size, held, failed, bp>>

Advance ==
  /\ pc = "search" /\ Size(p) < nu /\ p # freep
  /\ prevp' = p /\ p' = Nxt(p)
  /\ UNCHANGED <<brk, last, frame, ptr, size, freep, held, failed, pc, nu, bp>>

GiveOut(b) == held[b] < MaxHeld /\ held' = [held EXCEPT ![b] = @ + 1]

\* A block that fits exactly leaves the list.
TakeAll ==
  /\ pc = "search" /\ Size(p) = nu
  /\ ptr' = [ptr EXCEPT ![Phys(prevp)] = Nxt(p)]
  /\ freep' = prevp
  /\ GiveOut(p)
  /\ Return
  /\ UNCHANGED <<brk, last, frame, size, failed>>

Rest == Size(p) - nu
Tail == (p + Rest) % AddrEnd

\* Of a larger one the tail is given out.
TakeTail ==
  /\ pc = "search" /\ Size(p) > nu /\ Tail \in Mapped
  /\ size' = [size EXCEPT ![Phys(p)] = Rest, ![Phys(Tail)] = nu]
  /\ freep' = prevp
  /\ GiveOut(Tail)
  /\ Return
  /\ UNCHANGED <<brk, last, frame, ptr, failed>>

-----------------------------------------------------------------------------
(* morecore and host_memory_sbrk *)

Growth == IF nu < NALLOC THEN NALLOC ELSE nu
NewBrk == (brk + Growth) % AddrEnd
Need   == NewBrk - last

(***************************************************************************)
(* The loop of host_memory_sbrk takes a page from an unsigned count until  *)
(* the count is 0.  If it never is, because the count is no multiple of a  *)
(* page and wraps, or if the heap is too small, the loop runs to the end   *)
(* of the heap and fails, with mm_break and last_valid_address advanced.   *)
(***************************************************************************)
Fits == Need % PageUnits = 0 /\ last + Need <= HEAP_END_ADDR

\* Fault: the last page is not mapped.
MapShort(virt, npages) ==
  frame' = [g \in Pages |-> IF g \in virt \div PageUnits .. virt \div PageUnits + npages - 2
                              THEN virt \div PageUnits ELSE frame[g]]

\* Fault: the range starts a page early.
MapEarly(virt, npages) ==
  frame' = [g \in Pages |-> IF g \in virt \div PageUnits - 1 .. virt \div PageUnits + npages - 1
                              THEN virt \div PageUnits ELSE frame[g]]

\* host_memory_map: every page gets the physical page of the first one.
host_memory_map(virt, npages) ==
  frame' = [g \in Pages |-> IF g \in virt \div PageUnits .. virt \div PageUnits + npages - 1
                              THEN virt \div PageUnits ELSE frame[g]]

\* Has the search come round to where it began?
Round == pc = "search" /\ Size(p) < nu /\ p = freep

\* The new area is a block, which morecore frees; its first page is its own physical page.
Grow ==
  /\ Round /\ Need > 0 /\ Fits
  /\ host_memory_map(brk, Need \div PageUnits)
  /\ size' = [size EXCEPT ![brk] = Growth]
  /\ brk' = NewBrk /\ last' = last + Need
  /\ bp' = brk /\ p' = freep
  /\ pc' = "grow"
  /\ UNCHANGED <<ptr, freep, held, failed, nu, prevp>>

\* Fault: last_valid_address is left alone.
FailLower ==
  /\ Round /\ Need > 0 /\ ~ Fits
  /\ brk' = NewBrk /\ last' = last
  /\ failed' = TRUE
  /\ Return
  /\ UNCHANGED <<frame, ptr, size, freep, held>>

\* malloc returns 0.
Fail ==
  /\ Round /\ Need > 0 /\ ~ Fits
  /\ brk' = NewBrk /\ last' = HEAP_END_ADDR
  /\ failed' = TRUE
  /\ Return
  /\ UNCHANGED <<frame, ptr, size, freep, held>>

(***************************************************************************)
(* A header is written where the heap has no page (an abort), or outside   *)
(* the heap, where other memory is mapped (as above HEAP_END_ADDR): by     *)
(* morecore, when no page is needed, says last_valid_address; or for a     *)
(* tail, when a size is wrong.  What follows is not modelled.              *)
(***************************************************************************)
Stray ==
  /\ \/ /\ Round /\ Need <= 0
        /\ brk' = NewBrk /\ failed' = TRUE
     \/ /\ pc = "search" /\ Size(p) > nu /\ Tail \notin Mapped
        /\ UNCHANGED <<brk, failed>>
  /\ pc' = "stray"
  /\ UNCHANGED <<last, frame, ptr, size, freep, held, locals>>

Astray == pc = "stray" /\ UNCHANGED vars

-----------------------------------------------------------------------------
(* host_memory_free *)

Free(b) ==
  /\ pc = "idle" /\ b \in Live
  /\ held' = [held EXCEPT ![b] = @ - 1]
  /\ bp' = b /\ p' = freep
  /\ pc' = "free"
  /\ UNCHANGED <<brk, last, frame, ptr, size, freep, failed, nu, prevp>>

\* Is bp's place in the list behind p?
Place == \/ p < bp /\ bp < Nxt(p)
         \/ Nxt(p) <= p /\ (p < bp \/ bp < Nxt(p))

Seek ==
  /\ pc \in {"free", "grow"} /\ ~ Place
  /\ p' = Nxt(p)
  /\ UNCHANGED <<brk, last, frame, ptr, size, freep, held, failed, pc, nu, bp, prevp>>

(***************************************************************************)
(* bp is joined to the block up that follows p, or linked to it; then p is *)
(* joined or linked to bp, by the headers as they are by then.  After      *)
(* morecore the search goes on behind the new freep.                       *)
(***************************************************************************)
Link ==
  /\ pc \in {"free", "grow"} /\ Place
  /\ LET up    == Nxt(p)
         upper == (bp + Size(bp)) % AddrEnd = up
         size1 == IF upper THEN [size EXCEPT ![Phys(bp)] = (@ + Size(up)) % SizeEnd] ELSE size
         ptr1  == [ptr EXCEPT ![Phys(bp)] = IF upper THEN Nxt(up) ELSE up]
         lower == (p + size1[Phys(p)]) % AddrEnd = bp IN
     /\ size' = IF lower THEN [size1 EXCEPT ![Phys(p)] = (@ + size1[Phys(bp)]) % SizeEnd] ELSE size1
     /\ ptr' = [ptr1 EXCEPT ![Phys(p)] = IF lower THEN ptr1[Phys(bp)] ELSE bp]
  /\ freep' = p
  /\ \/ /\ pc = "grow" /\ pc' = "search"
        /\ prevp' = p /\ p' = ptr'[Phys(p)] /\ bp' = Base /\ nu' = nu
     \/ pc = "free" /\ Return
  /\ UNCHANGED <<brk, last, frame, held, failed>>

-----------------------------------------------------------------------------

Next ==
  \/ \E n \in Requests : Malloc(n)
  \/ \E b \in Live : Free(b)
  \/ Advance \/ TakeAll \/ TakeTail \/ Grow \/ Fail \/ Stray \/ Seek \/ Link
  \/ Astray

Spec == Init /\ [][Next]_vars

-----------------------------------------------------------------------------
(* Invariants *)

TypeOK ==
  /\ brk \in 0 .. AddrEnd - 1 /\ last \in HEAP_ADDR .. HEAP_END_ADDR
  /\ frame \in [Pages -> {0} \union Pages]
  /\ ptr \in [Addrs -> Addrs \union {Null}] /\ size \in [Addrs -> Nat]
  /\ freep \in Addrs \union {Null} /\ held \in [Units -> 0 .. MaxHeld] /\ failed \in BOOLEAN
  /\ pc \in {"idle", "search", "free", "grow", "stray"}
  /\ nu \in {0} \union Requests /\ bp \in Addrs /\ p \in Addrs /\ prevp \in Addrs

(***************************************************************************)
(* While no growth has failed, mm_break and last_valid_address agree and   *)
(* just the pages below them are mapped: an area that morecore puts in the *)
(* list has its pages.  After a failure too the pages in use are below     *)
(* mm_break: no area is made of memory that is in use.                     *)
(***************************************************************************)
GrowthSound ==
  /\ ~ failed => brk = last /\ Mapped = HEAP_ADDR .. brk - 1
  /\ pc # "stray" => \A u \in Mapped : u < brk

\* A header that is in the heap's memory and in a list.
Listed(a) == a \in {Base} \union Mapped /\ Nxt(a) # Null

(***************************************************************************)
(* Whatever headers the mapping lays over one another, and after failed    *)
(* growths too, the loops of malloc and free follow links to headers in    *)
(* mapped pages of the heap only: nothing is ever read through a link that *)
(* was not written.                                                        *)
(***************************************************************************)
LinksMapped ==
  /\ pc \in {"search", "free", "grow"} => Listed(p) /\ Listed(freep) /\ Listed(Nxt(p))
  /\ pc = "search" => Listed(prevp)

\* No unit of memory is held by two clients.
HeldOnce ==
  \A a, b \in Live :
    /\ held[a] = 1
    /\ a # b => {Phys(u) : u \in (a .. a + Size(a) - 1) \intersect Mapped}
                  \intersect {Phys(u) : u \in (b .. b + Size(b) - 1) \intersect Mapped} = {}

-----------------------------------------------------------------------------
(* Action properties *)

(***************************************************************************)
(* A page in use keeps its physical page, however the heap grows, fails to *)
(* grow or goes over the same addresses again: no client's memory is       *)
(* exchanged under it.                                                     *)
(***************************************************************************)
PagesKept ==
  [][\A g \in Pages : frame[g] # 0 => frame'[g] = frame[g]]_frame

(***************************************************************************)
(* One failed growth is the last: the heap gets no page from then on, even *)
(* for requests that would fit.                                            *)
(***************************************************************************)
FailureLasts == [][failed => frame' = frame]_frame
=============================================================================
