------------------------------- MODULE Stage2 -------------------------------
(***************************************************************************)
(* The stage-2 translation table of one guest, built once at the start     *)
(* from the board's memory map (memory_hw.c: guest_memory_init_ttbl,       *)
(* guest_memory_init_ttbl2, guest_memory_ttbl2_map).  Every guest has a    *)
(* table of its own and they are built one after the other.                *)
(*                                                                         *)
(* Addresses and sizes are counted in pages.  A map has a list of          *)
(* descriptors for every entry of the level-1 table; va counts from the    *)
(* start of that entry.  The level-3 tables of a level-2 table lie behind  *)
(* one another, so that the l-th entry behind the start of a table may be  *)
(* an entry of the next one.  Memory attributes go with the address and    *)
(* are left out.  A size below a page is 0 pages: it maps nothing.         *)
(***************************************************************************)
EXTENDS Integers, Sequences

CONSTANTS
  NumL2,        \* VMM_L2_PTE_NUM
  NumL3,        \* VMM_L3_PTE_NUM
  Maps          \* the memory maps to build a table from

Blocks == 0 .. NumL2 - 1
Pages  == 0 .. NumL2 * NumL3 - 1
None   == -1            \* an invalid descriptor

Descs == {e \in [va : Pages, pa : Nat, size : Nat] : e.va + e.size <= NumL2 * NumL3}

\* guest_memory_ttbl2_map asks for areas that end within the level-1 entry.
ASSUME MapsAssumption ==
  /\ NumL2 \in Nat \ {0} /\ NumL3 \in Nat \ {0}
  /\ Maps \subseteq Seq(Seq(Descs))

VARIABLES
  md,           \* mdlist, the guest's memory map
  l1,           \* the valid entries of level 1
  l2,           \* the valid entries of each level-2 table
  l3,           \* the level-3 entries under each of them
  pc,           \* "list", "desc", "body", "tail" or "done"
  i, k,         \* the list in hand, and the descriptor in it
  index, pa, size       \* index_l2, pa and size of guest_memory_ttbl2_map

tables == <<l1, l2, l3>>
locals == <<index, pa, size>>
vars   == <<md, tables, pc, i, k, locals>>

Init ==
  /\ md \in Maps
  /\ l1 = {}
  /\ l2 = [j \in DOMAIN md |-> {}]
  /\ l3 = [j \in DOMAIN md |-> [q \in Pages |-> None]]
  /\ pc = "list" /\ i = 1 /\ k = 1
  /\ index = 0 /\ pa = 0 /\ size = 0

-----------------------------------------------------------------------------
(* guest_memory_init_ttbl: the lists *)

EmptyList ==
  /\ pc = "list" /\ i <= Len(md) /\ md[i] = <<>>
  /\ l1' = l1 \ {i}
  /\ i' = i + 1
  /\ UNCHANGED <<md, l2, l3, pc, k, locals>>

\* guest_memory_ttbl2_init_entries and guest_memory_ttbl2_unmap of the whole.
invalidate ==
  /\ l2' = [l2 EXCEPT ![i] = {}]
  /\ l3' = [l3 EXCEPT ![i] = [q \in Pages |-> None]]

\* guest_memory_init_ttbl2 makes all entries below invalid.
StartList ==
  /\ pc = "list" /\ i <= Len(md) /\ md[i] # <<>>
  /\ l1' = l1 \union {i}
  /\ invalidate
  /\ pc' = "desc" /\ k' = 1
  /\ UNCHANGED <<md, i, locals>>

EndList ==
  /\ pc = "desc" /\ k > Len(md[i])
  /\ pc' = "list" /\ i' = i + 1
  /\ UNCHANGED <<md, tables, k, locals>>

EndMap ==
  /\ pc = "list" /\ i > Len(md)
  /\ pc' = "done"
  /\ UNCHANGED <<md, tables, i, k, locals>>

-----------------------------------------------------------------------------
(* guest_memory_ttbl2_map: one descriptor *)

desc == md[i][k]

\* n pages from address a, from an entry of the level-3 table of block b on.
ttbl3_map(b, offset, n, a) ==
  LET first == b * NumL3 + offset IN
  l3' = [l3 EXCEPT ![i] = [q \in Pages |->
           IF first <= q /\ q < first + n THEN a + (q - first) ELSE l3[i][q]]]

enable_l2_table(b) == l2' = [l2 EXCEPT ![i] = @ \union {b}]

\* The pages up to the next block, for an area that starts inside one: as
\* many as a whole level-3 table has, wherever in the block it starts.
HeadPages == IF desc.size > NumL3 THEN NumL3 ELSE desc.size

\* Fault: the head is put at the start of its block.
MapHeadAtStart ==
  /\ pc = "desc" /\ k <= Len(md[i]) /\ desc.va % NumL3 # 0
  /\ ttbl3_map(desc.va \div NumL3, 0, HeadPages, desc.pa)
  /\ enable_l2_table(desc.va \div NumL3)
  /\ index' = (desc.va \div NumL3) + 1
  /\ size' = desc.size - HeadPages /\ pa' = desc.pa + HeadPages
  /\ pc' = "body"
  /\ UNCHANGED <<md, l1, i, k>>

MapHead ==
  /\ pc = "desc" /\ k <= Len(md[i]) /\ desc.va % NumL3 # 0
  /\ ttbl3_map(desc.va \div NumL3, desc.va % NumL3, HeadPages, desc.pa)
  /\ enable_l2_table(desc.va \div NumL3)
  /\ index' = (desc.va \div NumL3) + 1
  /\ size' = desc.size - HeadPages /\ pa' = desc.pa + HeadPages
  /\ pc' = "body"
  /\ UNCHANGED <<md, l1, i, k>>

NoHead ==
  /\ pc = "desc" /\ k <= Len(md[i]) /\ desc.va % NumL3 = 0
  /\ index' = desc.va \div NumL3 /\ size' = desc.size /\ pa' = desc.pa
  /\ pc' = "body"
  /\ UNCHANGED <<md, tables, i, k>>

\* Fault: all blocks get the address of the first.
MapBlockSamePa ==
  /\ pc = "body" /\ size >= NumL3
  /\ enable_l2_table(index)
  /\ ttbl3_map(index, 0, NumL3, pa)
  /\ index' = index + 1 /\ pa' = pa /\ size' = size - NumL3
  /\ UNCHANGED <<md, l1, pc, i, k>>

MapBlock ==
  /\ pc = "body" /\ size >= NumL3
  /\ enable_l2_table(index)
  /\ ttbl3_map(index, 0, NumL3, pa)
  /\ index' = index + 1 /\ pa' = pa + NumL3 /\ size' = size - NumL3
  /\ UNCHANGED <<md, l1, pc, i, k>>

EndBody ==
  /\ pc = "body" /\ size < NumL3
  /\ pc' = "tail"
  /\ UNCHANGED <<md, tables, i, k, locals>>

\* On to the next descriptor; the locals are gone.
NextDesc == pc' = "desc" /\ k' = k + 1 /\ index' = 0 /\ pa' = 0 /\ size' = 0

\* Fault: the tail is mapped to the end of its block.
MapTailWhole ==
  /\ pc = "tail" /\ size > 0
  /\ ttbl3_map(index, 0, NumL3, pa)
  /\ enable_l2_table(index)
  /\ NextDesc
  /\ UNCHANGED <<md, l1, i>>

MapTail ==
  /\ pc = "tail" /\ size > 0
  /\ ttbl3_map(index, 0, size, pa)
  /\ enable_l2_table(index)
  /\ NextDesc
  /\ UNCHANGED <<md, l1, i>>

NoTail ==
  /\ pc = "tail" /\ size = 0
  /\ NextDesc
  /\ UNCHANGED <<md, tables, i>>

-----------------------------------------------------------------------------

Step ==
  \/ EmptyList \/ StartList \/ EndList \/ EndMap
  \/ MapHead \/ NoHead \/ MapBlock \/ EndBody \/ MapTail \/ NoTail

\* The guests use the table from now on.
Built == pc = "done" /\ UNCHANGED vars

Next == Step \/ Built

Spec == Init /\ [][Next]_vars

-----------------------------------------------------------------------------
(* What the hardware makes of the tables *)

\* The page that the walk of the tables finds for page q of level-1 entry j.
Walk(j, q) == IF j \in l1 /\ q \div NumL3 \in l2[j] THEN l3[j][q] ELSE None

Covers(e, q) == e.va <= q /\ q < e.va + e.size

\* What the map says: of two descriptors of a page the last one counts.
Last(j, q, n) ==
  /\ Covers(md[j][n], q)
  /\ \A m \in DOMAIN md[j] : m > n => ~ Covers(md[j][m], q)

\* Every area that starts inside a block ends there, too.
Fitting(j) ==
  \A n \in DOMAIN md[j] : LET offset == md[j][n].va % NumL3 IN
    offset = 0 \/ offset + md[j][n].size <= NumL3

-----------------------------------------------------------------------------
(* Properties *)

TypeOK ==
  /\ md \in Maps
  /\ l1 \subseteq DOMAIN md
  /\ l2 \in [DOMAIN md -> SUBSET Blocks]
  /\ l3 \in [DOMAIN md -> [Pages -> Nat \union {None}]]
  /\ pc \in {"list", "desc", "body", "tail", "done"}
  /\ i \in 1 .. Len(md) + 1 /\ k \in Nat \ {0}
  /\ index \in 0 .. NumL2 /\ pa \in Nat /\ size \in Nat

(***************************************************************************)
(* Isolation: whatever the map, and at every moment, the guest gets at     *)
(* pages of its own descriptors only (guest_memory_ttbl2_map never writes  *)
(* an address beyond the area it was given).                               *)
(***************************************************************************)
Confined ==
  \A j \in DOMAIN md : \A q \in Pages :
    Walk(j, q) # None =>
      \E n \in DOMAIN md[j] :
        md[j][n].pa <= Walk(j, q) /\ Walk(j, q) < md[j][n].pa + md[j][n].size

\* Is a descriptor in hand?
Mapping == pc \in {"desc", "body", "tail"} /\ k <= Len(md[i])

(***************************************************************************)
(* If the areas fit, a descriptor changes the translation of its own pages *)
(* only; otherwise it may reveal pages that the head of an earlier one     *)
(* left in the next level-3 table.                                         *)
(***************************************************************************)
OnlyItsPages ==
  [][Mapping /\ Fitting(i) =>
       \A j \in DOMAIN md : \A q \in Pages :
         ~ (j = i /\ Covers(desc, q)) => Walk(j, q)' = Walk(j, q)]_vars

(***************************************************************************)
(* The finished table translates as the map says, if the areas fit, which  *)
(* those of the boards do.                                                 *)
(***************************************************************************)
Translated ==
  pc = "done" =>
    \A j \in DOMAIN md :
      Fitting(j) =>
        \A q \in Pages :
          /\ \A n \in DOMAIN md[j] :
               Last(j, q, n) => Walk(j, q) = md[j][n].pa + (q - md[j][n].va)
          /\ (\A n \in DOMAIN md[j] : ~ Covers(md[j][n], q)) => Walk(j, q) = None
=============================================================================
