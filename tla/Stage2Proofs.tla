---------------------------- MODULE Stage2Proofs ----------------------------
(* Theorems about Stage2, for every memory map and every size of tables. *)
EXTENDS Stage2, TLAPS

LEMMA NextBlock ==
  ASSUME NEW b \in Nat, NEW n \in Nat
  PROVE  (b + 1) * n = b * n + n
  OBVIOUS

\* The block of a page, and the place of the page in it.
LEMMA BlockOf ==
  ASSUME NEW q \in Nat, NEW n \in Nat \ {0}
  PROVE  /\ q \div n \in Nat /\ q % n \in 0 .. n - 1
         /\ q = (q \div n) * n + (q % n)
  OBVIOUS

LEMMA Sizes == NumL2 \in Nat \ {0} /\ NumL3 \in Nat \ {0}
  BY MapsAssumption

\* The same for the tables at hand.
LEMMA BlockOfPage ==
  ASSUME NEW q \in Nat
  PROVE  /\ q \div NumL3 \in Nat /\ q % NumL3 \in 0 .. NumL3 - 1
         /\ q = (q \div NumL3) * NumL3 + (q % NumL3)
  BY Sizes, BlockOf, Zenon

LEMMA PageInBlocks ==
  ASSUME NEW q \in Pages PROVE q \div NumL3 \in Blocks
<1>. USE Sizes
<1>0. q \in Nat
  BY DEF Pages
<1>1. /\ q \div NumL3 \in Nat /\ q % NumL3 \in Nat
      /\ q = (q \div NumL3) * NumL3 + (q % NumL3)
  BY <1>0, BlockOfPage
<1>2. PICK b \in Nat, r \in Nat : b = q \div NumL3 /\ q = b * NumL3 + r
  BY <1>1
<1>3. b * NumL3 < NumL2 * NumL3
  BY <1>2 DEF Pages
<1>4. b < NumL2
  <2>1. SUFFICES ASSUME NumL2 <= b PROVE FALSE
    BY <1>2
  <2>2. NumL2 * NumL3 <= b * NumL3
    BY <2>1
  <2>. QED  BY <2>2, <1>3
<1>. QED  BY <1>2, <1>4 DEF Blocks

-----------------------------------------------------------------------------
(* The inductive invariant *)

\* While a descriptor is in hand there is a list in hand.
InHand == pc \in {"desc", "body", "tail"} => i <= Len(md)

\* What is left of the descriptor is the end of its area, and it fits in.
Cursor ==
  pc \in {"body", "tail"} =>
    /\ k <= Len(md[i])
    /\ desc.pa <= pa /\ pa + size = desc.pa + desc.size
    /\ index * NumL3 + size <= NumL2 * NumL3

\* Is address a in the area of descriptor e?
Of(e, a) == e.pa <= a /\ a < e.pa + e.size

\* Every page in a level-3 table, revealed or not, is of some descriptor.
Owned ==
  \A j \in DOMAIN md : \A q \in Pages :
    l3[j][q] # None => \E n \in DOMAIN md[j] : Of(md[j][n], l3[j][q])

IInv == TypeOK /\ InHand /\ Cursor /\ Owned

-----------------------------------------------------------------------------

LEMMA MdType ==
  ASSUME TypeOK
  PROVE  /\ md \in Seq(Seq(Descs)) /\ Len(md) \in Nat /\ DOMAIN md = 1 .. Len(md)
         /\ \A j \in DOMAIN md : md[j] \in Seq(Descs) /\ Len(md[j]) \in Nat
                                  /\ DOMAIN md[j] = 1 .. Len(md[j])
<1>1. md \in Seq(Seq(Descs))
  BY MapsAssumption DEF TypeOK
<1>2. Len(md) \in Nat /\ DOMAIN md = 1 .. Len(md)
  BY <1>1
<1>3. ASSUME NEW j \in DOMAIN md
      PROVE  md[j] \in Seq(Descs) /\ Len(md[j]) \in Nat
             /\ DOMAIN md[j] = 1 .. Len(md[j])
  BY <1>1, <1>2
<1>. QED  BY <1>1, <1>2, <1>3

LEMMA DescType ==
  ASSUME TypeOK, i <= Len(md), k <= Len(md[i])
  PROVE  /\ i \in DOMAIN md /\ k \in DOMAIN md[i]
         /\ desc.va \in Pages /\ desc.pa \in Nat /\ desc.size \in Nat
         /\ desc.va + desc.size <= NumL2 * NumL3
<1>1. i \in DOMAIN md
  BY MdType DEF TypeOK
<1>2. k \in DOMAIN md[i] /\ md[i] \in Seq(Descs)
  BY <1>1, MdType DEF TypeOK
<1>3. md[i][k] \in Descs
  BY <1>2
<1>. QED  BY <1>1, <1>2, <1>3 DEF Descs, desc

\* ttbl3_map with a part of the descriptor's area keeps what it has to.
LEMMA MapKeeps ==
  ASSUME TypeOK, Owned, i <= Len(md), k <= Len(md[i]), md' = md,
         NEW b, NEW offset, NEW n \in Nat, NEW a \in Nat,
         b * NumL3 + offset \in Nat,
         desc.pa <= a, a + n <= desc.pa + desc.size,
         ttbl3_map(b, offset, n, a)
  PROVE  l3' \in [DOMAIN md -> [Pages -> Nat \union {None}]] /\ Owned'
<1>. DEFINE new(f) == [q \in Pages |->
       IF f <= q /\ q < f + n THEN a + (q - f) ELSE l3[i][q]]
<1>1. PICK first \in Nat : l3' = [l3 EXCEPT ![i] = new(first)]
  BY DEF ttbl3_map
<1>2. i \in DOMAIN md /\ k \in DOMAIN md[i] /\ desc.pa \in Nat /\ desc.size \in Nat
  BY DescType
<1>3. l3 \in [DOMAIN md -> [Pages -> Nat \union {None}]]
  BY DEF TypeOK
<1>4. ASSUME NEW q \in Pages, first <= q, q < first + n
      PROVE  new(first)[q] \in Nat /\ Of(desc, new(first)[q])
  <2>1. q \in Nat
    BY Sizes DEF Pages
  <2>2. new(first)[q] = a + (q - first)
    BY <1>4
  <2>. HIDE DEF new
  <2>3. a + (q - first) \in Nat /\ a <= a + (q - first) /\ a + (q - first) < a + n
    BY <2>1, <1>4
  <2>4. desc.pa <= a + (q - first) /\ a + (q - first) < desc.pa + desc.size
    BY <2>1, <2>3, <1>2
  <2>. QED  BY <2>2, <2>3, <2>4 DEF Of
<1>5. ASSUME NEW q \in Pages, ~ (first <= q /\ q < first + n)
      PROVE  new(first)[q] = l3[i][q]
  BY <1>5
<1>. HIDE DEF new
<1>6. new(first) \in [Pages -> Nat \union {None}]
  <2>1. ASSUME NEW q \in Pages PROVE new(first)[q] \in Nat \union {None}
    BY <1>2, <1>3, <1>4, <1>5
  <2>. QED  BY <2>1 DEF new
<1>7. l3' \in [DOMAIN md -> [Pages -> Nat \union {None}]]
  BY <1>1, <1>2, <1>3, <1>6
<1>8. ASSUME NEW j \in DOMAIN md, NEW q \in Pages, l3'[j][q] # None
      PROVE  \E m \in DOMAIN md[j] : Of(md[j][m], l3'[j][q])
  <2>1. CASE j # i
    <3>1. l3'[j] = l3[j]
      BY <1>1, <1>3, <2>1
    <3>. QED  BY <3>1, <1>8 DEF Owned
  <2>2. CASE j = i
    <3>1. l3'[i] = new(first)
      BY <1>1, <1>2, <1>3
    <3>2. CASE first <= q /\ q < first + n
      BY <1>2, <1>4, <2>2, <3>1, <3>2 DEF desc
    <3>3. CASE ~ (first <= q /\ q < first + n)
      BY <1>2, <1>5, <1>8, <2>2, <3>1, <3>3 DEF Owned
    <3>. QED  BY <3>2, <3>3
  <2>. QED  BY <2>1, <2>2
<1>9. Owned'
  BY <1>8 DEF Owned
<1>. QED  BY <1>7, <1>9

\* A block that still has room in the level-2 table is one of its blocks.
LEMMA RoomInBlocks ==
  ASSUME NEW b \in Nat, NEW n \in Nat \ {0}, b * NumL3 + n <= NumL2 * NumL3
  PROVE  b \in Blocks /\ b * NumL3 + 0 \in Nat
<1>. USE Sizes
<1>1. b * NumL3 \in Nat /\ b * NumL3 < NumL2 * NumL3
  OBVIOUS
<1>2. b < NumL2
  <2>1. SUFFICES ASSUME NumL2 <= b PROVE FALSE
    OBVIOUS
  <2>2. NumL2 * NumL3 <= b * NumL3
    BY <2>1
  <2>. QED  BY <2>2, <1>1
<1>. QED  BY <1>1, <1>2 DEF Blocks

LEMMA InitInv == Init => IInv
<1>. SUFFICES ASSUME Init PROVE IInv
  OBVIOUS
<1>0. md \in Seq(Seq(Descs)) /\ Len(md) \in Nat /\ DOMAIN md = 1 .. Len(md)
  BY MapsAssumption DEF Init
<1>1. TypeOK
  BY <1>0, Sizes DEF Init, TypeOK
<1>. QED  BY <1>1 DEF IInv, InHand, Cursor, Owned, Init

LEMMA ListSteps ==
  ASSUME IInv, EmptyList \/ StartList \/ EndList \/ EndMap
  PROVE  IInv'
<1>0. TypeOK /\ InHand /\ Cursor /\ Owned
  BY DEF IInv
<1>. /\ Len(md) \in Nat /\ DOMAIN md = 1 .. Len(md)
     /\ \A j \in DOMAIN md : Len(md[j]) \in Nat
  BY <1>0, MdType
<1>1. CASE EmptyList
  <2>1. i' \in 1 .. Len(md) + 1 /\ l1' \subseteq DOMAIN md
    BY <1>0, <1>1 DEF EmptyList, TypeOK
  <2>2. TypeOK'
    BY <1>0, <1>1, <2>1 DEF EmptyList, TypeOK, locals
  <2>. QED  BY <2>2, <1>0, <1>1 DEF EmptyList, IInv, InHand, Cursor, Owned, locals
<1>2. CASE StartList
  <2>0. i \in DOMAIN md
    BY <1>0, <1>2 DEF StartList, invalidate, TypeOK
  <2>1. TypeOK'
    BY <1>0, <1>2, <2>0 DEF StartList, invalidate, TypeOK, locals
  <2>2. InHand' /\ Cursor'
    BY <1>0, <1>2 DEF StartList, invalidate, InHand, Cursor
  <2>3. Owned'
    <3>1. ASSUME NEW j \in DOMAIN md, NEW q \in Pages, l3'[j][q] # None
          PROVE  \E n \in DOMAIN md[j] : Of(md[j][n], l3'[j][q])
      <4>1. j # i /\ l3'[j] = l3[j]
        BY <1>0, <1>2, <2>0, <3>1 DEF StartList, invalidate, TypeOK
      <4>. QED  BY <1>0, <3>1, <4>1 DEF Owned
    <3>. QED  BY <3>1, <1>2 DEF Owned, StartList, invalidate
  <2>. QED  BY <2>1, <2>2, <2>3 DEF IInv
<1>3. CASE EndList
  <2>1. TypeOK'
    BY <1>0, <1>3 DEF EndList, TypeOK, InHand, locals, tables
  <2>. QED  BY <2>1, <1>0, <1>3 DEF EndList, IInv, InHand, Cursor, Owned, locals, tables
<1>4. CASE EndMap
  <2>1. TypeOK'
    BY <1>0, <1>4 DEF EndMap, TypeOK, locals, tables
  <2>. QED  BY <2>1, <1>0, <1>4 DEF EndMap, IInv, InHand, Cursor, Owned, locals, tables
<1>. QED  BY <1>1, <1>2, <1>3, <1>4

LEMMA HeadStep ==
  ASSUME IInv, MapHead
  PROVE  IInv'
<1>. USE DEF MapHead
<1>0. TypeOK /\ InHand /\ Cursor /\ Owned
  BY DEF IInv
<1>1. i <= Len(md) /\ k <= Len(md[i])
  BY <1>0 DEF InHand
<1>2. /\ i \in DOMAIN md /\ desc.va \in Nat /\ desc.va \in Pages
      /\ desc.pa \in Nat /\ desc.size \in Nat
  BY <1>0, <1>1, DescType, Sizes DEF Pages
<1>22. desc.va + desc.size <= NumL2 * NumL3
  BY <1>0, <1>1, DescType
<1>20. /\ desc.va \div NumL3 \in Nat /\ desc.va % NumL3 \in 0 .. NumL3 - 1
       /\ desc.va = (desc.va \div NumL3) * NumL3 + (desc.va % NumL3)
  BY <1>2, BlockOfPage, Zenon
<1>21. desc.va % NumL3 \in Nat
  BY <1>20, Sizes
<1>3. PICK b \in Nat, r \in Nat :
        /\ b = desc.va \div NumL3 /\ r = desc.va % NumL3
        /\ desc.va = b * NumL3 + r
  BY <1>20, <1>21
<1>4. b \in Blocks
  BY <1>2, <1>3, PageInBlocks
<1>5. PICK h \in Nat : h = HeadPages /\ h <= desc.size /\ h <= NumL3
                      /\ (desc.size > NumL3 => h = NumL3)
                      /\ (desc.size <= NumL3 => h = desc.size)
  BY <1>2, Sizes DEF HeadPages
<1>6. l3' \in [DOMAIN md -> [Pages -> Nat \union {None}]] /\ Owned'
  <2>1. ttbl3_map(b, r, h, desc.pa)
    BY <1>3, <1>5
  <2>2. b * NumL3 + r \in Nat /\ md' = md
    BY <1>2, <1>3
  <2>3. desc.pa <= desc.pa /\ desc.pa + h <= desc.pa + desc.size
    BY <1>2, <1>5
  <2>. QED  BY <1>0, <1>1, <1>2, <2>1, <2>2, <2>3, MapKeeps
<1>7. index' = b + 1 /\ size' = desc.size - h /\ pa' = desc.pa + h
  BY <1>3, <1>5
<1>8. l2' \in [DOMAIN md -> SUBSET Blocks]
  BY <1>0, <1>2, <1>3, <1>4 DEF enable_l2_table, TypeOK
<1>9. TypeOK'
  <2>1. index' \in 0 .. NumL2
    BY <1>4, <1>7, Sizes DEF Blocks
  <2>2. size' \in Nat /\ pa' \in Nat
    BY <1>2, <1>5, <1>7
  <2>. QED  BY <1>0, <1>6, <1>8, <2>1, <2>2 DEF TypeOK
<1>10. Cursor'
  <2>1. desc' = desc
    BY DEF desc
  <2>2. index' * NumL3 + size' <= NumL2 * NumL3
    <3>1. CASE desc.size > NumL3
      <4>1. index' * NumL3 = b * NumL3 + NumL3
        BY <1>7, NextBlock, Sizes
      <4>2. b * NumL3 \in Nat
        BY Sizes
      <4>3. size' = desc.size - NumL3 /\ NumL3 \in Int /\ NumL2 * NumL3 \in Int
        BY <1>5, <1>7, <3>1, Sizes
      <4>4. PICK x \in Nat : x = b * NumL3
        BY <4>2
      <4>5. index' * NumL3 + size' = x + desc.size
        BY <4>1, <4>3, <4>4, <1>2
      <4>6. x <= desc.va
        BY <4>4, <1>3
      <4>7. x + desc.size <= desc.va + desc.size
        BY <4>6, <1>2
      <4>8. PICK top \in Int : top = NumL2 * NumL3
        BY <4>3
      <4>9. x + desc.size <= top
        BY <4>7, <4>8, <1>2, <1>22
      <4>. QED  BY <4>5, <4>8, <4>9
    <3>2. CASE desc.size <= NumL3
      <4>1. size' = 0
        BY <1>2, <1>5, <1>7, <3>2
      <4>2. index' <= NumL2 /\ index' \in Nat
        BY <1>4, <1>7, Sizes DEF Blocks
      <4>3. index' * NumL3 <= NumL2 * NumL3
        BY <4>2, Sizes
      <4>4. index' * NumL3 + 0 = index' * NumL3
        BY <4>2, Sizes
      <4>. QED  BY <4>1, <4>3, <4>4
    <3>. QED  BY <3>1, <3>2, <1>2, Sizes
  <2>30. desc.pa \in Nat /\ desc.size \in Nat /\ h <= desc.size
    BY <1>2, <1>5
  <2>31. desc.pa <= desc.pa + h
    BY <2>30
  <2>32. (desc.pa + h) + (desc.size - h) = desc.pa + desc.size
    BY <2>30
  <2>3. desc.pa <= pa' /\ pa' + size' = desc.pa + desc.size
    BY <1>7, <2>31, <2>32
  <2>. QED  BY <1>1, <2>1, <2>2, <2>3 DEF Cursor
<1>11. InHand'
  BY <1>1 DEF InHand
<1>. QED  BY <1>6, <1>9, <1>10, <1>11 DEF IInv

LEMMA NoHeadStep ==
  ASSUME IInv, NoHead
  PROVE  IInv'
<1>. USE DEF NoHead
<1>0. TypeOK /\ InHand /\ Cursor /\ Owned
  BY DEF IInv
<1>1. i <= Len(md) /\ k <= Len(md[i])
  BY <1>0 DEF InHand
<1>2. /\ desc.va \in Nat /\ desc.va \in Pages
      /\ desc.pa \in Nat /\ desc.size \in Nat
      /\ desc.va + desc.size <= NumL2 * NumL3
  BY <1>0, <1>1, DescType, Sizes DEF Pages
<1>20. /\ desc.va \div NumL3 \in Nat
       /\ desc.va = (desc.va \div NumL3) * NumL3 + (desc.va % NumL3)
  BY <1>2, BlockOfPage, Sizes
<1>3. PICK b \in Nat : b = desc.va \div NumL3 /\ desc.va = b * NumL3 + 0
  BY <1>20
<1>4. b \in Blocks
  BY <1>2, <1>3, PageInBlocks
<1>5. TypeOK'
  <2>1. index' \in 0 .. NumL2
    BY <1>3, <1>4, Sizes DEF Blocks
  <2>. QED  BY <1>0, <1>2, <2>1 DEF TypeOK, tables
<1>6. Cursor'
  <2>1. desc' = desc
    BY DEF desc
  <2>2. index' * NumL3 + size' <= NumL2 * NumL3
    BY <1>2, <1>3, Sizes
  <2>. QED  BY <1>1, <1>2, <2>1, <2>2 DEF Cursor
<1>7. Owned' /\ InHand'
  BY <1>0, <1>1 DEF Owned, InHand, tables
<1>. QED  BY <1>5, <1>6, <1>7 DEF IInv

LEMMA BlockStep ==
  ASSUME IInv, MapBlock
  PROVE  IInv'
<1>. USE DEF MapBlock
<1>0. TypeOK /\ InHand /\ Cursor /\ Owned
  BY DEF IInv
<1>1. /\ i <= Len(md) /\ k <= Len(md[i])
      /\ desc.pa <= pa /\ pa + size = desc.pa + desc.size
      /\ index * NumL3 + size <= NumL2 * NumL3
  BY <1>0 DEF InHand, Cursor
<1>2. /\ i \in DOMAIN md /\ desc.pa \in Nat /\ desc.size \in Nat
      /\ index \in Nat /\ pa \in Nat /\ size \in Nat
  BY <1>0, <1>1, DescType, Sizes DEF TypeOK
<1>3. index \in Blocks /\ index * NumL3 + 0 \in Nat
  <2>1. size \in Nat \ {0}
    BY <1>2, Sizes
  <2>. QED  BY <1>1, <1>2, <2>1, RoomInBlocks
<1>4. l3' \in [DOMAIN md -> [Pages -> Nat \union {None}]] /\ Owned'
  <2>1. /\ NumL3 \in Nat /\ pa + NumL3 <= desc.pa + desc.size /\ md' = md
        /\ ttbl3_map(index, 0, NumL3, pa)
    BY <1>1, <1>2, Sizes
  <2>. QED  BY <1>0, <1>1, <1>2, <1>3, <2>1, MapKeeps
<1>5. l2' \in [DOMAIN md -> SUBSET Blocks]
  BY <1>0, <1>2, <1>3 DEF enable_l2_table, TypeOK
<1>6. TypeOK'
  <2>1. index' \in 0 .. NumL2 /\ pa' \in Nat /\ size' \in Nat
    BY <1>2, <1>3, Sizes DEF Blocks
  <2>. QED  BY <1>0, <1>4, <1>5, <2>1 DEF TypeOK
<1>7. Cursor'
  <2>1. desc' = desc
    BY DEF desc
  <2>2. index' * NumL3 + size' <= NumL2 * NumL3
    <3>1. index' * NumL3 = index * NumL3 + NumL3
      BY <1>2, NextBlock, Sizes
    <3>2. PICK x \in Nat : x = index * NumL3
      BY <1>3, <1>2, Sizes
    <3>3. index' * NumL3 + size' = x + size
      BY <3>1, <3>2, <1>2, Sizes
    <3>. QED  BY <1>1, <3>2, <3>3
  <2>3. desc.pa <= pa' /\ pa' + size' = desc.pa + desc.size
    BY <1>1, <1>2, Sizes
  <2>. QED  BY <1>1, <2>1, <2>2, <2>3 DEF Cursor
<1>8. InHand'
  BY <1>1 DEF InHand
<1>. QED  BY <1>4, <1>6, <1>7, <1>8 DEF IInv

LEMMA TailStep ==
  ASSUME IInv, MapTail
  PROVE  IInv'
<1>. USE DEF MapTail, NextDesc
<1>0. TypeOK /\ InHand /\ Cursor /\ Owned
  BY DEF IInv
<1>1. /\ i <= Len(md) /\ k <= Len(md[i])
      /\ desc.pa <= pa /\ pa + size = desc.pa + desc.size
      /\ index * NumL3 + size <= NumL2 * NumL3
  BY <1>0 DEF InHand, Cursor
<1>2. /\ i \in DOMAIN md /\ desc.pa \in Nat /\ desc.size \in Nat
      /\ index \in Nat /\ pa \in Nat /\ size \in Nat
  BY <1>0, <1>1, DescType, Sizes DEF TypeOK
<1>3. index \in Blocks /\ index * NumL3 + 0 \in Nat
  <2>1. size \in Nat \ {0}
    BY <1>2
  <2>. QED  BY <1>1, <1>2, <2>1, RoomInBlocks
<1>4. l3' \in [DOMAIN md -> [Pages -> Nat \union {None}]] /\ Owned'
  <2>1. /\ pa + size <= desc.pa + desc.size /\ md' = md
        /\ ttbl3_map(index, 0, size, pa)
    BY <1>1, <1>2
  <2>. QED  BY <1>0, <1>1, <1>2, <1>3, <2>1, MapKeeps
<1>5. l2' \in [DOMAIN md -> SUBSET Blocks]
  BY <1>0, <1>2, <1>3 DEF enable_l2_table, TypeOK
<1>6. TypeOK'
  <2>1. index' \in 0 .. NumL2 /\ pa' \in Nat /\ size' \in Nat
    BY Sizes
  <2>2. k' \in Nat \ {0}
    BY <1>0 DEF TypeOK
  <2>. QED  BY <1>0, <1>4, <1>5, <2>1, <2>2 DEF TypeOK
<1>7. Cursor' /\ InHand'
  BY <1>1 DEF Cursor, InHand
<1>. QED  BY <1>4, <1>6, <1>7 DEF IInv

LEMMA OtherSteps ==
  ASSUME IInv, EndBody \/ NoTail \/ UNCHANGED vars
  PROVE  IInv'
<1>0. TypeOK /\ InHand /\ Cursor /\ Owned
  BY DEF IInv
<1>1. CASE EndBody
  BY <1>0, <1>1 DEF EndBody, IInv, TypeOK, InHand, Cursor, Owned, desc, tables, locals
<1>2. CASE NoTail
  <2>1. index' \in 0 .. NumL2 /\ k' \in Nat \ {0}
    BY <1>0, <1>2, Sizes DEF NoTail, NextDesc, TypeOK
  <2>2. TypeOK'
    BY <1>0, <1>2, <2>1 DEF NoTail, NextDesc, TypeOK, tables
  <2>. QED  BY <1>0, <1>2, <2>2 DEF NoTail, NextDesc, IInv, InHand, Cursor, Owned, tables
<1>3. CASE UNCHANGED vars
  BY <1>0, <1>3 DEF vars, tables, locals, IInv, TypeOK, InHand, Cursor, Owned, desc
<1>. QED  BY <1>1, <1>2, <1>3

(***************************************************************************)
(* The invariant holds in every state of guest_memory_init_ttbl, for every *)
(* memory map.                                                             *)
(***************************************************************************)
THEOREM Invariance == Spec => []IInv
<1>1. ASSUME IInv, [Next]_vars PROVE IInv'
  BY <1>1, ListSteps, HeadStep, NoHeadStep, BlockStep, TailStep, OtherSteps
     DEF Next, Step, Built
<1>. QED  BY InitInv, <1>1, PTL DEF Spec

(***************************************************************************)
(* The tables and the cursor of guest_memory_ttbl2_map keep their types:   *)
(* no entry outside the tables is enabled.                                 *)
(***************************************************************************)
THEOREM TypeCorrect == Spec => []TypeOK
<1>1. IInv => TypeOK
  BY DEF IInv
<1>. QED  BY <1>1, Invariance, PTL

(***************************************************************************)
(* Isolation: the guest gets at pages of its own descriptors only, for     *)
(* every map, also one whose areas do not fit the blocks.                  *)
(***************************************************************************)
THEOREM GuestConfined == Spec => []Confined
<1>1. IInv => Confined
  <2>1. SUFFICES ASSUME IInv, NEW j \in DOMAIN md, NEW q \in Pages, Walk(j, q) # None
                 PROVE  \E n \in DOMAIN md[j] :
                          md[j][n].pa <= Walk(j, q) /\ Walk(j, q) < md[j][n].pa + md[j][n].size
    BY DEF Confined
  <2>2. Walk(j, q) = l3[j][q]
    BY <2>1 DEF Walk
  <2>. QED  BY <2>1, <2>2 DEF IInv, Owned, Of
<1>. QED  BY <1>1, Invariance, PTL

-----------------------------------------------------------------------------
(* What the tables translate: a second invariant, for the lists that fit *)

\* The first n descriptors of list j say of page q that it is at w.
Says(j, q, n, w) ==
  \/ \E m \in 1 .. n :
       /\ Covers(md[j][m], q) /\ w = md[j][m].pa + (q - md[j][m].va)
       /\ \A x \in m + 1 .. n : ~ Covers(md[j][x], q)
  \/ w = None /\ \A m \in 1 .. n : ~ Covers(md[j][m], q)

\* Has the descriptor in hand got to page q?
Filled(q) == desc.va <= q /\ q < desc.va + (desc.size - size)

InBody == pc \in {"body", "tail"}

\* index stands where the rest of the area starts, and the tail is below a block.
Places ==
  /\ pc = "desc" => k <= Len(md[i]) + 1
  /\ pc = "tail" => size < NumL3
  /\ pc = "done" => i > Len(md)
  /\ pc \in {"desc", "body", "tail"} => i \in l1
  /\ InBody => size <= desc.size
  /\ InBody /\ Fitting(i) /\ size > 0 => index * NumL3 = desc.va + (desc.size - size)

\* No entry waits in a level-3 table that level 2 does not show.
NothingHidden ==
  \A j \in DOMAIN md : Fitting(j) =>
    \A q \in Pages : l3[j][q] # None => q \div NumL3 \in l2[j]

\* The lists behind are as their descriptors say,
Finished ==
  \A j \in DOMAIN md : Fitting(j) /\ j < i =>
    \A q \in Pages : Says(j, q, Len(md[j]), Walk(j, q))

\* and the one in hand as those before descriptor k say, and k as far as it got.
Current ==
  pc \in {"desc", "body", "tail"} /\ Fitting(i) =>
    \A q \in Pages :
      IF InBody /\ Filled(q) THEN Walk(i, q) = desc.pa + (q - desc.va)
                             ELSE Says(i, q, k - 1, Walk(i, q))

TInv == Places /\ NothingHidden /\ Finished /\ Current

-----------------------------------------------------------------------------

\* A page of a part of a block is in the block.
LEMMA PartOfBlock ==
  ASSUME NEW q \in Nat, NEW b \in Nat, NEW offset \in Nat, NEW n \in Nat, NEW N \in Nat \ {0},
         offset + n <= N, b * N + offset <= q, q < b * N + offset + n
  PROVE  q \div N = b
<1>1. PICK x \in Nat : x = b * N
  OBVIOUS
<1>2. x <= q /\ q < x + N
  BY <1>1
<1>3. PICK d \in Nat, r \in 0 .. N - 1 : d = q \div N /\ q = d * N + r
  BY BlockOf
<1>4. ASSUME d < b PROVE FALSE
  <2>1. d + 1 <= b
    BY <1>4
  <2>2. (d + 1) * N <= b * N
    BY <2>1
  <2>3. (d + 1) * N = d * N + N
    BY NextBlock
  <2>4. PICK y \in Nat : y = d * N
    OBVIOUS
  <2>5. y + N <= x /\ q = y + r
    BY <2>2, <2>3, <2>4, <1>1, <1>3
  <2>. QED  BY <2>5, <1>2, <1>3
<1>5. ASSUME b < d PROVE FALSE
  <2>1. b + 1 <= d
    BY <1>5
  <2>2. (b + 1) * N <= d * N
    BY <2>1
  <2>3. (b + 1) * N = b * N + N
    BY NextBlock
  <2>4. PICK y \in Nat : y = d * N
    OBVIOUS
  <2>5. x + N <= y /\ q = y + r
    BY <2>2, <2>3, <2>4, <1>1, <1>3
  <2>. QED  BY <2>5, <1>2, <1>3
<1>. QED  BY <1>3, <1>4, <1>5

\* Mapping n pages within block b changes the translation of those pages
\* only, and hides nothing.
LEMMA Written ==
  ASSUME TypeOK, NothingHidden, i \in DOMAIN md, Fitting(i), i \in l1,
         md' = md, l1' = l1, i' = i,
         NEW b \in Blocks, NEW offset \in Nat, NEW n \in Nat, NEW a \in Nat,
         offset + n <= NumL3,
         ttbl3_map(b, offset, n, a), enable_l2_table(b)
  PROVE  /\ NothingHidden'
         /\ \A j \in DOMAIN md, q \in Pages :
              Walk(j, q)' = IF j = i /\ b * NumL3 + offset <= q /\ q < b * NumL3 + offset + n
                              THEN a + (q - (b * NumL3 + offset)) ELSE Walk(j, q)
<1>. DEFINE first == b * NumL3 + offset
            In(q) == first <= q /\ q < first + n
<1>1. /\ l3 \in [DOMAIN md -> [Pages -> Nat \union {None}]]
      /\ l2 \in [DOMAIN md -> SUBSET Blocks]
  BY DEF TypeOK
<1>2. l3' = [l3 EXCEPT ![i] = [q \in Pages |-> IF In(q) THEN a + (q - first) ELSE l3[i][q]]]
  BY DEF ttbl3_map
<1>3. l2' = [l2 EXCEPT ![i] = l2[i] \union {b}]
  BY DEF enable_l2_table
<1>4. ASSUME NEW q \in Pages, In(q) PROVE q \div NumL3 = b
  <2>1. q \in Nat /\ b \in Nat
    BY Sizes DEF Pages, Blocks
  <2>. QED  BY <2>1, <1>4, PartOfBlock, Sizes
<1>5. first \in Nat
  BY Sizes DEF Blocks
<1>. HIDE DEF first
<1>6. ASSUME NEW q \in Pages
      PROVE  l3'[i][q] = IF In(q) THEN a + (q - first) ELSE l3[i][q]
  BY <1>1, <1>2
<1>7. ASSUME NEW j \in DOMAIN md, j # i
      PROVE  l3'[j] = l3[j] /\ l2'[j] = l2[j]
  BY <1>1, <1>2, <1>3, <1>7
<1>8. l2'[i] = l2[i] \union {b}
  BY <1>1, <1>3
<1>9. NothingHidden'
  <2>1. ASSUME NEW j \in DOMAIN md, Fitting(j), NEW q \in Pages, l3'[j][q] # None
        PROVE  q \div NumL3 \in l2'[j]
    <3>1. CASE j # i
      BY <2>1, <3>1, <1>7 DEF NothingHidden
    <3>2. CASE j = i /\ In(q)
      BY <2>1, <3>2, <1>4, <1>8
    <3>3. CASE j = i /\ ~ In(q)
      BY <2>1, <3>3, <1>6, <1>8 DEF NothingHidden
    <3>. QED  BY <3>1, <3>2, <3>3
  <2>. QED  BY <2>1 DEF NothingHidden, Fitting
<1>10. ASSUME NEW j \in DOMAIN md, NEW q \in Pages
       PROVE  Walk(j, q)' = IF j = i /\ In(q) THEN a + (q - first) ELSE Walk(j, q)
  <2>1. CASE j # i
    BY <2>1, <1>7 DEF Walk
  <2>2. CASE j = i /\ In(q)
    BY <2>2, <1>4, <1>6, <1>8 DEF Walk
  <2>3. CASE j = i /\ ~ In(q)
    <3>1. l3'[i][q] = l3[i][q]
      BY <2>3, <1>6
    <3>2. CASE q \div NumL3 \in l2[i]
      BY <3>1, <3>2, <2>3, <1>8 DEF Walk
    <3>3. CASE q \div NumL3 \notin l2[i]
      BY <3>1, <3>3, <2>3 DEF Walk, NothingHidden
    <3>. QED  BY <3>2, <3>3
  <2>. QED  BY <2>1, <2>2, <2>3
<1>. QED  BY <1>9, <1>10 DEF first

\* What the descriptors say when one more is counted.
LEMMA SaysMore ==
  ASSUME NEW j, NEW q, NEW n \in Nat \ {0}, NEW w,
         \/ Covers(md[j][n], q) /\ w = md[j][n].pa + (q - md[j][n].va)
         \/ ~ Covers(md[j][n], q) /\ Says(j, q, n - 1, w)
  PROVE  Says(j, q, n, w)
<1>1. CASE Covers(md[j][n], q) /\ w = md[j][n].pa + (q - md[j][n].va)
  <2>1. n \in 1 .. n /\ \A x \in n + 1 .. n : ~ Covers(md[j][x], q)
    OBVIOUS
  <2>. QED  BY <1>1, <2>1 DEF Says
<1>2. CASE ~ Covers(md[j][n], q) /\ Says(j, q, n - 1, w)
  <2>1. CASE w = None /\ \A m \in 1 .. n - 1 : ~ Covers(md[j][m], q)
    <3>1. \A m \in 1 .. n : m = n \/ m \in 1 .. n - 1
      OBVIOUS
    <3>2. \A m \in 1 .. n : ~ Covers(md[j][m], q)
      BY <3>1, <2>1, <1>2
    <3>. QED  BY <3>2, <2>1 DEF Says
  <2>2. CASE \E m \in 1 .. n - 1 :
               /\ Covers(md[j][m], q) /\ w = md[j][m].pa + (q - md[j][m].va)
               /\ \A x \in m + 1 .. n - 1 : ~ Covers(md[j][x], q)
    <3>1. PICK m \in 1 .. n - 1 :
               /\ Covers(md[j][m], q) /\ w = md[j][m].pa + (q - md[j][m].va)
               /\ \A x \in m + 1 .. n - 1 : ~ Covers(md[j][x], q)
      BY <2>2
    <3>2. m \in 1 .. n /\ \A x \in m + 1 .. n : x = n \/ x \in m + 1 .. n - 1
      OBVIOUS
    <3>3. \A x \in m + 1 .. n : ~ Covers(md[j][x], q)
      BY <3>1, <3>2, <1>2
    <3>. QED  BY <3>1, <3>2, <3>3 DEF Says
  <2>. QED  BY <1>2, <2>1, <2>2 DEF Says
<1>. QED  BY <1>1, <1>2

LEMMA SaysNothing ==
  ASSUME NEW j, NEW q PROVE Says(j, q, 0, None)
  BY DEF Says

\* What page q is at when the first got pages of the descriptor are mapped.
At(q, w, got) ==
  IF desc.va <= q /\ q < desc.va + got THEN w = desc.pa + (q - desc.va)
                                       ELSE Says(i, q, k - 1, w)

LEMMA Further ==
  ASSUME NEW q \in Nat, NEW w, NEW w2, NEW got \in Nat, NEW n \in Nat,
         NEW first \in Nat, NEW a \in Nat, desc.va \in Nat, desc.pa \in Nat,
         first = desc.va + got, a = desc.pa + got, At(q, w, got),
         w2 = IF first <= q /\ q < first + n THEN a + (q - first) ELSE w
  PROVE  At(q, w2, got + n)
<1>. DEFINE va == desc.va
<1>0. va \in Nat
  OBVIOUS
<1>. HIDE DEF va
<1>1. CASE first <= q /\ q < first + n
  <2>1. va <= q /\ q < va + (got + n) /\ a + (q - first) = desc.pa + (q - va)
    BY <1>0, <1>1 DEF va
  <2>. QED  BY <1>1, <2>1 DEF At, va
<1>2. CASE va <= q /\ q < va + got
  <2>1. va <= q /\ q < va + (got + n) /\ ~ (first <= q)
    BY <1>0, <1>2 DEF va
  <2>. QED  BY <1>2, <2>1 DEF At, va
<1>3. CASE ~ (first <= q /\ q < first + n) /\ ~ (va <= q /\ q < va + got)
  <2>1. ~ (va <= q /\ q < va + (got + n))
    BY <1>0, <1>3 DEF va
  <2>. QED  BY <1>3, <2>1 DEF At, va
<1>. QED  BY <1>1, <1>2, <1>3 DEF va

\* The other lists do not see what is mapped for list i.
LEMMA OthersKept ==
  ASSUME TypeOK, i \in DOMAIN md,
         NEW b, NEW offset, NEW n, NEW a, ttbl3_map(b, offset, n, a), enable_l2_table(b)
  PROVE  \A j \in DOMAIN md : j # i => l3'[j] = l3[j] /\ l2'[j] = l2[j]
  BY DEF TypeOK, ttbl3_map, enable_l2_table

LEMMA OthersStay ==
  ASSUME TypeOK, NothingHidden, Finished, i \in DOMAIN md, md' = md, l1' = l1, i' = i,
         \A j \in DOMAIN md : j # i => l3'[j] = l3[j] /\ l2'[j] = l2[j]
  PROVE  /\ Finished'
         /\ ~ Fitting(i) => NothingHidden' /\ Current'
         /\ \A j \in DOMAIN md, q \in Pages : j # i => Walk(j, q)' = Walk(j, q)
<1>1. ASSUME NEW j \in DOMAIN md, NEW q \in Pages, j # i PROVE Walk(j, q)' = Walk(j, q)
  BY <1>1 DEF Walk
<1>2. Finished'
  <2>1. ASSUME NEW j \in DOMAIN md, Fitting(j), j < i, NEW q \in Pages
        PROVE  Says(j, q, Len(md[j]), Walk(j, q)')
    <3>1. j # i
      BY <2>1 DEF TypeOK
    <3>. QED  BY <1>1, <2>1, <3>1 DEF Finished
  <2>. QED  BY <2>1 DEF Finished, Fitting, Says, Covers
<1>3. ASSUME ~ Fitting(i) PROVE NothingHidden' /\ Current'
  <2>1. Fitting(i)' = Fitting(i)
    BY DEF Fitting
  <2>2. Current'
    BY <1>3, <2>1 DEF Current
  <2>3. ASSUME NEW j \in DOMAIN md, Fitting(j), NEW q \in Pages, l3'[j][q] # None
        PROVE  q \div NumL3 \in l2'[j]
    <3>1. j # i
      BY <1>3, <2>3
    <3>. QED  BY <2>3, <3>1 DEF NothingHidden
  <2>. QED  BY <2>2, <2>3 DEF NothingHidden, Fitting
<1>. QED  BY <1>1, <1>2, <1>3

\* A step on the descriptor in hand: other pages keep their translation.
Only ==
  Mapping /\ Fitting(i) =>
    \A j \in DOMAIN md : \A q \in Pages :
      ~ (j = i /\ Covers(desc, q)) => Walk(j, q)' = Walk(j, q)

LEMMA PlusNat ==
  ASSUME NEW x \in Nat, NEW y \in Nat PROVE x + y \in Nat
  OBVIOUS

LEMMA TimesNat ==
  ASSUME NEW x \in Nat, NEW y \in Nat \ {0} PROVE x * y \in Nat
  OBVIOUS

LEMMA PartFits ==
  ASSUME NEW x \in Nat, NEW y \in Nat, NEW n \in Nat \ {0}, x + y <= n PROVE y <= n
  OBVIOUS

LEMMA Moved ==
  ASSUME NEW x \in Nat, NEW y \in Nat, NEW s \in Nat, NEW z \in Nat, NEW got \in Nat,
         x + s = y + z, got = z - s
  PROVE  x = y + got
  OBVIOUS

LEMMA NotNothing ==
  ASSUME NEW q \in Nat, NEW f \in Nat, NEW n \in Nat, f <= q, q < f + n PROVE n # 0
  OBVIOUS

LEMMA InArea ==
  ASSUME NEW q \in Nat, NEW f \in Nat, NEW n \in Nat, NEW got \in Nat, NEW va \in Nat,
         NEW s \in Nat, f <= q, q < f + n, got + n <= s, f = va + got
  PROVE  va <= q /\ q < va + s
  OBVIOUS

\* One step of the mapping, when got pages are mapped and n more come.
LEMMA Mapped ==
  ASSUME IInv, TInv, i <= Len(md), k <= Len(md[i]), Fitting(i), i \in l1,
         md' = md, l1' = l1, i' = i,
         NEW b \in Blocks, NEW offset \in Nat, NEW n \in Nat, NEW got \in Nat,
         offset + n <= NumL3, got + n <= desc.size,
         n # 0 => b * NumL3 + offset = desc.va + got,
         ttbl3_map(b, offset, n, desc.pa + got), enable_l2_table(b),
         \A q \in Pages : At(q, Walk(i, q), got)
  PROVE  /\ NothingHidden'
         /\ \A q \in Pages : At(q, Walk(i, q)', got + n)
         /\ Only
<1>0. TypeOK /\ NothingHidden
  BY DEF IInv, TInv
<1>1. /\ i \in DOMAIN md /\ desc.va \in Nat /\ desc.pa \in Nat /\ desc.size \in Nat
  BY <1>0, DescType, Sizes DEF Pages
<1>2. PICK first \in Nat : first = b * NumL3 + offset
  BY Sizes DEF Blocks
<1>3. PICK a \in Nat : a = desc.pa + got
  BY <1>1, PlusNat, Zenon
<1>4. /\ NothingHidden'
      /\ \A j \in DOMAIN md, q \in Pages :
           Walk(j, q)' = IF j = i /\ b * NumL3 + offset <= q /\ q < b * NumL3 + offset + n
                           THEN a + (q - (b * NumL3 + offset)) ELSE Walk(j, q)
  <2>1. ttbl3_map(b, offset, n, a)
    BY <1>3
  <2>. QED  BY <1>0, <1>1, <2>1, Written
<1>5. ASSUME NEW j \in DOMAIN md, NEW q \in Pages
      PROVE  Walk(j, q)' = IF j = i /\ first <= q /\ q < first + n
                             THEN a + (q - first) ELSE Walk(j, q)
  BY <1>2, <1>4
<1>6. ASSUME NEW q \in Pages PROVE At(q, Walk(i, q)', got + n)
  <2>0. q \in Nat
    BY Sizes DEF Pages
  <2>1. CASE n = 0
    <3>1. Walk(i, q)' = Walk(i, q) /\ got + n = got
      BY <2>0, <2>1, <1>1, <1>5
    <3>. QED  BY <3>1
  <2>2. CASE n # 0
    <3>1. At(q, Walk(i, q), got) /\ first = desc.va + got
      BY <1>2, <2>2
    <3>2. Walk(i, q)' = IF first <= q /\ q < first + n THEN a + (q - first) ELSE Walk(i, q)
      BY <1>1, <1>5
    <3>. QED  BY <1>1, <1>3, <2>0, <3>1, <3>2, Further
  <2>. QED  BY <2>1, <2>2
<1>7. ASSUME NEW j \in DOMAIN md, NEW q \in Pages, ~ (j = i /\ Covers(desc, q))
      PROVE  Walk(j, q)' = Walk(j, q)
  <2>0. q \in Nat
    BY Sizes DEF Pages
  <2>1. ASSUME j = i, first <= q, q < first + n PROVE FALSE
    <3>1. n # 0 /\ first = desc.va + got
      BY <1>2, <2>0, <2>1, NotNothing, Zenon
    <3>2. desc.va <= q /\ q < desc.va + desc.size
      BY <1>1, <2>0, <2>1, <3>1, InArea, Zenon
    <3>. QED  BY <1>7, <2>1, <3>2 DEF Covers
  <2>. QED  BY <1>5, <2>1
<1>. QED  BY <1>4, <1>6, <1>7 DEF Only

-----------------------------------------------------------------------------
(* Every step keeps it *)

LEMMA InitTInv == Init => TInv
<1>. SUFFICES ASSUME Init PROVE TInv
  OBVIOUS
<1>0. md \in Seq(Seq(Descs)) /\ Len(md) \in Nat /\ DOMAIN md = 1 .. Len(md)
  BY MapsAssumption DEF Init
<1>1. Places /\ Current
  BY DEF Init, Places, Current, InBody
<1>2. NothingHidden
  BY DEF Init, NothingHidden
<1>3. Finished
  BY <1>0 DEF Init, Finished
<1>. QED  BY <1>1, <1>2, <1>3 DEF TInv

LEMMA EmptyListTranslates ==
  ASSUME IInv, TInv, EmptyList
  PROVE  TInv' /\ Only
<1>. USE DEF EmptyList
<1>0. TypeOK /\ Places /\ NothingHidden /\ Finished
  BY DEF IInv, TInv
<1>1. /\ Len(md) \in Nat /\ DOMAIN md = 1 .. Len(md) /\ i \in DOMAIN md
      /\ pc = "list" /\ pc' = pc /\ l2' = l2 /\ l3' = l3 /\ md' = md /\ i' = i + 1
  BY <1>0, MdType DEF TypeOK
<1>2. Only
  BY <1>1 DEF Only, Mapping
<1>3. Places' /\ Current'
  BY <1>1 DEF Places, Current, InBody
<1>4. NothingHidden'
  BY <1>0, <1>1 DEF NothingHidden, Fitting
<1>5. ASSUME NEW j \in DOMAIN md, Fitting(j), j < i + 1, NEW q \in Pages
      PROVE  Says(j, q, Len(md[j]), Walk(j, q)')
  <2>1. CASE j = i
    <3>1. Walk(j, q)' = None
      BY <1>1, <2>1 DEF Walk
    <3>2. Len(md[j]) = 0
      BY <2>1
    <3>. QED  BY <3>1, <3>2, SaysNothing
  <2>2. CASE j # i
    <3>1. Walk(j, q)' = Walk(j, q)
      BY <1>1, <2>2 DEF Walk
    <3>2. j < i
      BY <1>1, <1>5, <2>2
    <3>. QED  BY <1>0, <1>5, <3>1, <3>2 DEF Finished
  <2>. QED  BY <2>1, <2>2
<1>6. Finished'
  BY <1>1, <1>5 DEF Finished, Fitting, Says, Covers
<1>. QED  BY <1>2, <1>3, <1>4, <1>6 DEF TInv

LEMMA StartListTranslates ==
  ASSUME IInv, TInv, StartList
  PROVE  TInv' /\ Only
<1>. USE DEF StartList
<1>0. TypeOK /\ Places /\ NothingHidden /\ Finished
  BY DEF IInv, TInv
<1>1. /\ Len(md) \in Nat /\ DOMAIN md = 1 .. Len(md) /\ i \in DOMAIN md
      /\ pc = "list" /\ pc' = "desc" /\ md' = md /\ i' = i /\ k' = 1 /\ Len(md[i]) \in Nat
  BY <1>0, MdType DEF TypeOK
<1>2. /\ l1' = l1 \union {i} /\ l2'[i] = {}
      /\ \A q \in Pages : l3'[i][q] = None
      /\ \A j \in DOMAIN md : j # i => l2'[j] = l2[j] /\ l3'[j] = l3[j]
  BY <1>0, <1>1 DEF invalidate, TypeOK
<1>3. Only
  BY <1>1 DEF Only, Mapping
<1>4. Places'
  BY <1>1, <1>2 DEF Places, InBody
<1>5. Current'
  <2>1. ASSUME NEW q \in Pages PROVE Says(i, q, 0, Walk(i, q)')
    <3>1. Walk(i, q)' = None
      BY <1>1, <1>2 DEF Walk
    <3>. QED  BY <3>1, SaysNothing
  <2>. QED  BY <1>1, <2>1 DEF Current, InBody, Says, Covers
<1>6. NothingHidden'
  <2>1. ASSUME NEW j \in DOMAIN md, Fitting(j), NEW q \in Pages, l3'[j][q] # None
        PROVE  q \div NumL3 \in l2'[j]
    BY <1>0, <1>2, <2>1 DEF NothingHidden
  <2>. QED  BY <1>1, <2>1 DEF NothingHidden, Fitting
<1>7. ASSUME NEW j \in DOMAIN md, Fitting(j), j < i, NEW q \in Pages
      PROVE  Says(j, q, Len(md[j]), Walk(j, q)')
  <2>1. Walk(j, q)' = Walk(j, q)
    <3>1. j # i
      BY <1>1, <1>7
    <3>. QED  BY <1>1, <1>2, <3>1 DEF Walk
  <2>. QED  BY <1>0, <1>7, <2>1 DEF Finished
<1>8. Finished'
  BY <1>1, <1>7 DEF Finished, Fitting, Says, Covers
<1>. QED  BY <1>3, <1>4, <1>5, <1>6, <1>8 DEF TInv

LEMMA EndListTranslates ==
  ASSUME IInv, TInv, EndList
  PROVE  TInv' /\ Only
<1>. USE DEF EndList
<1>0. TypeOK /\ InHand /\ Places /\ NothingHidden /\ Finished /\ Current
  BY DEF IInv, TInv
<1>1. /\ Len(md) \in Nat /\ DOMAIN md = 1 .. Len(md) /\ i \in DOMAIN md
      /\ pc = "desc" /\ pc' = "list" /\ l1' = l1 /\ l2' = l2 /\ l3' = l3 /\ md' = md
      /\ i' = i + 1 /\ Len(md[i]) \in Nat /\ k \in Nat
  BY <1>0, MdType DEF TypeOK, InHand, tables
<1>2. k - 1 = Len(md[i])
  BY <1>0, <1>1 DEF Places
<1>3. Only
  BY <1>1 DEF Only, Mapping
<1>4. Places' /\ Current'
  BY <1>1 DEF Places, Current, InBody
<1>5. NothingHidden'
  BY <1>0, <1>1 DEF NothingHidden, Fitting
<1>6. ASSUME NEW j \in DOMAIN md, Fitting(j), j < i + 1, NEW q \in Pages
      PROVE  Says(j, q, Len(md[j]), Walk(j, q)')
  <2>0. Walk(j, q)' = Walk(j, q)
    BY <1>1 DEF Walk
  <2>1. CASE j = i
    <3>1. Says(i, q, k - 1, Walk(i, q))
      BY <1>0, <1>1, <1>6, <2>1 DEF Current, InBody
    <3>. QED  BY <1>2, <2>0, <2>1, <3>1
  <2>2. CASE j # i
    <3>1. j < i
      BY <1>1, <1>6, <2>2
    <3>. QED  BY <1>0, <1>6, <2>0, <3>1 DEF Finished
  <2>. QED  BY <2>1, <2>2
<1>7. Finished'
  BY <1>1, <1>6 DEF Finished, Fitting, Says, Covers
<1>. QED  BY <1>3, <1>4, <1>5, <1>7 DEF TInv

LEMMA EndMapTranslates ==
  ASSUME IInv, TInv, EndMap
  PROVE  TInv' /\ Only
<1>1. /\ pc = "list" /\ pc' = "done" /\ i > Len(md)
      /\ md' = md /\ l1' = l1 /\ l2' = l2 /\ l3' = l3 /\ i' = i
  BY DEF EndMap, tables
<1>2. Places' /\ Current'
  BY <1>1 DEF Places, Current, InBody
<1>3. NothingHidden' /\ Finished'
  BY <1>1 DEF TInv, NothingHidden, Finished, Fitting, Says, Covers, Walk
<1>4. Only
  BY <1>1 DEF Only, Mapping
<1>. QED  BY <1>2, <1>3, <1>4 DEF TInv

LEMMA HeadTranslates ==
  ASSUME IInv, TInv, MapHead
  PROVE  TInv' /\ Only
<1>0. /\ TypeOK /\ InHand /\ Places /\ NothingHidden /\ Finished /\ Current
      /\ i <= Len(md) /\ k <= Len(md[i])
  BY DEF IInv, TInv, InHand, MapHead
<1>1. /\ i \in DOMAIN md /\ desc.va \in Nat /\ desc.va \in Pages
      /\ desc.pa \in Nat /\ desc.size \in Nat /\ k \in Nat
  BY <1>0, DescType, Sizes DEF Pages, TypeOK
<1>2. /\ pc = "desc" /\ pc' = "body" /\ md' = md /\ l1' = l1 /\ i' = i /\ k' = k
      /\ desc' = desc /\ i \in l1
  BY <1>0 DEF desc, Places, MapHead
<1>3. /\ desc.va \div NumL3 \in Blocks /\ desc.va % NumL3 \in Nat
      /\ desc.va = (desc.va \div NumL3) * NumL3 + (desc.va % NumL3)
  <2>1. /\ desc.va % NumL3 \in 0 .. NumL3 - 1
        /\ desc.va = (desc.va \div NumL3) * NumL3 + (desc.va % NumL3)
    BY <1>1, BlockOfPage, Zenon
  <2>2. desc.va % NumL3 \in Nat
    BY <2>1, Sizes
  <2>3. desc.va \div NumL3 \in Blocks
    BY <1>1, PageInBlocks
  <2>. QED  BY <2>1, <2>2, <2>3
<1>4. PICK h \in Nat : h = HeadPages /\ h <= desc.size
                      /\ (desc.size <= NumL3 => h = desc.size)
  BY <1>1, Sizes DEF HeadPages
<1>5. size' = desc.size - h /\ size' \in Nat /\ size' <= desc.size
  BY <1>1, <1>4 DEF MapHead
<1>6. PICK b \in Blocks, r \in Nat :
        /\ b = desc.va \div NumL3 /\ r = desc.va % NumL3 /\ desc.va = b * NumL3 + r
        /\ ttbl3_map(b, r, h, desc.pa) /\ enable_l2_table(b)
  BY <1>3, <1>4 DEF MapHead
<1>7. /\ Finished' /\ (~ Fitting(i) => NothingHidden' /\ Current')
      /\ Fitting(i)' = Fitting(i)
  <2>1. \A j \in DOMAIN md : j # i => l3'[j] = l3[j] /\ l2'[j] = l2[j]
    BY <1>0, <1>1, <1>6, OthersKept
  <2>2. Fitting(i)' = Fitting(i)
    BY <1>2 DEF Fitting
  <2>. QED  BY <1>0, <1>1, <1>2, <2>1, <2>2, OthersStay
<1>8. ASSUME Fitting(i)
      PROVE  NothingHidden' /\ Current' /\ Only /\ size' = 0
  <2>1. r + desc.size <= NumL3
    <3>1. desc.va % NumL3 # 0 /\ k \in DOMAIN md[i]
      BY <1>0, DescType DEF MapHead
    <3>2. (desc.va % NumL3) + desc.size <= NumL3
      BY <1>8, <3>1 DEF Fitting, desc
    <3>. QED  BY <1>6, <3>2, Zenon
  <2>2. h = desc.size /\ size' = 0
    <3>1. desc.size <= NumL3
      BY <1>1, <1>6, <2>1, Sizes, PartFits, Zenon
    <3>2. h = desc.size
      BY <1>4, <3>1
    <3>. QED  BY <1>1, <1>5, <3>2
  <2>3. \A q \in Pages : At(q, Walk(i, q), 0)
    <3>1. ASSUME NEW q \in Pages PROVE At(q, Walk(i, q), 0)
      <4>1. ~ (desc.va <= q /\ q < desc.va + 0)
        BY <1>1, Sizes DEF Pages
      <4>2. Says(i, q, k - 1, Walk(i, q))
        BY <1>0, <1>2, <1>8 DEF Current, InBody
      <4>. QED  BY <4>1, <4>2 DEF At
    <3>. QED  BY <3>1
  <2>4. /\ NothingHidden' /\ Only
        /\ \A q \in Pages : At(q, Walk(i, q)', 0 + h)
    <3>1. desc.pa + 0 = desc.pa /\ desc.va + 0 = desc.va /\ 0 + h <= desc.size /\ r + h <= NumL3
      BY <1>1, <2>1, <2>2
    <3>2. h # 0 => b * NumL3 + r = desc.va + 0
      BY <1>6, <3>1
    <3>3. ttbl3_map(b, r, h, desc.pa + 0)
      BY <1>6, <3>1
    <3>4. 0 \in Nat
      OBVIOUS
    <3>. QED  BY <1>0, <1>2, <1>6, <1>8, <2>3, <3>1, <3>2, <3>3, <3>4, Mapped
  <2>5. Current'
    <3>1. 0 + h = desc.size - size'
      BY <1>1, <2>2
    <3>2. \A q \in Pages : IF Filled(q)' THEN Walk(i, q)' = desc.pa + (q - desc.va)
                           ELSE Says(i, q, k - 1, Walk(i, q)')
      BY <1>2, <2>4, <3>1 DEF At, Filled
    <3>. QED  BY <1>2, <3>2 DEF Current, InBody, Says, Covers
  <2>. QED  BY <2>2, <2>4, <2>5
<1>9. Places'
  BY <1>2, <1>5, <1>7, <1>8 DEF Places, InBody
<1>10. Only
  BY <1>8 DEF Only
<1>. QED  BY <1>7, <1>8, <1>9, <1>10 DEF TInv

LEMMA NoHeadTranslates ==
  ASSUME IInv, TInv, NoHead
  PROVE  TInv' /\ Only
<1>. USE DEF NoHead
<1>0. /\ TypeOK /\ InHand /\ Places /\ NothingHidden /\ Finished /\ Current
      /\ i <= Len(md) /\ k <= Len(md[i])
  BY DEF IInv, TInv, InHand
<1>1. /\ i \in DOMAIN md /\ desc.va \in Nat /\ desc.pa \in Nat /\ desc.size \in Nat
  BY <1>0, DescType, Sizes DEF Pages
<1>2. /\ pc = "desc" /\ pc' = "body" /\ md' = md /\ l1' = l1 /\ l2' = l2 /\ l3' = l3
      /\ i' = i /\ k' = k /\ desc' = desc /\ size' = desc.size /\ i \in l1
  BY <1>0 DEF desc, Places, tables
<1>3. index' * NumL3 = desc.va + (desc.size - size')
  <2>1. desc.va = (desc.va \div NumL3) * NumL3 + 0
    BY <1>1, BlockOfPage, Zenon
  <2>2. PICK x \in Nat : x = (desc.va \div NumL3) * NumL3
    BY <1>1, BlockOfPage, Sizes, TimesNat, Zenon
  <2>3. x = desc.va + (desc.size - desc.size)
    BY <1>1, <2>1, <2>2
  <2>. QED  BY <1>2, <2>2, <2>3
<1>4. Places'
  BY <1>1, <1>2, <1>3 DEF Places, InBody
<1>5. NothingHidden' /\ Finished'
  BY <1>0, <1>2 DEF NothingHidden, Finished, Fitting, Says, Covers, Walk
<1>6. Current'
  <2>1. ASSUME Fitting(i), NEW q \in Pages
        PROVE  ~ Filled(q)' /\ Says(i, q, k - 1, Walk(i, q)')
    <3>1. ~ (desc.va <= q /\ q < desc.va + (desc.size - desc.size))
      BY <1>1, Sizes DEF Pages
    <3>2. Walk(i, q)' = Walk(i, q)
      BY <1>2 DEF Walk
    <3>. QED  BY <1>0, <1>2, <2>1, <3>1, <3>2 DEF Filled, Current, InBody
  <2>. QED  BY <1>2, <2>1 DEF Current, InBody, Says, Covers, Fitting
<1>7. Only
  BY <1>2 DEF Only, Walk
<1>. QED  BY <1>4, <1>5, <1>6, <1>7 DEF TInv

LEMMA BlockTranslates ==
  ASSUME IInv, TInv, MapBlock
  PROVE  TInv' /\ Only
<1>0. /\ TypeOK /\ InHand /\ Cursor /\ Places /\ NothingHidden /\ Finished /\ Current
      /\ i <= Len(md) /\ k <= Len(md[i])
  BY DEF IInv, TInv, InHand, Cursor, MapBlock
<1>1. /\ i \in DOMAIN md /\ desc.va \in Nat /\ desc.pa \in Nat /\ desc.size \in Nat
      /\ index \in Nat /\ size \in Nat /\ pa \in Nat
  BY <1>0, DescType, Sizes DEF Pages, TypeOK
<1>2. /\ pc = "body" /\ pc' = pc /\ md' = md /\ l1' = l1 /\ i' = i /\ k' = k
      /\ desc' = desc /\ i \in l1 /\ size >= NumL3 /\ size' = size - NumL3
      /\ index' = index + 1 /\ size <= desc.size
      /\ pa + size = desc.pa + desc.size
      /\ index * NumL3 + size <= NumL2 * NumL3
  BY <1>0 DEF desc, Places, Cursor, InBody, MapBlock
<1>3. index \in Blocks
  <2>1. size \in Nat \ {0}
    BY <1>1, <1>2, Sizes
  <2>. QED  BY <1>1, <1>2, <2>1, RoomInBlocks, Zenon
<1>4. ttbl3_map(index, 0, NumL3, pa) /\ enable_l2_table(index)
  BY DEF MapBlock
<1>5. PICK got \in Nat : got = desc.size - size
  BY <1>1, <1>2
<1>6. pa = desc.pa + got /\ got + NumL3 <= desc.size /\ got + NumL3 = desc.size - size'
      /\ size' \in Nat /\ size' <= desc.size /\ 0 + NumL3 <= NumL3
  <2>1. size' \in Nat /\ size' <= desc.size
    BY <1>1, <1>2, Sizes
  <2>2. pa = desc.pa + got
    BY <1>1, <1>2, <1>5
  <2>3. got + NumL3 <= desc.size /\ got + NumL3 = desc.size - size'
    BY <1>1, <1>2, <1>5, Sizes
  <2>. QED  BY <2>1, <2>2, <2>3, Sizes
<1>7. /\ Finished' /\ (~ Fitting(i) => NothingHidden' /\ Current')
      /\ Fitting(i)' = Fitting(i)
  <2>1. \A j \in DOMAIN md : j # i => l3'[j] = l3[j] /\ l2'[j] = l2[j]
    BY <1>0, <1>1, <1>4, OthersKept
  <2>2. Fitting(i)' = Fitting(i)
    BY <1>2 DEF Fitting
  <2>. QED  BY <1>0, <1>1, <1>2, <2>1, <2>2, OthersStay
<1>8. ASSUME Fitting(i)
      PROVE  /\ NothingHidden' /\ Current' /\ Only
             /\ index' * NumL3 = desc.va + (desc.size - size')
  <2>0. PICK x \in Nat : x = index * NumL3
    BY <1>1, Sizes, TimesNat, Zenon
  <2>1. x = desc.va + got
    <3>1. size > 0
      BY <1>1, <1>2, Sizes
    <3>. QED  BY <1>0, <1>2, <1>5, <1>8, <2>0, <3>1 DEF Places, InBody
  <2>2. index' * NumL3 = desc.va + (desc.size - size')
    <3>1. index' * NumL3 = x + NumL3
      BY <1>1, <1>2, <2>0, NextBlock, Sizes
    <3>2. x + NumL3 = desc.va + (got + NumL3)
      BY <1>1, <2>1, Sizes
    <3>. QED  BY <1>6, <3>1, <3>2, Zenon
  <2>3. \A q \in Pages : At(q, Walk(i, q), got)
    BY <1>0, <1>2, <1>5, <1>8 DEF Current, InBody, At, Filled
  <2>4. /\ NothingHidden' /\ Only
        /\ \A q \in Pages : At(q, Walk(i, q)', got + NumL3)
    <3>1. NumL3 \in Nat /\ 0 \in Nat
      BY Sizes
    <3>2. NumL3 # 0 => index * NumL3 + 0 = desc.va + got
      BY <2>0, <2>1
    <3>3. ttbl3_map(index, 0, NumL3, desc.pa + got)
      BY <1>4, <1>6
    <3>. QED  BY <1>0, <1>2, <1>3, <1>4, <1>6, <1>8, <2>3, <3>1, <3>2, <3>3, Mapped
  <2>5. Current'
    <3>1. \A q \in Pages : IF Filled(q)' THEN Walk(i, q)' = desc.pa + (q - desc.va)
                           ELSE Says(i, q, k - 1, Walk(i, q)')
      BY <1>2, <1>6, <2>4 DEF At, Filled
    <3>. QED  BY <1>2, <3>1 DEF Current, InBody, Says, Covers
  <2>. QED  BY <2>2, <2>4, <2>5
<1>9. Places'
  BY <1>2, <1>6, <1>7, <1>8 DEF Places, InBody
<1>10. Only
  BY <1>8 DEF Only
<1>. QED  BY <1>7, <1>8, <1>9, <1>10 DEF TInv

\* A descriptor that is mapped to its end says what its pages are at.
LEMMA AllMapped ==
  ASSUME NEW q \in Nat, NEW w, k \in Nat \ {0}, desc.size \in Nat, At(q, w, desc.size)
  PROVE  Says(i, q, k, w)
<1>1. CASE Covers(desc, q)
  <2>1. w = desc.pa + (q - desc.va)
    BY <1>1 DEF At, Covers
  <2>. QED  BY <1>1, <2>1, SaysMore DEF desc
<1>2. CASE ~ Covers(desc, q)
  <2>1. Says(i, q, k - 1, w)
    BY <1>2 DEF At, Covers
  <2>. QED  BY <1>2, <2>1, SaysMore DEF desc
<1>. QED  BY <1>1, <1>2

LEMMA TailTranslates ==
  ASSUME IInv, TInv, MapTail
  PROVE  TInv' /\ Only
<1>0. /\ TypeOK /\ InHand /\ Cursor /\ Places /\ NothingHidden /\ Finished /\ Current
      /\ i <= Len(md) /\ k <= Len(md[i])
  BY DEF IInv, TInv, InHand, Cursor, MapTail
<1>1. /\ i \in DOMAIN md /\ desc.va \in Nat /\ desc.pa \in Nat /\ desc.size \in Nat
      /\ index \in Nat /\ size \in Nat /\ pa \in Nat /\ k \in Nat \ {0} /\ Len(md[i]) \in Nat
  BY <1>0, DescType, MdType, Sizes DEF Pages, TypeOK
<1>2. /\ pc = "tail" /\ pc' = "desc" /\ md' = md /\ l1' = l1 /\ i' = i /\ k' = k + 1
      /\ i \in l1 /\ size > 0 /\ size < NumL3 /\ size <= desc.size
      /\ pa + size = desc.pa + desc.size
      /\ index * NumL3 + size <= NumL2 * NumL3
  BY <1>0 DEF Places, Cursor, InBody, MapTail, NextDesc
<1>3. index \in Blocks
  <2>1. size \in Nat \ {0}
    BY <1>1, <1>2
  <2>. QED  BY <1>1, <1>2, <2>1, RoomInBlocks, Zenon
<1>4. ttbl3_map(index, 0, size, pa) /\ enable_l2_table(index)
  BY DEF MapTail
<1>5. PICK got \in Nat : got = desc.size - size
  BY <1>1, <1>2
<1>6. pa = desc.pa + got /\ got + size = desc.size /\ got + size <= desc.size
      /\ 0 + size <= NumL3
  <2>1. pa = desc.pa + got
    <3>1. pa + size = desc.pa + desc.size
      BY <1>2
    <3>. QED  BY <1>1, <1>5, <3>1, Moved
  <2>2. got + size = desc.size /\ got + size <= desc.size
    BY <1>1, <1>2, <1>5
  <2>3. 0 + size <= NumL3
    BY <1>1, <1>2, Sizes
  <2>. QED  BY <2>1, <2>2, <2>3
<1>7. /\ Finished' /\ (~ Fitting(i) => NothingHidden' /\ Current')
      /\ Fitting(i)' = Fitting(i)
  <2>1. \A j \in DOMAIN md : j # i => l3'[j] = l3[j] /\ l2'[j] = l2[j]
    BY <1>0, <1>1, <1>4, OthersKept
  <2>2. Fitting(i)' = Fitting(i)
    BY <1>2 DEF Fitting
  <2>. QED  BY <1>0, <1>1, <1>2, <2>1, <2>2, OthersStay
<1>8. ASSUME Fitting(i)
      PROVE  NothingHidden' /\ Current' /\ Only
  <2>0. PICK x \in Nat : x = index * NumL3
    BY <1>1, Sizes, TimesNat, Zenon
  <2>1. x = desc.va + got
    BY <1>0, <1>2, <1>5, <1>8, <2>0 DEF Places, InBody
  <2>2. \A q \in Pages : At(q, Walk(i, q), got)
    BY <1>0, <1>2, <1>5, <1>8 DEF Current, InBody, At, Filled
  <2>3. /\ NothingHidden' /\ Only
        /\ \A q \in Pages : At(q, Walk(i, q)', got + size)
    <3>1. size \in Nat /\ 0 \in Nat
      BY <1>1
    <3>2. size # 0 => index * NumL3 + 0 = desc.va + got
      BY <2>0, <2>1
    <3>3. ttbl3_map(index, 0, size, desc.pa + got)
      BY <1>4, <1>6
    <3>. QED  BY <1>0, <1>2, <1>3, <1>4, <1>6, <1>8, <2>2, <3>1, <3>2, <3>3, Mapped
  <2>4. ASSUME NEW q \in Pages PROVE Says(i, q, k, Walk(i, q)')
    <3>1. q \in Nat
      BY Sizes DEF Pages
    <3>2. At(q, Walk(i, q)', desc.size)
      BY <1>6, <2>3
    <3>. QED  BY <1>1, <3>1, <3>2, AllMapped
  <2>5. k' - 1 = k
    BY <1>1, <1>2
  <2>6. Current'
    BY <1>2, <2>4, <2>5 DEF Current, InBody, Says, Covers
  <2>. QED  BY <2>3, <2>6
<1>9. Places'
  BY <1>0, <1>1, <1>2 DEF Places, InBody
<1>10. Only
  BY <1>8 DEF Only
<1>. QED  BY <1>7, <1>8, <1>9, <1>10 DEF TInv

LEMMA NoTailTranslates ==
  ASSUME IInv, TInv, NoTail
  PROVE  TInv' /\ Only
<1>0. /\ TypeOK /\ InHand /\ Cursor /\ Places /\ NothingHidden /\ Finished /\ Current
      /\ i <= Len(md) /\ k <= Len(md[i])
  BY DEF IInv, TInv, InHand, Cursor, NoTail
<1>1. /\ i \in DOMAIN md /\ desc.va \in Nat /\ desc.pa \in Nat /\ desc.size \in Nat
      /\ k \in Nat \ {0} /\ Len(md[i]) \in Nat
  BY <1>0, DescType, MdType, Sizes DEF Pages, TypeOK
<1>2. /\ pc = "tail" /\ pc' = "desc" /\ md' = md /\ l1' = l1 /\ l2' = l2 /\ l3' = l3
      /\ i' = i /\ k' = k + 1 /\ i \in l1 /\ size = 0
  BY <1>0 DEF Places, NoTail, NextDesc, tables
<1>3. Places'
  BY <1>0, <1>1, <1>2 DEF Places, InBody
<1>4. NothingHidden' /\ Finished'
  BY <1>0, <1>2 DEF NothingHidden, Finished, Fitting, Says, Covers, Walk
<1>5. Current'
  <2>1. ASSUME Fitting(i), NEW q \in Pages PROVE Says(i, q, k, Walk(i, q)')
    <3>0. desc.size - size = desc.size
      BY <1>1, <1>2
    <3>1. Walk(i, q)' = Walk(i, q)
      BY <1>2 DEF Walk
    <3>2. At(q, Walk(i, q), desc.size)
      BY <1>0, <1>2, <2>1, <3>0 DEF Current, InBody, At, Filled
    <3>3. q \in Nat
      BY Sizes DEF Pages
    <3>. QED  BY <1>1, <3>1, <3>2, <3>3, AllMapped
  <2>2. k' - 1 = k
    BY <1>1, <1>2
  <2>. QED  BY <1>2, <2>1, <2>2 DEF Current, InBody, Says, Covers, Fitting
<1>6. Only
  BY <1>2 DEF Only, Walk
<1>. QED  BY <1>3, <1>4, <1>5, <1>6 DEF TInv

LEMMA OtherTranslates ==
  ASSUME IInv, TInv, EndBody \/ UNCHANGED vars
  PROVE  TInv' /\ Only
<1>1. /\ md' = md /\ l1' = l1 /\ l2' = l2 /\ l3' = l3 /\ i' = i /\ k' = k
      /\ index' = index /\ size' = size
      /\ pc' = pc \/ (pc = "body" /\ pc' = "tail" /\ size < NumL3)
  BY DEF EndBody, vars, tables, locals
<1>2. Places'
  BY <1>1 DEF TInv, Places, InBody, Fitting, desc
<1>3. NothingHidden' /\ Finished'
  BY <1>1 DEF TInv, NothingHidden, Finished, Fitting, Says, Covers, Walk
<1>4. Current'
  BY <1>1 DEF TInv, Current, InBody, Filled, Fitting, Says, Covers, Walk, desc
<1>5. Only
  BY <1>1 DEF Only, Walk
<1>. QED  BY <1>2, <1>3, <1>4, <1>5 DEF TInv

LEMMA StepTranslates ==
  ASSUME IInv, TInv, [Next]_vars PROVE TInv' /\ Only
  BY EmptyListTranslates, StartListTranslates, EndListTranslates, EndMapTranslates,
     HeadTranslates, NoHeadTranslates, BlockTranslates, TailTranslates, NoTailTranslates,
     OtherTranslates
     DEF Next, Step, Built

LEMMA TInvariance == Spec => [](IInv /\ TInv)
<1>1. ASSUME IInv, TInv, [Next]_vars PROVE TInv'
  BY <1>1, StepTranslates
<1>. QED  BY Invariance, InitTInv, <1>1, PTL DEF Spec

(***************************************************************************)
(* While guest_memory_ttbl2_map works on a descriptor of a list whose      *)
(* areas fit the blocks, no other page changes its translation, and no     *)
(* other list's.                                                           *)
(***************************************************************************)
THEOREM PagesApart == Spec => OnlyItsPages
<1>1. ASSUME IInv, TInv, [Next]_vars
      PROVE  [Mapping /\ Fitting(i) =>
                \A j \in DOMAIN md : \A q \in Pages :
                  ~ (j = i /\ Covers(desc, q)) => Walk(j, q)' = Walk(j, q)]_vars
  BY <1>1, StepTranslates DEF Only
<1>. QED  BY TInvariance, <1>1, PTL DEF Spec, OnlyItsPages

(***************************************************************************)
(* The table that guest_memory_init_ttbl leaves translates every page as   *)
(* the last descriptor that covers it says and no other page, for every    *)
(* list whose areas fit the blocks, of any number of descriptors.          *)
(***************************************************************************)
THEOREM MapTranslated == Spec => []Translated
<1>1. ASSUME IInv, TInv PROVE Translated
  <2>1. SUFFICES ASSUME pc = "done", NEW j \in DOMAIN md, Fitting(j), NEW q \in Pages
                 PROVE  /\ \A n \in DOMAIN md[j] :
                             Last(j, q, n) => Walk(j, q) = md[j][n].pa + (q - md[j][n].va)
                        /\ (\A n \in DOMAIN md[j] : ~ Covers(md[j][n], q)) => Walk(j, q) = None
    BY DEF Translated
  <2>2. /\ DOMAIN md[j] = 1 .. Len(md[j]) /\ j < i
    <3>1. TypeOK /\ i > Len(md)
      BY <1>1, <2>1 DEF IInv, TInv, Places
    <3>. QED  BY <2>1, <3>1, MdType DEF TypeOK
  <2>3. Says(j, q, Len(md[j]), Walk(j, q))
    BY <1>1, <2>1, <2>2 DEF TInv, Finished
  <2>4. ASSUME NEW n \in DOMAIN md[j], Last(j, q, n)
        PROVE  Walk(j, q) = md[j][n].pa + (q - md[j][n].va)
    <3>1. PICK m \in 1 .. Len(md[j]) :
            /\ Covers(md[j][m], q) /\ Walk(j, q) = md[j][m].pa + (q - md[j][m].va)
            /\ \A x \in m + 1 .. Len(md[j]) : ~ Covers(md[j][x], q)
      BY <2>2, <2>3, <2>4 DEF Says, Last
    <3>2. ~ (m > n) /\ ~ (n > m)
      BY <1>1, <2>1, <2>2, <2>4, <3>1, MdType DEF Last, IInv
    <3>3. m = n
      BY <2>2, <3>1, <3>2
    <3>. QED  BY <3>1, <3>3
  <2>5. ASSUME \A n \in DOMAIN md[j] : ~ Covers(md[j][n], q) PROVE Walk(j, q) = None
    BY <2>2, <2>3, <2>5 DEF Says
  <2>. QED  BY <2>4, <2>5
<1>. QED  BY TInvariance, <1>1, PTL
=============================================================================
