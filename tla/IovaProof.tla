----------------------------- MODULE IovaProof -----------------------------
(***************************************************************************)
(* Proof that the allocator of Iova never hands out an address twice, for  *)
(* domains, pages and requests of any size.  NoOverlap is inductive once   *)
(* every block and range is known to be not empty (Shape).  The second     *)
(* part proves that the list implements the allocator of IovaPages.        *)
(***************************************************************************)
EXTENDS Iova, TLAPS

Block == [iova : Nat, sz : Nat \ {0}]
Range == [iova : Nat, sz : Nat \ {0}, req : Nat \ {0}]

InOrder(l) == \A i, j \in DOMAIN l : i < j => End(l[i]) <= l[j].iova
List(l) == l \in Seq(Block) /\ InOrder(l)

Shape ==
    /\ free_list \in Seq(Block)
    /\ live \subseteq Range
    /\ \A u \in live : u.sz = ALIGN_UP(u.req, Page)
    /\ ~up => live = {}

IovaInv == Shape /\ NoOverlap

-----------------------------------------------------------------------------
(* ALIGN_UP of a positive size is positive.                                *)
LEMMA AlignUp ==
    ASSUME NEW x \in Nat \ {0}, NEW a \in Nat \ {0}
    PROVE  ALIGN_UP(x, a) \in Nat \ {0}
<1> DEFINE y == x + a - 1
<1>1. y \in Nat /\ y % a \in 0..a - 1
  OBVIOUS
<1>2. ALIGN_UP(x, a) = y - (y % a)
  BY Zenon DEF ALIGN_UP, ALIGN_DOWN
<1> HIDE DEF y
<1>3. y >= a
  BY DEF y
<1> QED
  BY <1>1, <1>2, <1>3

(* Dropping a block leaves a list of blocks of the old one, in order.      *)
LEMMA WithoutList ==
    ASSUME NEW l, List(l), NEW i \in DOMAIN l
    PROVE  /\ List(Without(l, i))
           /\ \A j \in DOMAIN Without(l, i) : \E k \in DOMAIN l : Without(l, i)[j] = l[k]
<1>1. /\ Len(l) \in Nat /\ DOMAIN l = 1..Len(l) /\ i \in 1..Len(l)
      /\ \A k \in 1..Len(l) : l[k] \in Block
  BY DEF List
<1>2. Without(l, i) \in Seq(Block) /\ DOMAIN Without(l, i) = 1..Len(l) - 1
  BY <1>1 DEF Without
<1>3. \A j \in 1..Len(l) - 1 : Without(l, i)[j] = IF j < i THEN l[j] ELSE l[j + 1]
  BY <1>1, Zenon DEF Without
<1>4. InOrder(Without(l, i))
  <2>1. SUFFICES ASSUME NEW j \in 1..Len(l) - 1, NEW k \in 1..Len(l) - 1, j < k
                 PROVE  End(Without(l, i)[j]) <= Without(l, i)[k].iova
    BY <1>2, Zenon DEF InOrder
  <2>2. CASE k < i
    BY <2>1, <2>2, <1>1, <1>3 DEF List, InOrder
  <2>3. CASE j < i /\ i <= k
    BY <2>1, <2>3, <1>1, <1>3 DEF List, InOrder
  <2>4. CASE i <= j
    BY <2>1, <2>4, <1>1, <1>3 DEF List, InOrder
  <2> QED
    BY <1>1, <2>1, <2>2, <2>3, <2>4
<1> QED
  BY <1>1, <1>2, <1>3, <1>4, SMTT(30) DEF List

(* Shrinking or moving a block within its bounds keeps the order.          *)
LEMMA WithList ==
    ASSUME NEW l, List(l), NEW i \in DOMAIN l, NEW b \in Block,
           \A j \in DOMAIN l : j < i => End(l[j]) <= b.iova,
           \A j \in DOMAIN l : i < j => End(b) <= l[j].iova
    PROVE  /\ List(With(l, i, b))
           /\ DOMAIN With(l, i, b) = DOMAIN l
           /\ \A j \in DOMAIN l : With(l, i, b)[j] = IF j = i THEN b ELSE l[j]
<1>1. /\ Len(l) \in Nat /\ DOMAIN l = 1..Len(l) /\ i \in 1..Len(l)
      /\ \A k \in 1..Len(l) : l[k] \in Block
  BY DEF List
<1>2. /\ With(l, i, b) \in Seq(Block) /\ DOMAIN With(l, i, b) = DOMAIN l
      /\ \A j \in DOMAIN l : With(l, i, b)[j] = IF j = i THEN b ELSE l[j]
  BY <1>1 DEF With, List
<1>3. InOrder(With(l, i, b))
  BY <1>1, <1>2 DEF InOrder, List
<1> QED
  BY <1>2, <1>3, Zenon DEF List

(* A block that lies between its neighbours can be inserted.               *)
LEMMA BeforeList ==
    ASSUME NEW l, List(l), NEW i \in 1..Len(l) + 1, NEW b \in Block,
           \A j \in DOMAIN l : j < i => End(l[j]) <= b.iova,
           \A j \in DOMAIN l : i <= j => End(b) <= l[j].iova
    PROVE  /\ List(Before(l, i, b))
           /\ \A j \in DOMAIN Before(l, i, b) :
                 Before(l, i, b)[j] = b \/ \E k \in DOMAIN l : Before(l, i, b)[j] = l[k]
<1>1. /\ Len(l) \in Nat /\ DOMAIN l = 1..Len(l)
      /\ \A k \in 1..Len(l) : l[k] \in Block
  BY DEF List
<1>2. Before(l, i, b) \in Seq(Block) /\ DOMAIN Before(l, i, b) = 1..Len(l) + 1
  BY <1>1 DEF Before
<1>3. \A j \in 1..Len(l) + 1 :
         Before(l, i, b)[j] = IF j < i THEN l[j] ELSE IF j = i THEN b ELSE l[j - 1]
  BY <1>1, Zenon DEF Before
<1>4. InOrder(Before(l, i, b))
  <2>1. SUFFICES ASSUME NEW j \in 1..Len(l) + 1, NEW k \in 1..Len(l) + 1, j < k
                 PROVE  End(Before(l, i, b)[j]) <= Before(l, i, b)[k].iova
    BY <1>2, Zenon DEF InOrder
  <2>2. CASE k < i
    BY <2>1, <2>2, <1>1, <1>3 DEF List, InOrder
  <2>3. CASE k = i
    BY <2>1, <2>3, <1>1, <1>3
  <2>4. CASE k > i /\ j = i
    BY <2>1, <2>4, <1>1, <1>3
  <2>5. CASE k > i /\ j < i
    BY <2>1, <2>5, <1>1, <1>3 DEF List, InOrder
  <2>6. CASE k > i /\ j > i
    BY <2>1, <2>6, <1>1, <1>3 DEF List, InOrder
  <2> QED
    BY <1>1, <2>1, <2>2, <2>3, <2>4, <2>5, <2>6
<1>5. \A j \in DOMAIN Before(l, i, b) :
         Before(l, i, b)[j] = b \/ \E k \in DOMAIN l : Before(l, i, b)[j] = l[k]
  BY <1>1, <1>2, <1>3
<1> QED
  BY <1>2, <1>4, <1>5, Zenon DEF List

-----------------------------------------------------------------------------
(* Range u overlaps no block of list l.                                    *)
Clear(l, u) == \A i \in DOMAIN l : Apart(u, l[i])

(* iova_alloc: the range is the beginning of the first block that fits, so *)
(* it was free, and the rest of the block stays free.                      *)
LEMMA AllocStep ==
    ASSUME PageAssumption, IovaInv, NEW req \in Sizes, iova_alloc(req)
    PROVE  IovaInv'
<1> DEFINE sz == ALIGN_UP(req, Page)
           Fits(b) == b.sz >= sz
<1>1. PICK i \in DOMAIN free_list :
         /\ IsFirst(free_list, Fits, i)
         /\ free_list' = IF free_list[i].sz = sz THEN Without(free_list, i)
                         ELSE With(free_list, i, Rest(free_list[i], sz))
         /\ live' = live \cup {[iova |-> free_list[i].iova, sz |-> sz, req |-> req]}
  BY ZenonT(30) DEF iova_alloc
<1>2. sz \in Nat \ {0} /\ req \in Nat \ {0}
  BY AlignUp, Zenon DEF PageAssumption
<1>3. List(free_list)
  BY Zenon DEF IovaInv, Shape, NoOverlap, List, InOrder
<1>4. free_list[i] \in Block /\ free_list[i].sz >= sz
  BY <1>1, <1>3 DEF IsFirst, List
<1> DEFINE b == free_list[i]
           r == [iova |-> b.iova, sz |-> sz, req |-> req]
<1>5. /\ r \in Range /\ r.iova = b.iova /\ r.sz = sz
      /\ r.sz = ALIGN_UP(r.req, Page) /\ live' = live \cup {r}
  BY <1>1, <1>2, <1>4, Zenon DEF Range, Block
<1> HIDE DEF r, sz
<1>a. /\ DOMAIN free_list \subseteq Int /\ \A j \in DOMAIN free_list : free_list[j] \in Block
  BY <1>3 DEF List
<1>6. ASSUME NEW j \in DOMAIN free_list, j # i PROVE Apart(r, free_list[j])
  <2>1. j < i => End(free_list[j]) <= b.iova
    BY <1>3, Zenon DEF List, InOrder
  <2>2. i < j => End(b) <= free_list[j].iova
    BY <1>3, Zenon DEF List, InOrder
  <2> QED
    BY <2>1, <2>2, <1>6, <1>a, <1>4, <1>5, <1>2 DEF Apart, End, Block
<1>7. ASSUME NEW u \in live PROVE Apart(r, u)
  <2>1. Apart(u, b) /\ u \in Range
    BY Zenon DEF IovaInv, Shape, NoOverlap
  <2> QED
    BY <2>1, <1>2, <1>4, <1>5 DEF Apart, End, Block, Range
<1>8. List(free_list') /\ Clear(free_list', r) /\ \A u \in live : Clear(free_list', u)
  <2>1. CASE b.sz = sz
    <3>1. free_list' = Without(free_list, i)
      BY <1>1, <2>1, Zenon
    <3>2. List(free_list')
      BY <3>1, <1>3, WithoutList, Zenon
    <3>3. \A j \in DOMAIN free_list' : \E k \in DOMAIN free_list : k # i /\ free_list'[j] = free_list[k]
      <4>1. Len(free_list) \in Nat /\ DOMAIN free_list = 1..Len(free_list) /\ i \in 1..Len(free_list)
        BY <1>3 DEF List
      <4> QED
        BY <3>1, <4>1, SMTT(30) DEF Without
    <3>4. Clear(free_list', r)
      BY <3>3, <1>6, Zenon DEF Clear
    <3>5. ASSUME NEW u \in live PROVE Clear(free_list', u)
      BY <3>3, Zenon DEF IovaInv, NoOverlap, Clear
    <3> QED
      BY <3>2, <3>4, <3>5, Zenon
  <2>2. CASE b.sz # sz
    <3> DEFINE c == Rest(b, sz)
    <3>1. free_list' = With(free_list, i, c)
      BY <1>1, <2>2, Zenon
    <3>2. c \in Block /\ c.iova = b.iova + sz /\ c.sz = b.sz - sz
      BY <2>2, <1>2, <1>4 DEF Rest, Block
    <3>3. /\ \A j \in DOMAIN free_list : j < i => End(free_list[j]) <= c.iova
          /\ \A j \in DOMAIN free_list : i < j => End(c) <= free_list[j].iova
      <4>1. \A j \in DOMAIN free_list : j < i => End(free_list[j]) <= b.iova
        BY <1>3, Zenon DEF List, InOrder
      <4>2. \A j \in DOMAIN free_list : i < j => End(b) <= free_list[j].iova
        BY <1>3, Zenon DEF List, InOrder
      <4> QED
        BY <4>1, <4>2, <3>2, <1>2, <1>4, <1>a DEF End, Block
    <3> HIDE DEF c
    <3>4. /\ List(free_list') /\ DOMAIN free_list' = DOMAIN free_list
          /\ \A j \in DOMAIN free_list : free_list'[j] = IF j = i THEN c ELSE free_list[j]
      BY <3>1, <3>2, <3>3, <1>3, WithList
    <3>5. Apart(r, c)
      BY <3>2, <1>4, <1>5, <1>2 DEF Apart, End, Block
    <3>6. Clear(free_list', r)
      BY <3>4, <3>5, <1>6, Zenon DEF Clear
    <3>7. ASSUME NEW u \in live PROVE Clear(free_list', u)
      <4>1. Apart(u, c)
        <5>1. Apart(u, b) /\ u \in Range
          BY Zenon DEF IovaInv, Shape, NoOverlap
        <5> QED
          BY <5>1, <3>2, <1>2, <1>4 DEF Apart, End, Block, Range
      <4> QED
        BY <4>1, <3>4, Zenon DEF IovaInv, NoOverlap, Clear
    <3> QED
      BY <3>4, <3>6, <3>7, Zenon
  <2> QED
    BY <2>1, <2>2, Zenon
<1>9. Shape'
  BY <1>5, <1>8, Zenon DEF IovaInv, Shape, List, iova_alloc
<1>10. \A u, v \in live' : u # v => Apart(u, v)
  BY <1>5, <1>7, Zenon DEF IovaInv, NoOverlap, Apart
<1>11. \A u \in live', j \in DOMAIN free_list' : Apart(u, free_list'[j])
  BY <1>5, <1>8, Zenon DEF Clear
<1> QED
  BY <1>8, <1>9, <1>10, <1>11, Zenon DEF IovaInv, NoOverlap, List, InOrder, Apart, End

(* Insert puts a range that overlaps no block where it belongs, and the    *)
(* new list covers nothing but the old blocks and the range.               *)
LEMMA InsertList ==
    ASSUME NEW l, List(l), NEW r \in Block, Clear(l, r), NEW i \in DOMAIN l,
           End(r) <= l[i].iova, \A j \in 1..i - 1 : ~(End(r) <= l[j].iova)
    PROVE  /\ List(Insert(l, i, r))
           /\ \A u \in Range : Clear(l, u) /\ Apart(u, r) => Clear(Insert(l, i, r), u)
<1>1. /\ Len(l) \in Nat /\ DOMAIN l = 1..Len(l) /\ i \in 1..Len(l)
      /\ \A k \in 1..Len(l) : l[k] \in Block
  BY DEF List
<1>2. \A j \in DOMAIN l : j < i => End(l[j]) <= r.iova
  BY <1>1 DEF Clear, Apart
<1>3. \A j \in DOMAIN l : i < j => End(l[i]) <= l[j].iova
  BY <1>1, Zenon DEF List, InOrder
<1> DEFINE b == l[i]
           grown == [iova |-> r.iova, sz |-> b.sz + r.sz]
<1>4. b \in Block /\ grown \in Block /\ grown.iova = r.iova /\ grown.sz = b.sz + r.sz
  BY <1>1 DEF Block
<1>5. CASE End(r) < b.iova
  <2>1. Insert(l, i, r) = Before(l, i, r)
    BY <1>5, Zenon DEF Insert
  <2>2. \A j \in DOMAIN l : i <= j => End(r) <= l[j].iova
    BY <1>1, <1>3, <1>5 DEF End, Block
  <2>3. /\ List(Before(l, i, r))
        /\ \A j \in DOMAIN Before(l, i, r) :
              Before(l, i, r)[j] = r \/ \E k \in DOMAIN l : Before(l, i, r)[j] = l[k]
    <3>1. i \in 1..Len(l) + 1
      BY <1>1
    <3> QED
      BY <3>1, <1>2, <2>2, BeforeList
  <2> QED
    BY <2>1, <2>3, Zenon DEF Clear
<1>6. CASE ~(End(r) < b.iova)
  <2>1. End(r) = b.iova /\ End(grown) = End(b)
    BY <1>4, <1>6 DEF End, Block
  <2> HIDE DEF grown
  <2>2. ASSUME NEW u \in Range, Apart(u, b), Apart(u, r)
        PROVE  Apart(u, grown)
    BY <2>1, <2>2, <1>4 DEF Apart, End, Block, Range
  <2>3. CASE i > 1 /\ End(l[i - 1]) = r.iova
    <3> DEFINE p == l[i - 1]
               c == [p EXCEPT !.sz = @ + grown.sz]
               m == With(l, i - 1, c)
    <3>1. i - 1 \in DOMAIN l /\ p \in Block
      BY <1>1, <2>3
    <3>2. c \in Block /\ c.iova = p.iova /\ End(c) = End(b)
      BY <3>1, <2>1, <2>3, <1>4 DEF Block, End
    <3>3. Insert(l, i, r) = Without(m, i)
      BY <1>6, <2>3, Zenon DEF Insert, grown
    <3> HIDE DEF c
    <3> DEFINE w == Without(l, i)
    <3>4. /\ List(w) /\ DOMAIN w = 1..Len(l) - 1 /\ i - 1 \in DOMAIN w
          /\ \A j \in DOMAIN w : w[j] = IF j < i THEN l[j] ELSE l[j + 1]
      <4>1. List(w)
        BY WithoutList, Zenon
      <4>2. w = [j \in 1..Len(l) - 1 |-> IF j < i THEN l[j] ELSE l[j + 1]]
        BY Zenon DEF Without
      <4> HIDE DEF w
      <4>3. i - 1 \in 1..Len(l) - 1
        BY <1>1, <2>3
      <4> QED
        BY <4>1, <4>2, <4>3, Zenon
    <3>5. Without(m, i) = With(w, i - 1, c)
      <4>1. Len(m) = Len(l) /\ \A j \in 1..Len(l) : m[j] = IF j = i - 1 THEN c ELSE l[j]
        BY <1>1, <3>1 DEF With, List
      <4>2. Without(m, i) = [j \in 1..Len(l) - 1 |-> IF j < i THEN m[j] ELSE m[j + 1]]
        BY <4>1, Zenon DEF Without
      <4>3. With(w, i - 1, c) = [j \in 1..Len(l) - 1 |-> IF j = i - 1 THEN c ELSE w[j]]
        BY <3>4, ZenonT(30) DEF With
      <4>4. \A j \in 1..Len(l) - 1 : (IF j < i THEN m[j] ELSE m[j + 1]) = (IF j = i - 1 THEN c ELSE w[j])
        BY <4>1, <3>4, <1>1, SMTT(30)
      <4> QED
        BY <4>2, <4>3, <4>4, Zenon
    <3>6. /\ \A j \in DOMAIN w : j < i - 1 => End(w[j]) <= c.iova
          /\ \A j \in DOMAIN w : i - 1 < j => End(c) <= w[j].iova
      <4>1. ASSUME NEW j \in DOMAIN w, j < i - 1 PROVE End(w[j]) <= c.iova
        <5>1. j \in DOMAIN l /\ w[j] = l[j]
          BY <4>1, <3>4, <1>1
        <5> QED
          BY <4>1, <5>1, <3>1, <3>2, Zenon DEF List, InOrder
      <4>2. ASSUME NEW j \in DOMAIN w, i - 1 < j PROVE End(c) <= w[j].iova
        <5>1. j + 1 \in DOMAIN l /\ w[j] = l[j + 1] /\ i < j + 1
          BY <4>2, <3>4, <1>1
        <5> QED
          BY <5>1, <1>3, <3>2, Zenon
      <4> QED
        BY <4>1, <4>2, Zenon
    <3> HIDE DEF w, m
    <3>7. /\ List(With(w, i - 1, c)) /\ DOMAIN With(w, i - 1, c) = DOMAIN w
          /\ \A j \in DOMAIN w : With(w, i - 1, c)[j] = IF j = i - 1 THEN c ELSE w[j]
      <4>1. PICK k \in DOMAIN w : k = i - 1
        BY <3>4, Zenon
      <4>2. /\ List(w) /\ c \in Block
            /\ \A j \in DOMAIN w : j < k => End(w[j]) <= c.iova
            /\ \A j \in DOMAIN w : k < j => End(c) <= w[j].iova
        BY <4>1, <3>2, <3>4, <3>6, Zenon
      <4>3. /\ List(With(w, k, c)) /\ DOMAIN With(w, k, c) = DOMAIN w
            /\ \A j \in DOMAIN w : With(w, k, c)[j] = IF j = k THEN c ELSE w[j]
        BY ONLY <4>2, WithList
      <4> QED
        BY <4>1, <4>3, Zenon
    <3>8. ASSUME NEW u \in Range, Clear(l, u), Apart(u, r)
          PROVE  Clear(With(w, i - 1, c), u)
      <4>1. Apart(u, b) /\ Apart(u, p)
        BY <3>1, <3>8, Zenon DEF Clear
      <4>2. Apart(u, c)
        BY <4>1, <2>1, <2>2, <2>3, <3>1, <3>2, <3>8, <1>4 DEF Apart, End, Block, Range
      <4>3. \A j \in DOMAIN w : \E k \in DOMAIN l : w[j] = l[k]
        BY <3>4, <1>1
      <4> QED
        BY <4>2, <4>3, <3>7, <3>8, Zenon DEF Clear
    <3> QED
      BY <3>3, <3>5, <3>7, <3>8, Zenon
  <2>4. CASE ~(i > 1 /\ End(l[i - 1]) = r.iova)
    <3>1. Insert(l, i, r) = With(l, i, grown)
      BY <1>6, <2>4, Zenon DEF Insert, grown
    <3>2. /\ \A j \in DOMAIN l : j < i => End(l[j]) <= grown.iova
          /\ \A j \in DOMAIN l : i < j => End(grown) <= l[j].iova
      BY <1>2, <1>3, <1>4, <2>1, Zenon
    <3>3. /\ List(With(l, i, grown)) /\ DOMAIN With(l, i, grown) = DOMAIN l
          /\ \A j \in DOMAIN l : With(l, i, grown)[j] = IF j = i THEN grown ELSE l[j]
      BY <1>4, <3>2, WithList
    <3> QED
      BY <3>1, <3>3, <2>2, Zenon DEF Clear
  <2> QED
    BY <2>3, <2>4, Zenon
<1> QED
  BY <1>5, <1>6, Zenon

(* iova_free: the range was disjoint from everything else, so the list     *)
(* with the range in it is disjoint from all other ranges.                 *)
LEMMA FreeStep ==
    ASSUME IovaInv, NEW u \in live, iova_free(u)
    PROVE  IovaInv'
<1> DEFINE r == [iova |-> u.iova, sz |-> ALIGN_UP(u.req, Page)]
           Above(b) == End(r) <= b.iova
<1>1. List(free_list) /\ u \in Range /\ live \subseteq Range
  BY Zenon DEF IovaInv, Shape, NoOverlap, List, InOrder
<1>2. r \in Block /\ r.iova = u.iova /\ r.sz = u.sz
  BY <1>1, Zenon DEF IovaInv, Shape, Range, Block
<1>3. Clear(free_list, r) /\ \A v \in live : v # u => Apart(v, r)
  BY <1>2, Zenon DEF IovaInv, NoOverlap, Clear, Apart, End
<1>4. CASE live' = live \ {u} /\ List(free_list') /\ \A v \in live' : Clear(free_list', v)
  <2>1. Shape'
    BY <1>4, Zenon DEF IovaInv, Shape, List, iova_free
  <2>2. NoOverlap'
    BY <1>4, Zenon DEF IovaInv, NoOverlap, List, InOrder, Clear, Apart, End
  <2> QED
    BY <2>1, <2>2, Zenon DEF IovaInv
<1>5. CASE free_list = <<>> /\ free_list' = <<r>> /\ live' = live \ {u}
  <2>1. DOMAIN <<r>> = {1} /\ <<r>>[1] = r /\ <<r>> \in Seq(Block)
    BY <1>2
  <2>2. List(free_list') /\ \A v \in live' : Clear(free_list', v)
    BY <2>1, <1>3, <1>5 DEF List, InOrder, Clear
  <2> QED
    BY <1>4, <1>5, <2>2, Zenon
<1>6. CASE \E i \in DOMAIN free_list :
              /\ IsFirst(free_list, Above, i)
              /\ free_list' = Insert(free_list, i, r)
              /\ live' = live \ {u}
  <2>1. PICK i \in DOMAIN free_list :
              /\ End(r) <= free_list[i].iova /\ \A j \in 1..i - 1 : ~(End(r) <= free_list[j].iova)
              /\ free_list' = Insert(free_list, i, r)
              /\ live' = live \ {u}
    BY <1>6, Zenon DEF IsFirst
  <2> HIDE DEF r
  <2>2. /\ List(free_list')
        /\ \A v \in Range : Clear(free_list, v) /\ Apart(v, r) => Clear(free_list', v)
    BY <2>1, <1>1, <1>2, <1>3, InsertList, Zenon
  <2>3. \A v \in live : Clear(free_list, v)
    BY Zenon DEF IovaInv, NoOverlap, Clear
  <2> QED
    BY <2>1, <2>2, <2>3, <1>1, <1>3, <1>4, Zenon
<1>7. CASE UNCHANGED <<free_list, live>>
  BY <1>7, Zenon DEF IovaInv, Shape, NoOverlap, Apart, End, iova_free
<1> QED
  BY <1>5, <1>6, <1>7, ZenonT(30) DEF iova_free, r, Above

(* A free list that covers no more than before keeps the invariant.        *)
LEMMA ShrinkStep ==
    ASSUME IovaInv, UNCHANGED live, up' \/ live = {}, List(free_list'),
           \A u \in Range : Clear(free_list, u) => Clear(free_list', u)
    PROVE  IovaInv'
<1>1. Shape'
  BY Zenon DEF IovaInv, Shape, List
<1>2. \A u \in live : Clear(free_list', u)
  BY Zenon DEF IovaInv, Shape, NoOverlap, Clear
<1>3. NoOverlap'
  BY <1>2, Zenon DEF IovaInv, NoOverlap, List, InOrder, Clear, Apart, End
<1> QED
  BY <1>1, <1>3, Zenon DEF IovaInv

(* iova_reserve cuts its range out of one block.                           *)
LEMMA ReserveStep ==
    ASSUME PageAssumption, IovaInv, NEW addr \in Nat, NEW size \in Nat \ {0},
           iova_reserve(addr, size)
    PROVE  IovaInv'
<1> DEFINE down == ALIGN_DOWN(addr, Page)
           iova == IF down = 0 THEN Page ELSE down
           sz == ALIGN_UP(size, Page) - (IF down = 0 THEN Page ELSE 0)
           Holds(b) == b.iova <= iova /\ iova < End(b)
           rest(b) == [iova |-> iova + sz, sz |-> End(b) - (iova + sz)]
<1>1. PICK i \in DOMAIN free_list :
         /\ free_list[i].iova <= iova /\ iova < End(free_list[i])
         /\ iova + sz < End(free_list[i])
         /\ free_list' = IF iova = free_list[i].iova
                         THEN With(free_list, i, rest(free_list[i]))
                         ELSE Before(With(free_list, i,
                                          [free_list[i] EXCEPT !.sz = iova - free_list[i].iova]),
                                     i + 1, rest(free_list[i]))
  BY Zenon DEF iova_reserve, IsFirst
<1>2. iova \in Nat /\ sz \in Nat
  <2>1. Page \in Nat \ {0}
    BY Zenon DEF PageAssumption
  <2>2. down \in Nat
    BY <2>1 DEF ALIGN_DOWN
  <2>3. ALIGN_UP(size, Page) \in Nat /\ ALIGN_UP(size, Page) >= Page
    <3> DEFINE y == size + Page - 1
    <3>1. y \in Nat /\ y % Page \in 0..Page - 1 /\ ALIGN_UP(size, Page) = y - (y % Page)
      BY <2>1 DEF ALIGN_UP, ALIGN_DOWN
    <3> QED
      BY <3>1, <2>1
  <2> QED
    BY <2>1, <2>2, <2>3
<1> HIDE DEF iova, sz
<1>3. /\ List(free_list) /\ UNCHANGED live /\ up'
      /\ Len(free_list) \in Nat /\ DOMAIN free_list = 1..Len(free_list) /\ i \in 1..Len(free_list)
      /\ \A j \in DOMAIN free_list : free_list[j] \in Block
  BY DEF IovaInv, Shape, NoOverlap, List, InOrder, iova_reserve
<1> DEFINE l == free_list
           b == l[i]
           c == [iova |-> iova + sz, sz |-> End(b) - (iova + sz)]
<1>4. /\ b \in Block /\ c \in Block
      /\ c.iova = iova + sz /\ End(c) = End(b)
      /\ b.iova <= iova /\ iova + sz < End(b) /\ b.iova \in Nat /\ End(b) \in Nat
  <2>1. b \in Block /\ b.iova \in Nat /\ b.sz \in Nat /\ End(b) = b.iova + b.sz
    BY <1>3, Zenon DEF Block, End
  <2>2. b.iova <= iova /\ iova + sz < End(b)
    BY <1>1, Zenon
  <2>3. End(b) - (iova + sz) \in Nat \ {0} /\ iova + sz \in Nat
    BY <2>1, <2>2, <1>2
  <2>4. c \in Block /\ c.iova = iova + sz /\ c.sz = End(b) - (iova + sz)
    BY <2>3, Zenon DEF Block
  <2>5. End(c) = End(b)
    BY <2>1, <2>3, <2>4, <1>2 DEF End
  <2> QED
    BY <2>1, <2>2, <2>4, <2>5
<1>5. /\ \A j \in DOMAIN l : j < i => End(l[j]) <= b.iova
      /\ \A j \in DOMAIN l : i < j => End(b) <= l[j].iova
  BY <1>3, Zenon DEF List, InOrder
<1>a. \A j \in DOMAIN l : End(l[j]) \in Nat /\ l[j].iova \in Nat
  BY <1>3 DEF End, Block
<1>6. ASSUME NEW u \in Range, Apart(u, b) PROVE Apart(u, c)
  BY <1>6, <1>1, <1>2, <1>4 DEF Apart, End, Block, Range
<1>7. CASE iova = b.iova
  <2>1. free_list' = With(l, i, c)
    BY <1>1, <1>7, Zenon
  <2> HIDE DEF c, b, l
  <2>2. /\ \A j \in DOMAIN l : j < i => End(l[j]) <= c.iova
        /\ \A j \in DOMAIN l : i < j => End(c) <= l[j].iova
    BY <1>2, <1>4, <1>5, <1>a
  <2>i. i \in DOMAIN l /\ List(l)
    BY <1>3, Zenon DEF l
  <2>3. /\ List(With(l, i, c)) /\ DOMAIN With(l, i, c) = DOMAIN l
        /\ \A j \in DOMAIN l : With(l, i, c)[j] = IF j = i THEN c ELSE l[j]
    BY ONLY <2>2, <1>4, <2>i, WithList
  <2>4. \A u \in Range : Clear(free_list, u) => Clear(free_list', u)
    BY <2>1, <2>3, <1>6, <2>i, Zenon DEF Clear, l, b
  <2> QED
    BY <2>1, <2>3, <2>4, <1>3, ShrinkStep, Zenon
<1>8. CASE iova # b.iova
  <2> DEFINE a == [b EXCEPT !.sz = iova - b.iova]
             m == With(l, i, a)
  <2>1. free_list' = Before(m, i + 1, c)
    BY <1>1, <1>8, Zenon
  <2>2. a \in Block /\ a.iova = b.iova /\ End(a) = iova
    BY <1>1, <1>2, <1>4, <1>8 DEF Block, End
  <2>i. i \in DOMAIN l /\ i \in Int /\ DOMAIN l \subseteq Int /\ List(l)
    BY <1>3
  <2> HIDE DEF a, b, c, l
  <2>3. /\ \A j \in DOMAIN l : j < i => End(l[j]) <= a.iova
        /\ \A j \in DOMAIN l : i < j => End(a) <= l[j].iova
    BY <1>2, <1>4, <1>5, <1>a, <2>2
  <2>4. /\ List(m) /\ DOMAIN m = DOMAIN l
        /\ \A j \in DOMAIN l : m[j] = IF j = i THEN a ELSE l[j]
    BY ONLY <2>2, <2>3, <2>i, WithList DEF m
  <2>5. Len(m) = Len(l)
    BY <2>4, <2>i DEF List
  <2> HIDE DEF m
  <2>6. /\ \A j \in DOMAIN m : j < i + 1 => End(m[j]) <= c.iova
        /\ \A j \in DOMAIN m : i + 1 <= j => End(c) <= m[j].iova
    <3>1. ASSUME NEW j \in DOMAIN m, j < i + 1 PROVE End(m[j]) <= c.iova
      <4>1. CASE j = i
        BY <4>1, <1>2, <1>4, <2>2, <2>4
      <4>2. CASE j < i
        BY <4>2, <1>2, <1>4, <1>5, <1>a, <2>4, <2>i
      <4> QED
        BY <3>1, <4>1, <4>2, <2>4, <2>i
    <3>2. ASSUME NEW j \in DOMAIN m, i + 1 <= j PROVE End(c) <= m[j].iova
      BY <3>2, <1>4, <1>5, <2>4, <2>i
    <3> QED
      BY <3>1, <3>2, Zenon
  <2>7. PICK k \in 1..Len(m) + 1 : k = i + 1
    BY <2>5, <1>3 DEF l
  <2>8. /\ \A j \in DOMAIN m : j < k => End(m[j]) <= c.iova
        /\ \A j \in DOMAIN m : k <= j => End(c) <= m[j].iova
    BY <2>6, <2>7, Zenon
  <2>9. /\ List(Before(m, k, c))
        /\ \A j \in DOMAIN Before(m, k, c) :
              Before(m, k, c)[j] = c \/ \E n \in DOMAIN m : Before(m, k, c)[j] = m[n]
    BY ONLY <2>4, <2>8, <1>4, BeforeList, ZenonT(30)
  <2>10. ASSUME NEW u \in Range, Clear(l, u) PROVE Clear(free_list', u)
    <3>1. Apart(u, b) /\ Apart(u, c)
      BY <2>10, <2>i, <1>6, Zenon DEF Clear, b
    <3>2. Apart(u, a)
      BY <3>1, <1>2, <1>4, <2>2, SMTT(30) DEF Apart, End, Block, Range
    <3>3. \A n \in DOMAIN m : Apart(u, m[n])
      BY <3>2, <2>4, <2>10, Zenon DEF Clear
    <3> QED
      BY <3>1, <3>3, <2>1, <2>7, <2>9, Zenon DEF Clear
  <2> QED
    BY <2>1, <2>7, <2>9, <2>10, <1>3, ShrinkStep, Zenon DEF l
<1> QED
  BY <1>7, <1>8, Zenon

(* IovaInv holds in the beginning and every step keeps it.                 *)
LEMMA IovaInvStep ==
    ASSUME PageAssumption, IovaInv, [Next]_vars
    PROVE  IovaInv'
<1>1. CASE UNCHANGED vars
  BY <1>1, Zenon DEF IovaInv, Shape, NoOverlap, Apart, End, vars
<1>2. ASSUME NEW base \in Bases, NEW limit \in Limits, iovad_init(base, limit)
      PROVE  IovaInv'
  <2> DEFINE b == [iova |-> First(base), sz |-> limit - First(base)]
  <2>1. free_list' = <<b>> /\ live' = {}
    BY <1>2, Zenon DEF iovad_init, IovaInv, Shape
  <2>2. b \in Block
    BY <1>2 DEF iovad_init, First, PageAssumption, Block
  <2>3. <<b>> \in Seq(Block) /\ DOMAIN <<b>> = {1}
    BY <2>2
  <2> QED
    BY <2>1, <2>3 DEF IovaInv, Shape, NoOverlap
<1>3. CASE iovad_shutdown
  <2>1. free_list' = <<>> /\ UNCHANGED live /\ live = {}
    BY <1>3, Zenon DEF iovad_shutdown
  <2>2. List(free_list') /\ \A u \in Range : Clear(free_list', u)
    BY <2>1 DEF List, InOrder, Clear
  <2> QED
    BY <2>1, <2>2, ShrinkStep, Zenon
<1>4. ASSUME NEW addr \in Reserved, NEW size \in Sizes, iova_reserve(addr, size)
      PROVE  IovaInv'
  BY <1>4, ReserveStep, Zenon DEF PageAssumption
<1>5. ASSUME NEW req \in Sizes, iova_alloc(req)
      PROVE  IovaInv'
  BY <1>5, AllocStep, Zenon
<1>6. ASSUME NEW u \in live, iova_free(u)
      PROVE  IovaInv'
  BY <1>6, FreeStep, Zenon
<1> QED
  BY <1>1, <1>2, <1>3, <1>4, <1>5, <1>6, Zenon DEF Next

(* No address is handed out twice (NoOverlap), whatever the page size, the *)
(* domains and the requests.                                               *)
THEOREM NoOverlapTheorem == Spec => []NoOverlap
<1>1. Init => IovaInv
  BY DEF Init, IovaInv, Shape, NoOverlap
<1>2. IovaInv /\ [Next]_vars => IovaInv'
  BY IovaInvStep, PageAssumption, Zenon
<1>3. IovaInv => NoOverlap
  BY Zenon DEF IovaInv
<1> QED
  BY <1>1, <1>2, <1>3, PTL DEF Spec

-----------------------------------------------------------------------------
(***************************************************************************)
(* The free list implements the set of free addresses of IovaPages.  The   *)
(* lemmas say which addresses a list covers after a block is dropped,      *)
(* changed or inserted, then after each operation; that everything stays   *)
(* within the domain follows from the same facts.                          *)
(***************************************************************************)
Covers(b, a) == b.iova <= a /\ a < End(b)
Free(l, a) == \E i \in DOMAIN l : Covers(l[i], a)

(* Free addresses and those handed out lie in the domain, without 0.       *)
Bounded ==
    /\ \A a \in Nat : Free(free_list, a) => 0 < a /\ a < Top
    /\ \A u \in live : \A a \in Nat : Covers(u, a) => 0 < a /\ a < Top

RefineInv == IovaInv /\ Bounded

-----------------------------------------------------------------------------
(* Without a block, the list covers what its other blocks do.              *)
LEMMA WithoutCovers ==
    ASSUME NEW l \in Seq(Block), NEW i \in DOMAIN l, NEW a \in Nat
    PROVE  Free(Without(l, i), a) <=> \E k \in DOMAIN l : k # i /\ Covers(l[k], a)
<1>1. Len(l) \in Nat /\ DOMAIN l = 1..Len(l) /\ i \in 1..Len(l)
  OBVIOUS
<1>2. /\ DOMAIN Without(l, i) = 1..Len(l) - 1
      /\ \A j \in 1..Len(l) - 1 : Without(l, i)[j] = IF j < i THEN l[j] ELSE l[j + 1]
  BY <1>1, Zenon DEF Without
<1>3. ASSUME NEW k \in DOMAIN l, k # i
      PROVE  \E j \in 1..Len(l) - 1 : Without(l, i)[j] = l[k]
  <2>1. CASE k < i
    BY <2>1, <1>1, <1>2
  <2>2. CASE k > i
    <3>1. k - 1 \in 1..Len(l) - 1 /\ ~(k - 1 < i) /\ (k - 1) + 1 = k
      BY <2>2, <1>1
    <3> QED
      BY <3>1, <1>2, Zenon
  <2> QED
    BY <2>1, <2>2, <1>1, <1>3
<1>4. ASSUME NEW j \in 1..Len(l) - 1
      PROVE  \E k \in DOMAIN l : k # i /\ Without(l, i)[j] = l[k]
  <2>1. CASE j < i
    BY <2>1, <1>1, <1>2
  <2>2. CASE ~(j < i)
    <3>1. j + 1 \in DOMAIN l /\ j + 1 # i
      BY <2>2, <1>1
    <3> QED
      BY <3>1, <2>2, <1>2, Zenon
  <2> QED
    BY <2>1, <2>2, Zenon
<1> QED
  BY <1>2, <1>3, <1>4, Zenon DEF Free

(* With a block changed, it covers that block and what the others do.      *)
LEMMA WithCovers ==
    ASSUME NEW l \in Seq(Block), NEW i \in DOMAIN l, NEW b \in Block, NEW a \in Nat
    PROVE  Free(With(l, i, b), a) <=> Covers(b, a) \/ \E k \in DOMAIN l : k # i /\ Covers(l[k], a)
<1>1. /\ DOMAIN With(l, i, b) = DOMAIN l
      /\ \A j \in DOMAIN l : With(l, i, b)[j] = IF j = i THEN b ELSE l[j]
  BY Zenon DEF With
<1> QED
  BY <1>1, Zenon DEF Free

(* With a block inserted, it covers that block and what it did before.     *)
LEMMA BeforeCovers ==
    ASSUME NEW l \in Seq(Block), NEW i \in 1..Len(l) + 1, NEW b \in Block, NEW a \in Nat
    PROVE  Free(Before(l, i, b), a) <=> Covers(b, a) \/ Free(l, a)
<1>1. Len(l) \in Nat /\ DOMAIN l = 1..Len(l)
  OBVIOUS
<1>2. /\ DOMAIN Before(l, i, b) = 1..Len(l) + 1
      /\ \A j \in 1..Len(l) + 1 :
            Before(l, i, b)[j] = IF j < i THEN l[j] ELSE IF j = i THEN b ELSE l[j - 1]
  BY <1>1, Zenon DEF Before
<1>3. ASSUME NEW k \in DOMAIN l
      PROVE  \E j \in 1..Len(l) + 1 : Before(l, i, b)[j] = l[k]
  <2>1. CASE k < i
    BY <2>1, <1>1, <1>2
  <2>2. CASE ~(k < i)
    <3>1. k + 1 \in 1..Len(l) + 1 /\ ~(k + 1 < i) /\ k + 1 # i /\ (k + 1) - 1 = k
      BY <2>2, <1>1
    <3> QED
      BY <3>1, <1>2, Zenon
  <2> QED
    BY <2>1, <2>2, Zenon
<1>4. ASSUME NEW j \in 1..Len(l) + 1
      PROVE  Before(l, i, b)[j] = b \/ \E k \in DOMAIN l : Before(l, i, b)[j] = l[k]
  <2>1. CASE j < i
    <3>1. j \in DOMAIN l
      BY <2>1, <1>1
    <3> QED
      BY <3>1, <2>1, <1>2, Zenon
  <2>2. CASE j = i
    BY <2>2, <1>1, <1>2
  <2>3. CASE j > i
    <3>1. j - 1 \in DOMAIN l /\ ~(j < i) /\ j # i
      BY <2>3, <1>1
    <3> QED
      BY <3>1, <1>2, Zenon
  <2> QED
    BY <2>1, <2>2, <2>3, <1>1
<1>5. Before(l, i, b)[i] = b
  BY <1>1, <1>2
<1> QED
  BY <1>2, <1>3, <1>4, <1>5, Zenon DEF Free

(* Two blocks of a list in order cover no address in common.               *)
LEMMA BlocksApart ==
    ASSUME NEW l, List(l), NEW i \in DOMAIN l, NEW k \in DOMAIN l, NEW a \in Nat,
           Covers(l[i], a), Covers(l[k], a)
    PROVE  i = k
<1>1. /\ DOMAIN l \subseteq Int /\ l[i] \in Block /\ l[k] \in Block
      /\ i < k => End(l[i]) <= l[k].iova
      /\ k < i => End(l[k]) <= l[i].iova
  BY DEF List, InOrder
<1>2. End(l[i]) \in Nat /\ End(l[k]) \in Nat /\ l[i].iova \in Nat /\ l[k].iova \in Nat
  BY <1>1 DEF End, Block
<1> QED
  BY <1>1, <1>2 DEF Covers

-----------------------------------------------------------------------------
(* iova_alloc takes a range of free addresses, and no other.               *)
LEMMA AllocCovers ==
    ASSUME PageAssumption, IovaInv, NEW req \in Sizes, iova_alloc(req)
    PROVE  \E r \in Block :
              /\ \A a \in Nat : Covers(r, a) => Free(free_list, a)
              /\ \A a \in Nat : Free(free_list', a) <=> Free(free_list, a) /\ ~Covers(r, a)
              /\ live' = live \cup {[iova |-> r.iova, sz |-> r.sz, req |-> req]}
<1> DEFINE sz == ALIGN_UP(req, Page)
           Fits(b) == b.sz >= sz
<1>1. PICK i \in DOMAIN free_list :
         /\ IsFirst(free_list, Fits, i)
         /\ free_list' = IF free_list[i].sz = sz THEN Without(free_list, i)
                         ELSE With(free_list, i, Rest(free_list[i], sz))
         /\ live' = live \cup {[iova |-> free_list[i].iova, sz |-> sz, req |-> req]}
  BY Zenon DEF iova_alloc
<1>2. sz \in Nat \ {0}
  BY AlignUp, Zenon DEF PageAssumption
<1>3. List(free_list)
  BY Zenon DEF IovaInv, Shape, NoOverlap, List, InOrder
<1>4. free_list[i] \in Block /\ free_list[i].sz >= sz
  BY <1>1, <1>3 DEF IsFirst, List
<1> HIDE DEF sz
<1> DEFINE b == free_list[i]
           r == [iova |-> b.iova, sz |-> sz]
<1>5. r \in Block /\ r.iova = b.iova /\ r.sz = sz
  BY <1>2, <1>4, Zenon DEF Block
<1> HIDE DEF r
<1>6. ASSUME NEW a \in Nat, Covers(r, a) PROVE Covers(b, a)
  BY <1>4, <1>5, <1>6, <1>2 DEF Covers, End, Block
<1>7. ASSUME NEW a \in Nat
      PROVE  Free(free_list, a) <=> Covers(b, a) \/ \E k \in DOMAIN free_list : k # i /\ Covers(free_list[k], a)
  BY Zenon DEF Free
<1>8. ASSUME NEW a \in Nat, Covers(b, a), NEW k \in DOMAIN free_list, k # i
      PROVE  ~Covers(free_list[k], a)
  BY <1>3, <1>8, BlocksApart, Zenon
<1>9. ASSUME NEW a \in Nat
      PROVE  Free(free_list', a) <=> Free(free_list, a) /\ ~Covers(r, a)
  <2>1. CASE b.sz = sz
    <3>1. Covers(r, a) <=> Covers(b, a)
      BY <2>1, <1>5, Zenon DEF Covers, End
    <3>2. Free(free_list', a) <=> \E k \in DOMAIN free_list : k # i /\ Covers(free_list[k], a)
      BY <2>1, <1>1, <1>3, WithoutCovers, Zenon DEF List
    <3> QED
      BY <3>1, <3>2, <1>7, <1>8, Zenon
  <2>2. CASE b.sz # sz
    <3> DEFINE c == Rest(b, sz)
    <3>1. c \in Block /\ c.iova = b.iova + sz /\ c.sz = b.sz - sz
      BY <2>2, <1>2, <1>4 DEF Rest, Block
    <3>2. free_list' = With(free_list, i, c)
      BY <2>2, <1>1, Zenon
    <3> HIDE DEF c
    <3>3. Covers(c, a) <=> Covers(b, a) /\ ~Covers(r, a)
      BY <3>1, <1>2, <1>4, <1>5 DEF Covers, End, Block
    <3>4. Free(free_list', a) <=> Covers(c, a) \/ \E k \in DOMAIN free_list : k # i /\ Covers(free_list[k], a)
      BY <3>1, <3>2, <1>3, WithCovers, Zenon DEF List
    <3> QED
      BY <3>3, <3>4, <1>6, <1>7, <1>8, Zenon
  <2> QED
    BY <2>1, <2>2, Zenon
<1> QED
  BY <1>1, <1>5, <1>6, <1>7, <1>9, Zenon

(* Insert adds the range to what the list covers.                          *)
LEMMA InsertCovers ==
    ASSUME NEW l, List(l), NEW r \in Block, Clear(l, r), NEW i \in DOMAIN l,
           End(r) <= l[i].iova, NEW a \in Nat
    PROVE  Free(Insert(l, i, r), a) <=> Free(l, a) \/ Covers(r, a)
<1>1. /\ Len(l) \in Nat /\ DOMAIN l = 1..Len(l) /\ i \in 1..Len(l) /\ i \in 1..Len(l) + 1
      /\ \A k \in 1..Len(l) : l[k] \in Block
  BY DEF List
<1> DEFINE b == l[i]
           grown == [iova |-> r.iova, sz |-> b.sz + r.sz]
<1>2. b \in Block /\ grown \in Block /\ grown.iova = r.iova /\ grown.sz = b.sz + r.sz
  BY <1>1 DEF Block
<1>3. Free(l, a) <=> Covers(b, a) \/ \E k \in DOMAIN l : k # i /\ Covers(l[k], a)
  BY Zenon DEF Free
<1>4. CASE End(r) < b.iova
  BY <1>1, <1>4, BeforeCovers, Zenon DEF Insert, List
<1>5. CASE ~(End(r) < b.iova)
  <2> HIDE DEF grown
  <2>1. Covers(grown, a) <=> Covers(b, a) \/ Covers(r, a)
    BY <1>2, <1>5 DEF Covers, End, Block
  <2>2. CASE ~(i > 1 /\ End(l[i - 1]) = r.iova)
    <3>1. Insert(l, i, r) = With(l, i, grown)
      BY <1>5, <2>2, Zenon DEF Insert, grown
    <3> QED
      BY <3>1, <2>1, <1>2, <1>3, WithCovers DEF List
  <2>3. CASE i > 1 /\ End(l[i - 1]) = r.iova
    <3> DEFINE p == l[i - 1]
               c == [p EXCEPT !.sz = @ + grown.sz]
               m == With(l, i - 1, c)
    <3>1. i - 1 \in DOMAIN l /\ p \in Block
      BY <1>1, <2>3
    <3>2. c \in Block /\ c.iova = p.iova /\ c.sz = p.sz + grown.sz
      BY <3>1, <1>2 DEF Block
    <3>3. Insert(l, i, r) = Without(m, i)
      BY <1>5, <2>3, Zenon DEF Insert, grown
    <3> HIDE DEF c
    <3>4. Covers(c, a) <=> Covers(p, a) \/ Covers(grown, a)
      BY <3>1, <3>2, <2>3, <1>2 DEF Covers, End, Block
    <3>5. /\ DOMAIN m = DOMAIN l
          /\ \A j \in DOMAIN l : m[j] = IF j = i - 1 THEN c ELSE l[j]
      BY Zenon DEF With
    <3>6. m \in Seq(Block) /\ Len(m) = Len(l)
      BY <3>1, <3>2, <3>5, <1>1 DEF With, List
    <3>7. i \in DOMAIN m
      BY <3>5, Zenon
    <3> HIDE DEF m
    <3>8. Free(Without(m, i), a) <=> \E k \in DOMAIN m : k # i /\ Covers(m[k], a)
      BY <3>6, <3>7, WithoutCovers, Zenon
    <3>9. (\E k \in DOMAIN m : k # i /\ Covers(m[k], a))
             <=> Covers(c, a) \/ \E k \in DOMAIN l : k # i /\ k # i - 1 /\ Covers(l[k], a)
      <4>1. i - 1 # i
        BY <1>1
      <4> QED
        BY <4>1, <3>1, <3>5, Zenon
    <3>10. (\E k \in DOMAIN l : k # i /\ Covers(l[k], a))
             <=> Covers(p, a) \/ \E k \in DOMAIN l : k # i /\ k # i - 1 /\ Covers(l[k], a)
      <4>1. i - 1 # i
        BY <1>1
      <4> QED
        BY <4>1, <3>1, Zenon
    <3> QED
      BY <3>3, <3>4, <3>8, <3>9, <3>10, <2>1, <1>3, Zenon
  <2> QED
    BY <2>2, <2>3, Zenon
<1> QED
  BY <1>4, <1>5, Zenon

(* iova_free gives back the range, and nothing else, or panics.            *)
LEMMA FreeCovers ==
    ASSUME IovaInv, NEW u \in live, iova_free(u)
    PROVE  \/ /\ \A a \in Nat : Free(free_list', a) <=> Free(free_list, a) \/ Covers(u, a)
              /\ live' = live \ {u}
           \/ UNCHANGED <<free_list, live>>
<1> DEFINE r == [iova |-> u.iova, sz |-> ALIGN_UP(u.req, Page)]
           Above(b) == End(r) <= b.iova
<1>1. List(free_list) /\ u \in Range
  BY Zenon DEF IovaInv, Shape, NoOverlap, List, InOrder
<1>2. r \in Block /\ r.iova = u.iova /\ r.sz = u.sz
  BY <1>1, Zenon DEF IovaInv, Shape, Range, Block
<1>3. Clear(free_list, r)
  BY <1>2, Zenon DEF IovaInv, NoOverlap, Clear, Apart, End
<1>4. ASSUME NEW a \in Nat PROVE Covers(r, a) <=> Covers(u, a)
  BY <1>2, Zenon DEF Covers, End
<1>5. CASE free_list = <<>> /\ free_list' = <<r>> /\ live' = live \ {u}
  <2>1. DOMAIN <<r>> = {1} /\ <<r>>[1] = r /\ DOMAIN <<>> = {}
    BY <1>2
  <2> QED
    BY <2>1, <1>4, <1>5, Zenon DEF Free
<1>6. CASE \E i \in DOMAIN free_list :
              /\ IsFirst(free_list, Above, i)
              /\ free_list' = Insert(free_list, i, r)
              /\ live' = live \ {u}
  <2>1. PICK i \in DOMAIN free_list :
              /\ End(r) <= free_list[i].iova
              /\ free_list' = Insert(free_list, i, r)
              /\ live' = live \ {u}
    BY <1>6, Zenon DEF IsFirst
  <2> HIDE DEF r
  <2>2. ASSUME NEW a \in Nat PROVE Free(free_list', a) <=> Free(free_list, a) \/ Covers(r, a)
    BY <2>1, <1>1, <1>2, <1>3, InsertCovers, Zenon
  <2> QED
    BY <2>1, <2>2, <1>4, Zenon
<1> QED
  BY <1>5, <1>6, Zenon DEF iova_free, r, Above

(* iova_reserve takes a range of free addresses away, and no other.        *)
LEMMA ReserveCovers ==
    ASSUME PageAssumption, IovaInv, NEW addr \in Nat, NEW size \in Nat \ {0},
           iova_reserve(addr, size)
    PROVE  \E r \in Block :
              /\ \A a \in Nat : Covers(r, a) => Free(free_list, a)
              /\ \A a \in Nat : Free(free_list', a) <=> Free(free_list, a) /\ ~Covers(r, a)
<1> DEFINE down == ALIGN_DOWN(addr, Page)
           iova == IF down = 0 THEN Page ELSE down
           sz == ALIGN_UP(size, Page) - (IF down = 0 THEN Page ELSE 0)
           rest(b) == [iova |-> iova + sz, sz |-> End(b) - (iova + sz)]
<1>1. PICK i \in DOMAIN free_list :
         /\ sz # 0
         /\ free_list[i].iova <= iova /\ iova < End(free_list[i])
         /\ iova + sz < End(free_list[i])
         /\ free_list' = IF iova = free_list[i].iova
                         THEN With(free_list, i, rest(free_list[i]))
                         ELSE Before(With(free_list, i,
                                          [free_list[i] EXCEPT !.sz = iova - free_list[i].iova]),
                                     i + 1, rest(free_list[i]))
  BY Zenon DEF iova_reserve, IsFirst
<1>2. iova \in Nat /\ sz \in Nat
  <2>1. Page \in Nat \ {0}
    BY Zenon DEF PageAssumption
  <2>2. down \in Nat
    BY <2>1 DEF ALIGN_DOWN
  <2>3. ALIGN_UP(size, Page) \in Nat /\ ALIGN_UP(size, Page) >= Page
    <3> DEFINE y == size + Page - 1
    <3>1. y \in Nat /\ y % Page \in 0..Page - 1 /\ ALIGN_UP(size, Page) = y - (y % Page)
      BY <2>1 DEF ALIGN_UP, ALIGN_DOWN
    <3> QED
      BY <3>1, <2>1
  <2> QED
    BY <2>1, <2>2, <2>3
<1>3. /\ List(free_list) /\ free_list \in Seq(Block)
      /\ Len(free_list) \in Nat /\ DOMAIN free_list = 1..Len(free_list) /\ i \in 1..Len(free_list)
      /\ \A j \in DOMAIN free_list : free_list[j] \in Block
  BY DEF IovaInv, Shape, NoOverlap, List, InOrder
<1> HIDE DEF iova, sz
<1> DEFINE l == free_list
           b == l[i]
           c == [iova |-> iova + sz, sz |-> End(b) - (iova + sz)]
           r == [iova |-> iova, sz |-> sz]
<1>4. r \in Block /\ r.iova = iova /\ r.sz = sz /\ b \in Block
  BY <1>1, <1>2, <1>3, Zenon DEF Block
<1>5. c \in Block /\ c.iova = iova + sz /\ c.sz = End(b) - (iova + sz)
  <2>1. End(b) - (iova + sz) \in Nat \ {0} /\ iova + sz \in Nat
    BY <1>1, <1>2, <1>4 DEF End, Block
  <2> QED
    BY <2>1, Zenon DEF Block
<1> HIDE DEF c, r
<1>6. ASSUME NEW a \in Nat, Covers(r, a) PROVE Covers(b, a)
  BY <1>1, <1>2, <1>4, <1>6 DEF Covers, End, Block
<1>7. ASSUME NEW a \in Nat
      PROVE  Free(l, a) <=> Covers(b, a) \/ \E k \in DOMAIN l : k # i /\ Covers(l[k], a)
  BY Zenon DEF Free
<1>8. ASSUME NEW a \in Nat, Covers(b, a), NEW k \in DOMAIN l, k # i
      PROVE  ~Covers(l[k], a)
  BY <1>3, <1>8, BlocksApart, Zenon
<1>9. ASSUME NEW a \in Nat
      PROVE  Free(free_list', a) <=> Free(l, a) /\ ~Covers(r, a)
  <2>1. CASE iova = b.iova
    <3>1. Covers(c, a) <=> Covers(b, a) /\ ~Covers(r, a)
      BY <2>1, <1>1, <1>2, <1>4, <1>5 DEF Covers, End, Block
    <3>2. free_list' = With(l, i, c)
      BY <2>1, <1>1, Zenon DEF c
    <3>3. Free(free_list', a) <=> Covers(c, a) \/ \E k \in DOMAIN l : k # i /\ Covers(l[k], a)
      BY <3>2, <1>3, <1>5, WithCovers, Zenon
    <3> QED
      BY <3>1, <3>3, <1>6, <1>7, <1>8, Zenon
  <2>2. CASE iova # b.iova
    <3> DEFINE d == [b EXCEPT !.sz = iova - b.iova]
               m == With(l, i, d)
    <3>1. d \in Block /\ d.iova = b.iova /\ d.sz = iova - b.iova
      BY <2>2, <1>1, <1>2, <1>4 DEF Block
    <3>2. free_list' = Before(m, i + 1, c)
      BY <2>2, <1>1, Zenon DEF c
    <3> HIDE DEF d
    <3>3. Covers(c, a) \/ Covers(d, a) <=> Covers(b, a) /\ ~Covers(r, a)
      BY <3>1, <1>1, <1>2, <1>4, <1>5 DEF Covers, End, Block
    <3>4. m \in Seq(Block) /\ Len(m) = Len(l) /\ i + 1 \in 1..Len(m) + 1
      BY <3>1, <1>3 DEF With
    <3>5. Free(m, a) <=> Covers(d, a) \/ \E k \in DOMAIN l : k # i /\ Covers(l[k], a)
      BY <3>1, <1>3, WithCovers, Zenon
    <3> HIDE DEF m
    <3>6. Free(free_list', a) <=> Covers(c, a) \/ Free(m, a)
      BY <3>2, <3>4, <1>5, BeforeCovers, Zenon
    <3> QED
      BY <3>3, <3>5, <3>6, <1>6, <1>7, <1>8, Zenon
  <2> QED
    BY <2>1, <2>2, Zenon
<1> QED
  BY <1>4, <1>6, <1>7, <1>9, Zenon

-----------------------------------------------------------------------------
(* The state of IovaPages: the free addresses, the ranges handed out.      *)
FreeBar == {a \in 0..Top - 1 : Free(free_list, a)}
Pair(u) == [iova |-> u.iova, sz |-> u.sz]
LiveBar == {Pair(u) : u \in live}

(* No limit lies above the top of the address space.                       *)
LEMMA TopBounds ==
    ASSUME PageAssumption, LimitsAssumption
    PROVE  Top \in Nat /\ \A l \in Limits : l <= Top
<1>1. CASE Limits = {}
  BY <1>1, Zenon DEF Top
<1>2. CASE Limits # {}
  <2>1. PICK t \in Limits : \A m \in Limits : m <= t
    BY <1>2, Zenon DEF LimitsAssumption
  <2>2. Top \in Limits /\ \A m \in Limits : m <= Top
    BY <1>2, <2>1, Zenon DEF Top
  <2> QED
    BY <2>2, Zenon DEF PageAssumption
<1> QED
  BY <1>1, <1>2, Zenon

(* A block all of whose addresses lie between 0 and Top is a range of      *)
(* IovaPages, which counts the same addresses as its own.                  *)
LEMMA BlockRange ==
    ASSUME NEW b \in Block, Top \in Nat, \A a \in Nat : Covers(b, a) => 0 < a /\ a < Top
    PROVE  /\ Pair(b) \in Pages!Ranges
           /\ Pages!Addrs(Pair(b)) = {a \in 0..Top - 1 : Covers(b, a)}
           /\ Pages!Addrs(Pair(b)) # {}
<1>1. b.iova \in Nat /\ b.sz \in Nat \ {0}
  BY Zenon DEF Block
<1>2. Covers(b, b.iova) /\ Covers(b, b.iova + b.sz - 1) /\ b.iova + b.sz - 1 \in Nat
  BY <1>1 DEF Covers, End
<1>3. 0 < b.iova /\ b.iova < Top /\ b.iova + b.sz - 1 < Top
  BY <1>1, <1>2, Zenon
<1>4. Pair(b).iova = b.iova /\ Pair(b).sz = b.sz
  BY Zenon DEF Pair
<1>5. Pair(b) \in Pages!Ranges
  BY <1>1, <1>3 DEF Pair, Pages!Ranges
<1>6. Pages!Addrs(Pair(b)) = {a \in 0..Top - 1 : Covers(b, a)}
  BY <1>4, Zenon DEF Pages!Addrs, Covers, End
<1>7. b.iova \in 0..Top - 1
  BY <1>1, <1>3
<1> QED
  BY <1>2, <1>5, <1>6, <1>7, Zenon

(* The refinement mapping of Iova in these terms.                          *)
LEMMA Mapping ==
    /\ Pages!Init <=> FreeBar = {} /\ LiveBar = {}
    /\ UNCHANGED Pages!vars <=> UNCHANGED <<FreeBar, LiveBar>>
    /\ \A r : Pages!Create(r) <=> LiveBar = {} /\ FreeBar' = Pages!Addrs(r) /\ UNCHANGED LiveBar
    /\ \A r : Pages!Alloc(r) <=> /\ Pages!Addrs(r) # {} /\ Pages!Addrs(r) \subseteq FreeBar
                                 /\ FreeBar' = FreeBar \ Pages!Addrs(r) /\ LiveBar' = LiveBar \cup {r}
    /\ \A r : Pages!Reserve(r) <=> /\ Pages!Addrs(r) \subseteq FreeBar
                                   /\ FreeBar' = FreeBar \ Pages!Addrs(r) /\ UNCHANGED LiveBar
    /\ \A r : Pages!Free(r) <=> /\ r \in LiveBar
                                /\ FreeBar' = FreeBar \cup Pages!Addrs(r) /\ LiveBar' = LiveBar \ {r}
    /\ Pages!Shutdown <=> LiveBar = {} /\ FreeBar' = {} /\ UNCHANGED LiveBar
    /\ Pages!Next <=> \/ \E r \in Pages!Ranges : Pages!Create(r) \/ Pages!Alloc(r) \/ Pages!Reserve(r)
                      \/ \E r \in LiveBar : Pages!Free(r)
                      \/ Pages!Shutdown
<1>1. /\ FreeBar = {a \in 0..Top - 1 : \E i \in DOMAIN free_list :
                                          free_list[i].iova <= a /\ a < End(free_list[i])}
      /\ LiveBar = {[iova |-> u.iova, sz |-> u.sz] : u \in live}
  BY Zenon DEF FreeBar, LiveBar, Free, Covers, Pair
<1> QED
  BY <1>1, Zenon
  DEF Pages!Init, Pages!vars, Pages!Create, Pages!Alloc, Pages!Reserve, Pages!Free, Pages!Shutdown, Pages!Next,
      FreeBar, LiveBar, Free, Covers, Pair, End

(* Every step of the free list keeps to the domain, and is a step of       *)
(* IovaPages or changes nothing it can see.                                *)
LEMMA RefineStep ==
    ASSUME PageAssumption, LimitsAssumption, RefineInv, [Next]_vars
    PROVE  Bounded' /\ [Pages!Next]_(Pages!vars)
<1>0. Top \in Nat /\ \A l \in Limits : l <= Top
  BY TopBounds, Zenon
<1>a. IovaInv /\ Bounded /\ IovaInv'
  BY IovaInvStep, Zenon DEF RefineInv
<1>1. CASE UNCHANGED <<free_list, live>>
  <2>1. Bounded'
    BY <1>1, <1>a, Zenon DEF Bounded, Free, Covers, End
  <2>2. UNCHANGED <<FreeBar, LiveBar>>
    BY <1>1, Zenon DEF FreeBar, LiveBar, Free, Covers, End, Pair
  <2> QED
    BY <2>1, <2>2, Mapping, Zenon
<1>2. ASSUME NEW base \in Bases, NEW limit \in Limits, iovad_init(base, limit)
      PROVE  Bounded' /\ Pages!Next
  <2> DEFINE b == [iova |-> First(base), sz |-> limit - First(base)]
  <2>1. free_list' = <<b>> /\ live' = {} /\ live = {}
    BY <1>2, <1>a, Zenon DEF iovad_init, IovaInv, Shape
  <2>2. b \in Block /\ b.iova > 0 /\ End(b) = limit /\ limit \in Nat
    BY <1>2 DEF iovad_init, First, PageAssumption, Block, End
  <2> HIDE DEF b
  <2>3. \A a \in Nat : Free(free_list', a) <=> Covers(b, a)
    <3>1. DOMAIN <<b>> = {1} /\ <<b>>[1] = b
      OBVIOUS
    <3> QED
      BY <2>1, <3>1, Zenon DEF Free
  <2>4. \A a \in Nat : Covers(b, a) => 0 < a /\ a < Top
    BY <2>2, <1>0 DEF Covers, Block
  <2>5. Bounded'
    BY <2>1, <2>3, <2>4, Zenon DEF Bounded, Free, Covers, End
  <2>6. LiveBar = {} /\ LiveBar' = {}
    BY <2>1, Zenon DEF LiveBar
  <2>7. Pair(b) \in Pages!Ranges /\ Pages!Addrs(Pair(b)) = {a \in 0..Top - 1 : Covers(b, a)}
    BY <2>2, <2>4, <1>0, BlockRange, Zenon
  <2>8. FreeBar' = Pages!Addrs(Pair(b))
    BY <2>3, <2>7, <1>0 DEF FreeBar
  <2> QED
    BY <2>5, <2>6, <2>7, <2>8, Mapping, Zenon
<1>3. CASE iovad_shutdown
  <2>1. free_list' = <<>> /\ UNCHANGED live /\ live = {} /\ DOMAIN <<>> = {}
    BY <1>3 DEF iovad_shutdown
  <2>2. Bounded' /\ FreeBar' = {} /\ LiveBar = {} /\ UNCHANGED LiveBar
    BY <2>1, Zenon DEF Bounded, FreeBar, LiveBar, Free, Pair
  <2> QED
    BY <2>2, Mapping, Zenon
<1>4. ASSUME NEW addr \in Reserved, NEW size \in Sizes, iova_reserve(addr, size)
      PROVE  Bounded' /\ Pages!Next
  <2>1. PICK r \in Block :
              /\ \A a \in Nat : Covers(r, a) => Free(free_list, a)
              /\ \A a \in Nat : Free(free_list', a) <=> Free(free_list, a) /\ ~Covers(r, a)
    BY <1>4, <1>a, ReserveCovers, Zenon DEF PageAssumption
  <2>2. UNCHANGED live
    BY <1>4, Zenon DEF iova_reserve
  <2>3. Bounded'
    BY <2>1, <2>2, <1>a, Zenon DEF Bounded, Free, Covers, End
  <2>4. Pair(r) \in Pages!Ranges /\ Pages!Addrs(Pair(r)) = {a \in 0..Top - 1 : Covers(r, a)}
    BY <2>1, <1>0, <1>a, BlockRange, Zenon DEF Bounded
  <2>5. /\ Pages!Addrs(Pair(r)) \subseteq FreeBar
        /\ FreeBar' = FreeBar \ Pages!Addrs(Pair(r)) /\ UNCHANGED LiveBar
    BY <2>1, <2>2, <2>4, <1>0 DEF FreeBar, LiveBar, Pair
  <2> QED
    BY <2>3, <2>4, <2>5, Mapping, Zenon
<1>5. ASSUME NEW req \in Sizes, iova_alloc(req)
      PROVE  Bounded' /\ Pages!Next
  <2>1. PICK r \in Block :
              /\ \A a \in Nat : Covers(r, a) => Free(free_list, a)
              /\ \A a \in Nat : Free(free_list', a) <=> Free(free_list, a) /\ ~Covers(r, a)
              /\ live' = live \cup {[iova |-> r.iova, sz |-> r.sz, req |-> req]}
    BY <1>5, <1>a, AllocCovers, Zenon
  <2> DEFINE u == [iova |-> r.iova, sz |-> r.sz, req |-> req]
  <2>2. Pair(u) = Pair(r) /\ \A a \in Nat : Covers(u, a) <=> Covers(r, a)
    BY Zenon DEF Pair, Covers, End
  <2> HIDE DEF u
  <2>3. Bounded'
    BY <2>1, <2>2, <1>a, Zenon DEF Bounded, Free, Covers, End, u
  <2>4. /\ Pair(r) \in Pages!Ranges /\ Pages!Addrs(Pair(r)) # {}
        /\ Pages!Addrs(Pair(r)) = {a \in 0..Top - 1 : Covers(r, a)}
    BY <2>1, <1>0, <1>a, BlockRange, Zenon DEF Bounded
  <2>5. LiveBar' = LiveBar \cup {Pair(r)}
    BY <2>1, <2>2, Zenon DEF LiveBar, u, Pair
  <2>6. /\ Pages!Addrs(Pair(r)) \subseteq FreeBar
        /\ FreeBar' = FreeBar \ Pages!Addrs(Pair(r))
    BY <2>1, <2>4, <1>0 DEF FreeBar
  <2> QED
    BY <2>3, <2>4, <2>5, <2>6, Mapping, Zenon
<1>6. ASSUME NEW u \in live, iova_free(u), ~UNCHANGED <<free_list, live>>
      PROVE  Bounded' /\ Pages!Next
  <2>1. /\ \A a \in Nat : Free(free_list', a) <=> Free(free_list, a) \/ Covers(u, a)
        /\ live' = live \ {u}
    BY <1>6, <1>a, FreeCovers, Zenon
  <2>2. Bounded'
    BY <2>1, <1>a, Zenon DEF Bounded, Free, Covers, End
  <2>3. u \in Range /\ live \subseteq Range
    BY <1>a, Zenon DEF IovaInv, Shape
  <2>4. Pair(u) \in Block /\ Pair(u).iova = u.iova /\ Pair(u).sz = u.sz
    BY <2>3, Zenon DEF Pair, Range, Block
  <2>5. /\ \A a \in Nat : Covers(Pair(u), a) <=> Covers(u, a)
        /\ Pair(Pair(u)) = Pair(u)
    BY <2>4, Zenon DEF Covers, End, Pair
  <2>6. Pages!Addrs(Pair(u)) = {a \in 0..Top - 1 : Covers(u, a)}
    <3>1. Pages!Addrs(Pair(u)) = {a \in 0..Top - 1 : Covers(Pair(u), a)}
      BY <2>4, <2>5, <1>0, <1>a, BlockRange, Zenon DEF Bounded
    <3> QED
      BY <3>1, <2>5, <1>0
  <2>7. FreeBar' = FreeBar \cup Pages!Addrs(Pair(u))
    BY <2>1, <2>6, <1>0 DEF FreeBar
  <2>8. ASSUME NEW v \in live, v # u PROVE Pair(v) # Pair(u)
    <3>1. Apart(v, u) /\ v \in Range
      BY <2>3, <2>8, <1>a, Zenon DEF IovaInv, NoOverlap
    <3>2. v.iova = u.iova /\ v.sz = u.sz => FALSE
      BY <3>1, <2>3 DEF Apart, End, Range
    <3> QED
      BY <3>2, Zenon DEF Pair
  <2>9. Pair(u) \in LiveBar /\ LiveBar' = LiveBar \ {Pair(u)}
    BY <2>1, <2>8, Zenon DEF LiveBar, Pair
  <2> QED
    BY <2>2, <2>7, <2>9, Mapping, Zenon
<1> QED
  BY <1>1, <1>2, <1>3, <1>4, <1>5, <1>6, Zenon DEF Next, vars

(* The free list implements the set of free addresses (Implements): an     *)
(* allocation takes a free range, a reservation too, and iova_free gives   *)
(* back exactly what was taken, for domains and requests of any size.      *)
THEOREM ImplementsTheorem == Spec => Implements
<1>1. Init => RefineInv /\ Pages!Init
  <2>1. Init => IovaInv
    BY DEF Init, IovaInv, Shape, NoOverlap
  <2>2. Init => Bounded /\ FreeBar = {} /\ LiveBar = {}
    BY DEF Init, Bounded, FreeBar, LiveBar, Free
  <2> QED
    BY <2>1, <2>2, Mapping, Zenon DEF RefineInv
<1>2. RefineInv /\ [Next]_vars => RefineInv' /\ [Pages!Next]_(Pages!vars)
  BY IovaInvStep, RefineStep, PageAssumption, LimitsAssumption, Zenon DEF RefineInv
<1> QED
  BY <1>1, <1>2, PTL DEF Spec, Implements, Pages!Spec
=============================================================================
