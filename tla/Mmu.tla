------------------------------- MODULE Mmu -------------------------------
(* m1n1's own page tables (src/memory.c): the chunks a mapping is cut     *)
(* into, the default mappings, and the change of a live descriptor.       *)
(* Addresses are counted in pages, L2Pages of them to a level 2 entry and *)
(* L1Pages to a level 1 entry; the level 0 table is left out.  The four   *)
(* regions that map RAM again differ only in their permissions, and so do *)
(* the four mirrors of the MMIO space: one of each stands for them.       *)
EXTENDS Integers, FiniteSets, SequencesExt

CONSTANTS
  Machines,     \* the machines: what they are and where firmware put things
  L2Pages,      \* the pages of a level 2 entry
  L1Pages,      \* the pages of a level 1 entry
  RamBase,      \* the first page of RAM; the MMIO space lies below it
  RamPages,     \* the pages of RAM, carveouts included (mem_size_actual)
  MaxMaps       \* bound: mappings added or MMU switches after mmu_init

VARIABLES
  mc,           \* the machine, and the page whose cached translation is watched
  pt,           \* the three levels of descriptors
  on,           \* "no", "init" (in mmu_init), "yes", "off" or "panic": SCTLR_M
  todo,         \* the default mappings mmu_init has still to add
  op,           \* the mmu_add_mapping under way with the MMU on
  brk,          \* the descriptor it is writing
  tlb,          \* the translations of mc.watch some CPU may have cached
  want,         \* what the calls so far asked each page to translate to
  maps          \* mappings and switches so far

mmuVars == <<mc, pt, on, todo, op, brk, tlb, want, maps>>

MemAlias == RamPages                    \* | REGION_RW_EL0
Mirror == RamBase + 2 * RamPages        \* the MMIO space once more
PageSpace == 0 .. Mirror + RamBase - 1

Up(x, a) == ((x + a - 1) \div a) * a
Down(x, a) == (x \div a) * a

-----------------------------------------------------------------------------
(* Descriptors.  One without PTE_VALID is None, whatever its other bits. *)

None == [k |-> "none", to |-> 0, at |-> "-"]
TableAt == [k |-> "table", to |-> 0, at |-> "-"]
Leaf(to, at) == IF at = "unmapped" THEN None ELSE [k |-> "map", to |-> to, at |-> at]
Shift(e, n) == IF e.k = "map" THEN [e EXCEPT !.to = @ + n] ELSE None

Entries(pages) == 0 .. (Mirror + RamBase) \div pages - 1
EmptyTables ==
  [l1 |-> [i \in Entries(L1Pages) |-> None],
   l2 |-> [i \in Entries(L2Pages) |-> None],
   l3 |-> [i \in Entries(1) |-> None]]

(* The new level 2 table repeats the block it replaces in smaller blocks. *)
Level2Of(t, i) ==
  [j \in Entries(L2Pages) |-> IF (j * L2Pages) \div L1Pages # i THEN t.l2[j]
                         ELSE Shift(t.l1[i], j * L2Pages - i * L1Pages)]

mmu_pt_get_l2(t, from) ==
  LET i == from \div L1Pages
  IN IF t.l1[i] = TableAt THEN t
     ELSE [t EXCEPT !.l1 = (i :> TableAt) @@ @, !.l2 = Level2Of(t, i)]

Level3Of(t, i) ==
  [p \in Entries(1) |-> IF p \div L2Pages # i THEN t.l3[p]
                         ELSE Shift(t.l2[i], p - i * L2Pages)]

mmu_pt_get_l3(t, from) ==
  LET s == mmu_pt_get_l2(t, from)
      i == from \div L2Pages
  IN IF s.l2[i] = TableAt THEN s
     ELSE [s EXCEPT !.l2 = (i :> TableAt) @@ @, !.l3 = Level3Of(s, i)]

(* One round of each mmu_pt_map_l*: the descriptor of `from`, MMU off. *)
mmu_pt_map_l1(t, from, e) == [t EXCEPT !.l1 = (from \div L1Pages :> e) @@ @]
mmu_pt_map_l2(t, from, e) ==
  [mmu_pt_get_l2(t, from) EXCEPT !.l2 = (from \div L2Pages :> e) @@ @]
mmu_pt_map_l3(t, from, e) == [mmu_pt_get_l3(t, from) EXCEPT !.l3 = (from :> e) @@ @]

(* The walk of the hardware: the translation of a page and its level. *)
Walk(t, p) ==
  LET e1 == t.l1[p \div L1Pages]
      e2 == t.l2[p \div L2Pages]
      e3 == t.l3[p]
      Found(e, lvl, first) == [to |-> Shift(e, p - first).to, at |-> e.at, level |-> lvl]
  IN IF e1 # TableAt THEN Found(e1, 1, Down(p, L1Pages))
     ELSE IF e2 # TableAt THEN Found(e2, 2, Down(p, L2Pages))
     ELSE Found(e3, 3, p)
Mapped(r) == r.at # "-"

-----------------------------------------------------------------------------
(* memory_fw_ro_range: pages ro .. ro + 2 of the T8140's firmware; mc.ro =  *)
(* 0 is a range that fails one of its tests.                               *)

memory_fw_ro_range == IF mc.chip # "T8140" THEN 0 ELSE IF mc.ro = 0 THEN -1 ELSE 1

(* Whether the level 2 block at `target` reaches into the range. *)
MeetsRo(target) == target < mc.ro + 3 /\ target + L2Pages > mc.ro

SplitRo(target, at) ==
  at # "unmapped" /\ memory_fw_ro_range > 0 /\ MeetsRo(target)

(* Where the first level 3 stretch of a mapping ends: at a level 2 boundary, *)
(* but nothing of RAM below m1n1's own base is mapped in blocks.             *)
BoundaryL2(from) ==
  LET b == Up(from, L2Pages)
  IN IF b >= RamBase /\ b < mc.base THEN Up(mc.base, L2Pages) ELSE b

(* The level at which mmu_map maps the page at offset o of a mapping. *)
LevelAt(from, to, n, at, o) ==
  LET n3 == Min({n, BoundaryL2(from) - from})
      big == on # "yes" /\ mc.chip = "4K"
      n2 == IF big THEN Min({Down(n - n3, L1Pages), Up(from + n3, L1Pages) - (from + n3)})
            ELSE 0
      n1 == IF big /\ (to + n3 + n2) % L1Pages = 0 THEN Down(n - n3 - n2, L1Pages) ELSE 0
      at2 == n3 + n2 + n1
      blocks == IF on # "yes" /\ (to + at2) % L2Pages = 0 THEN Down(n - at2, L2Pages) ELSE 0
  IN CASE o < n3 -> 3
       [] o >= n3 /\ o < n3 + n2 -> 2
       [] o >= n3 + n2 /\ o < at2 -> 1
       [] o >= at2 /\ o < at2 + blocks ->
            IF SplitRo(to + at2 + Down(o - at2, L2Pages), at) THEN 3 ELSE 2
       [] OTHER -> 3

(* mmu_map with the MMU off, from the page at offset o of the mapping c. *)
RECURSIVE MapFrom(_, _, _)
MapFrom(t, c, o) ==
  LET level == LevelAt(c.from, c.to, c.n, c.at, o)
      from == c.from + o
      e == Leaf(c.to + o, c.at)
  IN CASE o = c.n -> t
       [] o < c.n /\ level = 3 -> MapFrom(mmu_pt_map_l3(t, from, e), c, o + 1)
       [] o < c.n /\ level = 2 -> MapFrom(mmu_pt_map_l2(t, from, e), c, o + L2Pages)
       [] o < c.n /\ level = 1 -> MapFrom(mmu_pt_map_l1(t, from, e), c, o + L1Pages)

mmu_map(t, c) == MapFrom(t, c, 0)

Mapping(from, to, n, at) == [from |-> from, to |-> to, n |-> n, at |-> at]

Asked(w, c) ==
  [p \in PageSpace |-> IF p \in c.from .. c.from + c.n - 1
                       THEN Leaf(c.to + p - c.from, c.at) ELSE w[p]]

-----------------------------------------------------------------------------
(* The default mappings, in the order mmu_add_default_mappings adds them.  *)
(* m1n1 lies at mc.base: a page of code, the page shared with CPUs that    *)
(* have their MMU off, the guard page below the main stack, then the heap. *)

mmu_map_mmio == <<Mapping(0, 0, RamBase, "nGnRnE")>>
mmu_remap_ranges == <<Mapping(1, 1, 1, "nGnRE")>>

mmu_remap_smp_shared ==
  IF mc.chip = "T8152" THEN <<>>
  ELSE <<Mapping(mc.base + 1, mc.base + 1, 1, "nGnRnE"),
         Mapping(mc.base + 1 + MemAlias, mc.base + 1, 1, "nGnRnE")>>

(* mc.carve: the memory controller is known and so are its carveouts. *)
mcc_unmap_carveouts ==
  LET carveout == RamBase + RamPages - 1
  IN IF ~mc.carve THEN <<>>
     ELSE <<Mapping(carveout, 0, 1, "unmapped"),
            Mapping(carveout + MemAlias, 0, 1, "unmapped")>>

mmu_add_default_mappings ==
  mmu_map_mmio
  \o <<Mapping(RamBase, RamBase, RamPages, "RWX")>>
  \o mcc_unmap_carveouts
  \o <<Mapping(mc.base, mc.base, 1, "RX_EL0"),
       Mapping(mc.base + 2, 0, 1, "unmapped"),
       Mapping(RamBase + MemAlias, RamBase, RamPages - 1, "RW_EL0"),
       Mapping(Mirror, 0, RamBase, "GRE")>>
  \o mmu_remap_ranges
  \o mmu_remap_smp_shared

mmu_init ==
  /\ on \in {"no", "off"} /\ op.n = 0 /\ maps < MaxMaps
  /\ maps' = IF on = "no" THEN 0 ELSE maps + 1
  /\ IF memory_fw_ro_range < 0 \/ (mc.chip = "T8140" /\ ~mc.carve)
     THEN on' = "panic" /\ UNCHANGED <<pt, todo, want>>
     ELSE /\ on' = "init" /\ todo' = mmu_add_default_mappings
          /\ pt' = EmptyTables /\ want' = [p \in PageSpace |-> None]
  /\ UNCHANGED <<mc, op, brk, tlb>>

DefaultMapping ==
  /\ todo # <<>>
  /\ pt' = mmu_map(pt, Head(todo)) /\ want' = Asked(want, Head(todo))
  /\ todo' = Tail(todo)
  /\ UNCHANGED <<mc, on, op, brk, tlb, maps>>

(* mmu_configure and the write of SCTLR. *)
mmu_configure ==
  /\ on = "init" /\ todo = <<>>
  /\ on' = "yes" /\ tlb' = {}
  /\ UNCHANGED <<mc, pt, todo, op, brk, want, maps>>

(* mmu_disable, mmu_shutdown and mmu_restore. *)
Switch ==
  /\ on \in {"yes", "off"} /\ op.n = 0 /\ maps < MaxMaps
  /\ on' = (IF on = "yes" THEN "off" ELSE "yes")
  /\ maps' = maps + 1
  /\ UNCHANGED <<mc, pt, todo, op, brk, tlb, want>>

-----------------------------------------------------------------------------
(* mmu_add_mapping: a framebuffer, the page of a reset vector, the pages  *)
(* of a secondary's trampoline.  With the MMU on every page goes through  *)
(* mmu_write_descriptor at level 3.                                       *)

NoOp == Mapping(0, 0, 0, "-")
Idle == [lvl |-> 0, i |-> 0, val |-> None, st |-> "idle"]

mmu_add_mapping(c) ==
  /\ on \in {"yes", "off"} /\ op.n = 0 /\ maps < MaxMaps
  /\ want' = Asked(want, c)
  /\ maps' = maps + 1
  /\ IF on = "yes" THEN op' = c /\ UNCHANGED <<pt, tlb>>
     ELSE pt' = mmu_map(pt, c) /\ tlb' = {} /\ UNCHANGED op
  /\ UNCHANGED <<mc, on, todo, brk>>

Descriptor(lvl, i) == CASE lvl = 1 -> pt.l1[i] [] lvl = 2 -> pt.l2[i] [] lvl = 3 -> pt.l3[i]

(* mmu_write_descriptor up to its first store. *)
Begin(lvl, i, val) ==
  brk' = [lvl |-> lvl, i |-> i, val |-> val,
          st |-> IF Descriptor(lvl, i) = None THEN "make" ELSE "break"]

(* The next page of the mapping: its tables first, then its descriptor. *)
Advance == op' = [op EXCEPT !.from = @ + 1, !.to = @ + 1, !.n = @ - 1]

PageStep ==
  /\ op.n > 0 /\ brk = Idle
  /\ LET i1 == op.from \div L1Pages
         i2 == op.from \div L2Pages
         e == Leaf(op.to, op.at)
     IN \/ /\ pt.l1[i1] # TableAt
           /\ pt' = [pt EXCEPT !.l2 = Level2Of(pt, i1)]
           /\ Begin(1, i1, TableAt) /\ UNCHANGED <<op, tlb>>
        \/ /\ pt.l1[i1] = TableAt /\ pt.l2[i2] # TableAt
           /\ pt' = [pt EXCEPT !.l3 = Level3Of(pt, i2)]
           /\ Begin(2, i2, TableAt) /\ UNCHANGED <<op, tlb>>
        \/ /\ pt.l1[i1] = TableAt /\ pt.l2[i2] = TableAt /\ pt.l3[op.from] # e
           /\ Begin(3, op.from, e) /\ UNCHANGED <<pt, op, tlb>>
        \/ /\ pt.l1[i1] = TableAt /\ pt.l2[i2] = TableAt /\ pt.l3[op.from] = e
           /\ Advance /\ UNCHANGED <<pt, brk>>
           /\ tlb' = IF op.n = 1 THEN {} ELSE tlb
  /\ UNCHANGED <<mc, on, todo, want, maps>>

Put(val) ==
  pt' = CASE brk.lvl = 1 -> [pt EXCEPT !.l1 = (brk.i :> val) @@ @]
          [] brk.lvl = 2 -> [pt EXCEPT !.l2 = (brk.i :> val) @@ @]
          [] brk.lvl = 3 -> [pt EXCEPT !.l3 = (brk.i :> val) @@ @]

(* mmu_write_descriptor, a store or an invalidation at a time. *)
mmu_write_descriptor ==
  /\ \/ brk.st = "break" /\ Put(None) /\ brk' = [brk EXCEPT !.st = "flush"] /\ UNCHANGED tlb
     \/ brk.st = "flush" /\ brk' = [brk EXCEPT !.st = "make"] /\ tlb' = {} /\ UNCHANGED pt
     \/ brk.st = "make" /\ Put(brk.val) /\ brk' = [brk EXCEPT !.st = "publish"] /\ UNCHANGED tlb
     \/ brk.st = "publish" /\ brk' = Idle /\ tlb' = {} /\ UNCHANGED pt
  /\ UNCHANGED <<mc, on, todo, op, want, maps>>

(* A CPU walks the tables for the watched page and caches what it finds. *)
Cache ==
  /\ on = "yes" /\ Mapped(Walk(pt, mc.watch))
  /\ tlb' = tlb \cup {Walk(pt, mc.watch)}
  /\ UNCHANGED <<mc, pt, on, todo, op, brk, want, maps>>

(* The page through which the descriptor is stored: the tables lie in the  *)
(* heap, at mc.heap, and a store for an identity mapping uses their alias  *)
(* (mutant: it uses the identity mapping).                                 *)
EntryPageIdentity == mc.heap
EntryPage == IF op.from < RamBase + RamPages \/ op.from >= Mirror
             THEN mc.heap + MemAlias ELSE mc.heap

Init ==
  /\ mc \in Machines
  /\ pt = EmptyTables /\ on = "no" /\ todo = <<>> /\ op = NoOp /\ brk = Idle /\ tlb = {}
  /\ want = [p \in PageSpace |-> None] /\ maps = 0

Next ==
  \/ mmu_init \/ DefaultMapping \/ mmu_configure \/ Switch \/ PageStep \/ mmu_write_descriptor \/ Cache
  \/ \E c \in mc.calls : mmu_add_mapping(c)

Spec == Init /\ [][Next]_mmuVars

-----------------------------------------------------------------------------
(* Between calls every page translates to what the last call that named it *)
(* asked for (mmu_map): cutting a range into levels, splitting a block and *)
(* replacing a table by a block lose nothing and map nothing else.         *)
MapExact ==
  op.n = 0 => \A p \in PageSpace :
                LET r == Walk(pt, p) IN [to |-> r.to, at |-> r.at]
                                        = [to |-> want[p].to, at |-> want[p].at]

(* No CPU sees two translations of a page, or one translation at two       *)
(* levels, while a live descriptor is replaced (mmu_write_descriptor), and *)
(* none is left behind in a TLB once the call is over.                     *)
BreakBeforeMake ==
  on = "yes" =>
    LET now == {r \in {Walk(pt, mc.watch)} : Mapped(r)}
    IN Cardinality(tlb \cup now) <= 1 /\ (op.n = 0 => tlb \subseteq now)

(* The page through which a descriptor is stored is mapped when it is      *)
(* stored, even when the descriptor being broken is the one that maps it   *)
(* ("Keep the table writable if its identity mapping is the block being    *)
(* broken", mmu_write_descriptor).                                         *)
TableReachable == brk.st \in {"break", "make"} => Mapped(Walk(pt, EntryPage))

(* No block reaches into the firmware's read-only pages through any alias, *)
(* nor lies in RAM below m1n1's base (mmu_map).                            *)
BlocksSplit ==
  on \in {"yes", "off"} =>
    \A p \in PageSpace :
      LET r == Walk(pt, p) IN
      Mapped(r) /\ r.level < 3 =>
        /\ p \notin RamBase .. mc.base - 1
        /\ memory_fw_ro_range > 0 => ~MeetsRo(Down(r.to, L2Pages))
=============================================================================
