-------------------------------- MODULE Dart --------------------------------
(***************************************************************************)
(* The I/O memory management units, src/dart.c: one stream of one DART,    *)
(* opened with its page tables kept or built anew, mapped, searched and    *)
(* closed.  A table has W entries (2048 in the code); an I/O page v has    *)
(* entry v % W of the second-level table at entry v \div W of the first    *)
(* level.  Pages stay in the 36-bit window of the first translation root,  *)
(* which is all the callers use; a T8020 or T6000 has further roots.       *)
(*                                                                         *)
(* Tables are numbers: 1 is the root the firmware left, Region the tables  *)
(* of its pt-region, the rest comes from the heap.  The device walks the   *)
(* tables at any time and keeps what it found until it is told to forget.  *)
(* A handle is bad once free has been given what is no block of the heap;  *)
(* no call is modelled after that.                                         *)
(***************************************************************************)
EXTENDS Integers, Sequences, FiniteSets, SequencesExt

CONSTANTS
    W,              \* entries of a table
    Region,         \* second-level tables of the firmware's pt-region
    Heap,           \* tables the heap can give
    Frames,         \* physical pages
    Machines,       \* records [type, keep, locked, provisioned, region, clobbered]
    MaxOps          \* bound: calls

VARIABLES
    mach,           \* the machine, fixed
    tab,            \* contents of every table
    alloc,          \* tables taken from the heap
    hw,             \* the stream: translating or not, its roots, what it has cached
    dart,           \* the handle, or Closed
    flat,           \* the page map the calls promise
    ops
vars == <<mach, tab, alloc, hw, dart, flat, ops>>

Pages == 0..W * W - 1
Tables == {1} \cup Region \cup Heap
Empty == [i \in 0..W - 1 |-> 0]
Closed == [open |-> FALSE, bad |-> FALSE]
Roots == 0..IF mach.type = "t8020" THEN 1 ELSE 0    \* ttbr_count, four or one
ERR == -1

\* dart_translate_internal over a root
Translation(t, root, v) == IF root = 0 \/ t[root][v \div W] = 0 THEN 0 ELSE t[t[root][v \div W]][v % W]

\* The firmware's stream: with its root, a mapped page, and possibly two entries for one table
FirmwareTables(m) ==
    LET fwl2 == Min(Region) IN
    [t \in Tables |->
        CASE t = 1 /\ m.provisioned -> [Empty EXCEPT ![0] = fwl2, ![1] = IF m.clobbered THEN fwl2 ELSE 0]
          [] t = fwl2 /\ m.provisioned -> [Empty EXCEPT ![0] = Min(Frames)]
          [] OTHER -> Empty]

Init ==
    /\ mach \in Machines
    /\ tab = FirmwareTables(mach)
    /\ alloc = {} /\ dart = Closed /\ ops = 0
    /\ hw = [on |-> mach.provisioned, ttbr |-> [i \in Roots |-> IF i = 0 /\ mach.provisioned THEN 1 ELSE 0], tlb |-> {}]
    /\ flat = [v \in Pages |-> Translation(tab, hw.ttbr[0], v)]

-----------------------------------------------------------------------------
(* Opening                                                                 *)

\* The registers that get a root, of a DART whose firmware left the roots old
Missing(old) == IF mach.locked THEN {} ELSE {i \in Roots : old[i] = 0}

\* A root from the heap for each register of got
NewRoots(old, got) ==
    LET free == SetToSortSeq(Heap \ alloc, <) IN
    [i \in Roots |-> IF i \in got THEN free[Cardinality({j \in got : j <= i})] ELSE old[i]]

\* A locked DART takes no new root.  got is what memalign could give: with less than all, the roots written stay in
\* their registers, nothing is invalidated, and the error path frees the array in the handle (dart->l1)
dart_init(keep) ==
    LET old == [i \in Roots |-> IF mach.locked \/ keep THEN hw.ttbr[i] ELSE 0] IN
    /\ mach.type # "gen3"
    /\ \E got \in {{i \in Missing(old) : i < n} : n \in Roots \cup {Cardinality(Roots)}} :
          LET l1 == NewRoots(old, got)
              ok == got = Missing(old) IN
          /\ Cardinality(got) <= Cardinality(Heap \ alloc)
          /\ dart' = IF ok THEN [open |-> TRUE, bad |-> FALSE, keep |-> keep, locked |-> mach.locked, l1 |-> l1]
                           ELSE [Closed EXCEPT !.bad = TRUE]
          /\ tab' = [t \in Tables |-> IF \E i \in got : l1[i] = t THEN Empty ELSE tab[t]]
          /\ alloc' = alloc \cup {l1[i] : i \in got}
          /\ hw' = [on |-> hw.on \/ (ok /\ ~mach.locked /\ ~keep),
                    ttbr |-> [i \in Roots |-> IF i \in got THEN l1[i] ELSE hw.ttbr[i]],
                    tlb |-> IF ok /\ ~mach.locked /\ ~keep THEN {} ELSE hw.tlb]
          /\ flat' = [v \in Pages |-> IF 0 \in got THEN 0 ELSE flat[v]]

\* A Gen3 stream is only adopted, when the firmware left it translating
dart_gen3_adopt_adt(keep) ==
    /\ mach.type = "gen3" /\ keep /\ mach.provisioned
    /\ dart' = [open |-> TRUE, bad |-> FALSE, keep |-> TRUE, locked |-> mach.locked, l1 |-> hw.ttbr]
    /\ UNCHANGED <<tab, alloc, hw, flat>>

\* The user of a DART either always keeps its tables (display) or never does (USB)
dart_init_adt ==
    /\ ~dart.open
    /\ dart_init(mach.keep) \/ dart_gen3_adopt_adt(mach.keep)
    /\ UNCHANGED mach

\* dart_lock_adt, before the hand-off: a handle that is open keeps its own idea of the lock
dart_lock_adt ==
    /\ mach.type # "gen3" /\ ~mach.locked /\ ~dart.open
    /\ mach' = [mach EXCEPT !.locked = TRUE]
    /\ UNCHANGED <<tab, alloc, hw, dart, flat>>

-----------------------------------------------------------------------------
(* Mapping.  m = [tab, alloc]: the tables and what the heap has given      *)

M == [tab |-> tab, alloc |-> alloc]

\* The second-level table of a page, taken from the heap when there is none; 0: no memory
dart_get_l2(m, v) ==
    LET root == dart.l1[0]
        free == Heap \ m.alloc IN
    CASE root = 0 -> [l2 |-> 0, m |-> m]
      [] root # 0 /\ m.tab[root][v \div W] # 0 -> [l2 |-> m.tab[root][v \div W], m |-> m]
      [] root # 0 /\ m.tab[root][v \div W] = 0 /\ free = {} -> [l2 |-> 0, m |-> m]
      [] OTHER -> [l2 |-> Min(free),
                   m |-> [tab |-> [m.tab EXCEPT ![Min(free)] = Empty, ![root][v \div W] = Min(free)],
                          alloc |-> m.alloc \cup {Min(free)}]]

dart_map_page(m, v, f) ==
    LET g == dart_get_l2(m, v) IN
    IF g.l2 = 0 \/ g.m.tab[g.l2][v % W] # 0 THEN [ok |-> FALSE, m |-> g.m]
    ELSE [ok |-> TRUE, m |-> [g.m EXCEPT !.tab[g.l2][v % W] = f]]

dart_unmap_page(m, v) ==
    LET l2 == m.tab[dart.l1[0]][v \div W] IN
    IF l2 = 0 THEN m ELSE [m EXCEPT !.tab[l2][v % W] = 0]

\* Unmaps the first n pages
UnmapRange(m, v, n) == [m EXCEPT !.tab =
    LET step[k \in 0..n] == IF k = 0 THEN m ELSE dart_unmap_page(step[k - 1], v + k - 1) IN step[n].tab]

\* mutant: the page that failed is taken back too
dart_map_rollback_too_far(m, v, k) == UnmapRange(m, v, k)

\* What a failed dart_map_flags takes back: the pages before the one that failed
dart_map_rollback(m, v, k) == UnmapRange(m, v, k - 1)

\* Page by page; when one fails the earlier ones are taken back
dart_map_flags(m, v, f, n) ==
    LET step[k \in 0..n] ==
            IF k = 0 THEN [ok |-> TRUE, m |-> m, at |-> 0]
            ELSE LET p == step[k - 1]
                     q == dart_map_page(p.m, v + k - 1, f + k - 1) IN
                 IF ~p.ok THEN p ELSE [ok |-> q.ok, m |-> q.m, at |-> k]
        last == step[n] IN
    IF last.ok THEN last ELSE [last EXCEPT !.m = dart_map_rollback(last.m, v, last.at)]

Forget(h) == [h EXCEPT !.tlb = {}]

\* Callers map page-aligned buffers; a locked DART refuses
Map ==
    \E v \in Pages, n \in 1..W, f \in Frames :
       /\ dart.open /\ ~dart.locked
       /\ v + n - 1 \in Pages /\ f + n - 1 \in Frames
       /\ LET r == dart_map_flags(M, v, f, n) IN
          /\ tab' = r.m.tab /\ alloc' = r.m.alloc
          /\ hw' = IF r.ok \/ r.at > 0 THEN Forget(hw) ELSE hw
          /\ flat' = IF r.ok THEN [p \in Pages |-> IF p \in v..v + n - 1 THEN f + p - v ELSE flat[p]] ELSE flat
       /\ UNCHANGED <<mach, dart>>

dart_unmap(v, n) ==
    /\ dart.open /\ ~dart.locked /\ dart.l1[0] # 0
    /\ tab' = UnmapRange(M, v, n).tab
    /\ hw' = Forget(hw)

Unmap ==
    \E v \in Pages, n \in 1..W :
       /\ v + n - 1 \in Pages
       /\ dart_unmap(v, n)
       /\ flat' = [p \in Pages |-> IF p \in v..v + n - 1 THEN 0 ELSE flat[p]]
       /\ UNCHANGED <<mach, alloc, dart>>

\* A second-level table is freed once it is empty, whether it came from the heap or is one of the firmware's
dart_free_l2(i) ==
    LET l2 == tab[dart.l1[0]][i] IN
    IF l2 = 0 \/ \E e \in 0..W - 1 : tab[l2][e] # 0 THEN [tab |-> tab, alloc |-> alloc, bad |-> FALSE]
    ELSE [tab |-> [tab EXCEPT ![dart.l1[0]][i] = 0], alloc |-> alloc \ {l2}, bad |-> l2 \notin Heap]

\* Called by iovad_shutdown for each L2 span of the domain
FreeL2 ==
    \E i \in 0..W - 1 :
       /\ dart.open /\ ~dart.locked /\ dart.l1[0] # 0
       /\ tab' = dart_free_l2(i).tab /\ alloc' = dart_free_l2(i).alloc
       /\ dart' = [dart EXCEPT !.bad = dart_free_l2(i).bad]
       /\ UNCHANGED <<mach, hw, flat>>

\* The first second-level tables come from the firmware's region, above the highest one in use; an
\* entry that repeats another's table is cleared
dart_setup_pt_region ==
    LET root == dart.l1[0]
        used == {tab[root][i] : i \in 0..W - 1} \cap Region
        free == {t \in Region \ {Min(Region)} : \A u \in used : t > u}
        set(i, n) == [n EXCEPT !.tab =
            IF n.tab[root][i] # 0
            THEN IF \E j \in 0..W - 1 : j # i /\ n.tab[root][j] = n.tab[root][i] THEN [n.tab EXCEPT ![root][i] = 0] ELSE n.tab
            ELSE IF n.left = {} THEN n.tab ELSE [n.tab EXCEPT ![Min(n.left)] = Empty, ![root][i] = Min(n.left)],
                              !.left = IF n.tab[root][i] # 0 \/ @ = {} THEN @ ELSE @ \ {Min(@)},
                              !.ok = @ /\ (n.tab[root][i] # 0 \/ n.left # {})]
        first == set(0, [tab |-> tab, left |-> free, ok |-> TRUE])
        end == IF first.ok THEN set(1, first) ELSE first IN
    /\ dart.open /\ ~dart.locked /\ mach.region /\ root # 0
    /\ tab' = end.tab
    /\ hw' = IF end.ok THEN Forget(hw) ELSE hw
    /\ flat' = [v \in Pages |-> IF tab[root][v \div W] # 0 /\ end.tab[root][v \div W] = 0 THEN 0 ELSE flat[v]]
    /\ UNCHANGED <<mach, alloc, dart>>

\* A kept or locked stream is left as it is; otherwise the device stops before the tables go
dart_shutdown ==
    LET mine == {dart.l1[i] : i \in Roots} \cap Heap
        l2s == {tab[dart.l1[0]][i] : i \in 0..W - 1} \cap Heap IN
    /\ dart.open
    /\ dart' = Closed
    /\ IF dart.locked \/ dart.keep THEN UNCHANGED <<tab, alloc, hw, flat>>
       ELSE /\ hw' = [on |-> FALSE, ttbr |-> [i \in Roots |-> IF dart.l1[i] \in Heap THEN 0 ELSE hw.ttbr[i]], tlb |-> {}]
            /\ tab' = tab
            /\ alloc' = alloc \ (mine \cup l2s)
            /\ flat' = [v \in Pages |-> 0]
    /\ UNCHANGED mach

\* The device uses a page it has a translation for and keeps it
Walk ==
    \E v \in Pages :
       /\ hw.on /\ Translation(tab, hw.ttbr[0], v) # 0
       /\ hw' = [hw EXCEPT !.tlb = @ \cup {<<v, Translation(tab, hw.ttbr[0], v)>>}]
       /\ UNCHANGED <<mach, tab, alloc, dart, flat, ops>>

Call == dart_init_adt \/ dart_lock_adt \/ Map \/ Unmap \/ FreeL2 \/ dart_setup_pt_region \/ dart_shutdown
Next == (ops < MaxOps /\ ~dart.bad /\ Call /\ ops' = ops + 1) \/ Walk
Spec == Init /\ [][Next]_vars

-----------------------------------------------------------------------------
(* Searching                                                               *)

At(v) == IF v \in Pages THEN Translation(tab, dart.l1[0], v) ELSE 0

\* The first I/O page from which n pages map the n frames from f on
dart_search_range(f, n) ==
    LET found == {v \in Pages : At(v) = f /\ \A k \in 1..n - 1 : At(v + k) = f + k} IN
    IF found = {} THEN ERR ELSE Min(found)

\* An I/O page of a frame, where the last entry of a table is never looked at
dart_search(f) ==
    LET found == {v \in Pages : v \div W < W - 1 /\ v % W < W - 1 /\ At(v) = f} IN
    IF found = {} THEN ERR ELSE Min(found)

\* The first hole of n pages: a hole that is too short is skipped with the page that ends it
dart_find_iova(start, n) ==
    LET hole(v) == Min({k \in 1..n : k = n \/ At(v + k) # 0})
        next(v) == IF At(v) # 0 THEN v + 1 ELSE v + hole(v) + 1
        scan[v \in 0..W * W + W + 1] ==
            IF v + n > W * W THEN ERR ELSE IF At(v) = 0 /\ hole(v) = n THEN v ELSE scan[next(v)] IN
    scan[start]

-----------------------------------------------------------------------------
(* Properties                                                              *)

\* The device sees the page map the calls have built: a dart_map that failed half way has left no
\* page behind and taken none of another mapping, dart_unmap has removed its pages and nothing
\* else, and no translation the device has cached outlives the mapping (dart_map_flags, dart_unmap),
\* until a dart_init that runs out of memory replaces a root and invalidates nothing.
TranslationAgrees ==
    ~mach.clobbered =>
       /\ \A v \in Pages : Translation(tab, hw.ttbr[0], v) = flat[v]
       /\ dart.open \/ ~dart.bad => \A c \in hw.tlb : flat[c[1]] = c[2]

\* Every table taken from the heap hangs once in the tables the device walks, and every table the
\* device can reach is alive: none is freed while in use, none is lost, and after dart_shutdown none
\* is left (dart_get_l2, dart_free_l2, dart_shutdown), up to a dart_init that runs out of memory or a
\* dart_free_l2 of a table of the firmware's, at which free is called for what is not of the heap.
TablesOwned ==
    LET roots == {hw.ttbr[i] : i \in Roots} \ {0}
        refs == {<<r, i>> \in roots \X (0..W - 1) : tab[r][i] # 0} IN
    /\ (roots \cup {tab[x[1]][x[2]] : x \in refs}) \cap Heap = alloc
    /\ \A x, y \in refs : x # y /\ tab[x[1]][x[2]] = tab[y[1]][y[2]] => mach.clobbered

\* A search answers for the tables as they are: dart_find_iova with a range where every page can be
\* mapped, dart_search_range with one that maps the whole buffer, and neither misses one that exists
\* above the start it was given.  (dart_search may miss one in the last entry of a table, and is right
\* when it does not.)
SearchExact ==
    dart.open /\ dart.l1[0] # 0 =>
       \A n \in 1..W :
          /\ \A f \in Frames : dart_search(f) # ERR => At(dart_search(f)) = f
          /\ \A f \in Frames : LET r == dart_search_range(f, n) IN
                IF r = ERR THEN \A v \in Pages : \E k \in 0..n - 1 : v + k \notin Pages \/ At(v + k) # f + k
                ELSE \A k \in 0..n - 1 : At(r + k) = f + k
          /\ \A s \in Pages : LET r == dart_find_iova(s, n) IN
                IF r = ERR THEN \A v \in s..W * W - n : \E k \in 0..n - 1 : At(v + k) # 0
                ELSE r >= s /\ \A k \in 0..n - 1 : r + k \in Pages /\ At(r + k) = 0
=============================================================================
