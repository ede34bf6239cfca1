-------------------------------- MODULE HvVm --------------------------------
(***************************************************************************)
(* The stage-2 page tables of the hypervisor and the emulation of the      *)
(* accesses that they make abort (src/hv/hv_vm.c).  A block of memory is   *)
(* mapped by an entry of the L2 table or by an L3 table; a page by an      *)
(* entry of that or by an L4 table, which only software reads; a word by   *)
(* an entry of that.  Tables come and go as hv_map splits and joins        *)
(* mappings.  Addresses are numbers of words; all of it runs under the     *)
(* lock of the hypervisor.                                                 *)
(***************************************************************************)
EXTENDS Integers, Sequences, FiniteSets, SequencesExt

CONSTANTS
    W, P, B,        \* words of a page, pages of a block, blocks
    Leaves,         \* what is mapped: records of k ("hw", "map", "hook"), to, ro
    ram_base, base, \* below base, down to ram_base, blocks are not mapped whole; words
    Pool,           \* the pages of the shadow tables, mapped read-only (hv_sprr.c)
    Accesses,       \* the guest's accesses: records of addr (in bytes), bytes, write, and wb: it moves its base register
    MaxMaps, MaxProtects, MaxAborts

VARIABLES
    l2,             \* block -> entry
    mem,            \* what should be mapped: the memory of HvFlat, which is told of the same calls
    allocated,      \* the number of L3 and L4 tables allocated
    pt,             \* the guest's table pages under watch (hv_sprr.c)
    fault,          \* an access that has aborted, and where; the CPU waits for the lock
    last,           \* how the last abort has ended
    maps, protects, aborts

vars == <<l2, mem, allocated, pt, fault, last, maps, protects, aborts>>

Words == 0..W * P * B - 1
Page(a) == a \div W
Block(a) == a \div (W * P)

Flat == INSTANCE HvFlat
Nothing == Flat!Nothing
Step(leaf, d) == Flat!Step(leaf, d)
BySoftware(leaf) == Flat!BySoftware(leaf)

\* An entry is a leaf or refers to a table
Entry(leaf) == [leaf |-> leaf, sub |-> <<>>]
Table(f) == [leaf |-> Nothing, sub |-> f]
IsTable(e) == e.sub # <<>>

NoFault == [addr |-> 0, bytes |-> 0, write |-> FALSE, wb |-> FALSE, far |-> 0]
NoResult == [res |-> "none", acc |-> NoFault, ops |-> <<>>, regs |-> FALSE]

\* hv_pt_init
Init ==
    /\ Flat!Init
    /\ l2 = [b \in 0..B - 1 |-> Entry(Nothing)]
    /\ allocated = 0
    /\ pt = {}
    /\ fault = NoFault /\ last = NoResult
    /\ maps = 0 /\ protects = 0 /\ aborts = 0

-----------------------------------------------------------------------------
(* Tables.  t is a record of l2 and the number of tables n.                *)

ForEach(n, Op(_, _), t) == FoldLeft(Op, t, [i \in 1..n |-> i - 1])

\* hv_pt_free_l3: with its L4 tables
Freed(e) == IF IsTable(e) THEN 1 + Cardinality({p \in DOMAIN e.sub : IsTable(e.sub[p])}) ELSE 0

\* hv_pt_get_l3, which splits a block
hv_pt_get_l3(t, b) ==
    IF IsTable(t.l2[b]) THEN t
    ELSE [l2 |-> [t.l2 EXCEPT ![b] = Table([p \in 0..P - 1 |-> Entry(Step(@.leaf, p * W))])], n |-> t.n + 1]

\* hv_pt_get_l4, which splits a page.  (mutant: a page of the hardware is not made one of software)
hv_pt_get_l4_kept(t, b, p) ==
    LET u == hv_pt_get_l3(t, b)
        e == u.l2[b].sub[p]
    IN  IF IsTable(e) THEN u
        ELSE [l2 |-> [u.l2 EXCEPT ![b].sub[p] = Table([w \in 0..W - 1 |-> Entry(Step(e.leaf, w))])], n |-> u.n + 1]
hv_pt_get_l4(t, b, p) ==
    LET u == hv_pt_get_l3(t, b)
        e == u.l2[b].sub[p]
    IN  IF IsTable(e) THEN u
        ELSE [l2 |-> [u.l2 EXCEPT ![b].sub[p] = Table([w \in 0..W - 1 |-> Entry(Step(BySoftware(e.leaf), w))])], n |-> u.n + 1]

hv_pt_map_l2(t, from, leaf, size) ==
    ForEach(size \div (W * P),
            LAMBDA u, i : [l2 |-> [u.l2 EXCEPT ![Block(from) + i] = Entry(Step(leaf, i * W * P))],
                           n |-> u.n - Freed(u.l2[Block(from) + i])], t)
hv_pt_map_l3(t, from, leaf, size) ==
    ForEach(size \div W,
            LAMBDA u, i : LET b == Block(from + i * W)
                              p == Page(from + i * W) % P
                              v == hv_pt_get_l3(u, b)
                          IN  [l2 |-> [v.l2 EXCEPT ![b].sub[p] = Entry(Step(leaf, i * W))], n |-> v.n - Freed(v.l2[b].sub[p])], t)
hv_pt_map_l4(t, from, leaf, size) ==
    ForEach(size,
            LAMBDA u, i : LET a == from + i
                              v == hv_pt_get_l4(u, Block(a), Page(a) % P)
                          IN  [v EXCEPT !.l2[Block(a)].sub[Page(a) % P].sub[a % W] = Entry(Step(leaf, i))], t)

Least(a, b) == IF a < b THEN a ELSE b
AlignDown(a, n) == n * (a \div n)
AlignUp(a, n) == AlignDown(a + n - 1, n)

\* Where the blocks begin
Boundary(from) ==
    LET boundary == AlignUp(from, W * P)
    IN  IF boundary >= ram_base /\ boundary < base THEN AlignUp(base, W * P) ELSE boundary

\* Words up to a page, pages up to a block, blocks, and the rest in pages and words
hv_map(t, from, leaf, size) ==
    LET Stage(m, n, Op(_, _, _, _)) ==
            IF n = 0 THEN m
            ELSE [t |-> Op(m.t, m.from, m.leaf, n), from |-> m.from + n, leaf |-> Step(m.leaf, n), left |-> m.left - n]
        m0 == [t |-> t, from |-> from, leaf |-> leaf, left |-> size]
        m1 == Stage(m0, Least(size, AlignUp(from, W) - from), hv_pt_map_l4)
        m2 == Stage(m1, AlignDown(Least(m1.left, Boundary(m1.from) - m1.from), W), hv_pt_map_l3)
        whole == AlignDown(m2.left, W * P)
        m3 == Stage(m2, IF leaf.k # "hw" \/ m2.leaf.to % (W * P) = 0 THEN whole ELSE 0, hv_pt_map_l2)
        m4 == Stage(m3, AlignDown(m3.left, W), hv_pt_map_l3)
    IN  Stage(m4, m4.left, hv_pt_map_l4).t

\* hv_pt_walk
hv_pt_walk(t2, a) ==
    LET e2 == t2[Block(a)]
        e3 == e2.sub[Page(a) % P]
    IN  IF ~IsTable(e2) THEN Step(e2.leaf, a % (W * P))
        ELSE IF ~IsTable(e3) THEN Step(e3.leaf, a % W)
        ELSE e3.sub[a % W].leaf

-----------------------------------------------------------------------------
(* Operations                                                              *)

Tables == [l2 |-> l2, n |-> allocated]
Install(t) == l2' = t.l2 /\ allocated' = t.n /\ last' = NoResult

\* hv_map and its kin, at the request of the host or of an emulated device; the shadow tables stay
Map ==
    /\ maps < MaxMaps /\ maps' = maps + 1
    /\ \E from \in Words, leaf \in Leaves \cup {Nothing} : \E size \in 1..W * P * B - from :
          /\ leaf.k = "hw" => from % W = 0 /\ size % W = 0
          /\ \A a \in from..from + size - 1 : Page(a) \notin Pool
          /\ Install(hv_map(Tables, from, leaf, size))
          /\ Flat!Map(from, size, leaf)
    /\ UNCHANGED <<pt, fault, protects, aborts>>

\* hv_sprr.c: sprr_pool_alloc maps the pages of the shadow tables, read-only
MapPool ==
    /\ \E p \in Pool : /\ hv_pt_walk(l2, p * W).k = "none"
                       /\ LET leaf == [k |-> "hw", to |-> p * W, ro |-> TRUE]
                          IN  Install(hv_map(Tables, p * W, leaf, W)) /\ Flat!Map(p * W, W, leaf)
    /\ UNCHANGED <<pt, fault, maps, protects, aborts>>

\* hv_pt_set_writable
hv_pt_set_writable(p, writable) ==
    LET leaf == hv_pt_walk(l2, p * W)
    IN  IF leaf.k = "hw"
        THEN Install(hv_map(Tables, p * W, [leaf EXCEPT !.ro = ~writable], W)) /\ Flat!SetWritable(p * W, writable)
        ELSE UNCHANGED <<l2, mem, allocated>> /\ last' = NoResult
\* hv_sprr.c: sprr_wp_track of memory, and sprr_wp_untrack
Protect ==
    /\ protects < MaxProtects /\ protects' = protects + 1
    /\ \E p \in 0..P * B - 1 \ Pool :
          \/ p \notin pt /\ hv_pt_walk(l2, p * W).k = "hw" /\ hv_pt_set_writable(p, FALSE) /\ pt' = pt \cup {p}
          \/ p \in pt /\ hv_pt_set_writable(p, TRUE) /\ pt' = pt \ {p}
    /\ UNCHANGED <<fault, maps, aborts>>

-----------------------------------------------------------------------------
(* Aborts.  A word has four bytes, the guest's own translation is the      *)
(* identity.                                                               *)

WordBytes == 4
PageBytes == W * WordBytes
LeafAt(byte) == hv_pt_walk(l2, byte \div WordBytes)
Aborts(byte, write) == LET leaf == LeafAt(byte) IN leaf.k # "hw" \/ (write /\ leaf.ro)
LastPage(acc) == AlignDown(acc.addr + acc.bytes - 1, PageBytes)
Straddles(acc) == LastPage(acc) # AlignDown(acc.addr, PageBytes)

\* The hardware: the first byte, or else the first of the next page
Fault ==
    /\ fault = NoFault /\ aborts < MaxAborts
    /\ \E acc \in Accesses :
       LET low == Aborts(acc.addr, acc.write)
       IN  /\ low \/ (Straddles(acc) /\ Aborts(LastPage(acc), acc.write))
           /\ fault' = [addr |-> acc.addr, bytes |-> acc.bytes, write |-> acc.write, wb |-> acc.wb,
                        far |-> IF low THEN acc.addr ELSE LastPage(acc)]
    /\ aborts' = aborts + 1
    /\ last' = NoResult
    /\ UNCHANGED <<l2, mem, allocated, pt, maps, protects>>

\* hv_emulate_rw: the access in pieces that are aligned, the largest first that fit.  It has the leaf of the
\* first word only.
Piece(ipa, left) ==
    LET fit == {n \in {1, 2, 4, 8, 16, 32, 64} : n <= left /\ ipa % n = 0}
    IN  CHOOSE n \in fit : \A m \in fit : m <= n
Pieces(leaf, addr, bytes) ==
    LET more(s, i) ==
          LET done == FoldLeft(LAMBDA n, o : n + o.bytes, 0, s)
              n == Piece(addr + done, bytes - done)
          IN  IF done = bytes THEN s
              ELSE Append(s, [ipa |-> addr + done, bytes |-> n,
                              to |-> IF leaf.k = "hook" THEN <<"hook", leaf.to>>
                                     ELSE <<"memory", leaf.to * WordBytes + (addr % WordBytes) + done>>])
    IN  ForEach(bytes, more, <<>>)
\* The two halves of an access across pages, the lower one first
EmulatedOps(acc) ==
    LET off == IF Straddles(acc) THEN LastPage(acc) - acc.addr ELSE acc.bytes
    IN  Pieces(LeafAt(acc.addr), acc.addr, off)
        \o (IF Straddles(acc) THEN Pieces(LeafAt(LastPage(acc)), LastPage(acc), acc.bytes - off) ELSE <<>>)

\* The instruction is known or not.  Decoding a store moves its base register; a load is decoded twice, and
\* changes registers the second time, when it has its data.
emulate_store(acc, known) == known /\ acc.wb
emulate_load(acc, known, done) == known /\ done

End(acc, res, ops, regs) == last' = [res |-> res, acc |-> acc, ops |-> ops, regs |-> regs]

\* hv_emulate_pt_store: within one page of memory
hv_emulate_pt_store(acc) ==
    \E known \in BOOLEAN :
       LET good == known /\ ~Straddles(acc) /\ LeafAt(acc.far).k = "hw"
       IN  End(acc, IF good THEN "pt_store" ELSE "failed", <<>>, emulate_store(acc, known))

\* hv_emulate_rw and what follows, for an access that has all of its mappings; the n-th piece may fault
Emulate(acc) ==
    LET ops == EmulatedOps(acc)
    IN  \E known \in BOOLEAN, n \in 0..Len(ops) :
           LET done == known /\ n = Len(ops)
           IN  /\ ~known => n = 0
               /\ End(acc, IF done THEN "emulated" ELSE "failed", SubSeq(ops, 1, n),
                      IF acc.write THEN emulate_store(acc, known) ELSE emulate_load(acc, known, done))

\* hv_handle_dabort: a store to a table of the guest first, then what is mapped by now, which may be due to
\* another CPU's hv_map.
hv_handle_dabort(acc) ==
    LET leaf == LeafAt(acc.far)
        page == Page(acc.far \div WordBytes)
        other == LeafAt(IF acc.far = acc.addr THEN LastPage(acc) ELSE acc.addr)
    IN  IF acc.write /\ page \in pt THEN hv_emulate_pt_store(acc)
        ELSE IF acc.write /\ page \in Pool THEN End(acc, "failed", <<>>, FALSE)
        ELSE IF leaf.k = "hw" THEN End(acc, "retry", <<>>, FALSE)
        ELSE IF leaf.k = "none" THEN End(acc, "failed", <<>>, FALSE)
        ELSE IF Straddles(acc) /\ other.k = "none"
        THEN \E known \in BOOLEAN : End(acc, "failed", <<>>, acc.write /\ emulate_store(acc, known))
        ELSE Emulate(acc)
Abort ==
    /\ fault # NoFault
    /\ hv_handle_dabort(fault)
    /\ fault' = NoFault
    /\ UNCHANGED <<l2, mem, allocated, pt, maps, protects, aborts>>

Next == Map \/ MapPool \/ Protect \/ Fault \/ Abort
Spec == Init /\ [][Next]_vars

-----------------------------------------------------------------------------
(* Properties                                                              *)

\* However mappings are split and joined, what is mapped at each word is what the calls of hv_map, in their
\* order, say; a page that is mapped in part is left to software
WalkAgrees == \A a \in Words : hv_pt_walk(l2, a) = mem[a]

\* Every table that is allocated is in the tree, and none is twice: nothing leaks when mappings are mapped over
TablesAccounted == allocated = FoldLeft(LAMBDA n, b : n + Freed(l2[b]), 0, [i \in 1..B |-> i - 1])

\* An access that hv_handle_dabort lets the guest run again, since its page is mapped by now, does not abort
\* for the same reason at once: pages mapped read-only are always recognised before
RetryProgress ==
    last.res = "retry" => ~Aborts(last.acc.far, last.acc.write)

\* An emulated access is carried out byte for byte, once, in the order of addresses, at the place its page
\* maps, in naturally aligned pieces; one that fails half-way has done a first part of that, and if it is a
\* load, has changed no register
AccessWhole ==
    LET acc == last.acc
        start(i) == IF acc.addr + i >= LastPage(acc) /\ Straddles(acc) THEN LastPage(acc) ELSE acc.addr
        place(i) == LET leaf == LeafAt(start(i))
                    IN  IF leaf.k = "hook" THEN <<"hook", leaf.to>>
                        ELSE <<"memory", leaf.to * WordBytes + (start(i) % WordBytes) + (acc.addr + i - start(i))>>
        bytes(o) == [j \in 1..o.bytes |-> IF o.to[1] = "hook" THEN o.to ELSE <<"memory", o.to[2] + j - 1>>]
        done == FlattenSeq([n \in DOMAIN last.ops |-> bytes(last.ops[n])])
    IN  /\ IsPrefix(done, [i \in 1..acc.bytes |-> place(i - 1)])
        /\ last.res = "emulated" => Len(done) = acc.bytes
        /\ last.res = "failed" /\ ~acc.write => ~last.regs
        /\ \A n \in DOMAIN last.ops : last.ops[n].ipa % last.ops[n].bytes = 0
=============================================================================
