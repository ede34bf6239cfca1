------------------------------- MODULE HvSprr -------------------------------
(***************************************************************************)
(* Emulation of SPRR, Apple's permission remapping, for a guest            *)
(* (src/hv/hv_sprr.c).  The guest's page tables are mirrored in shadow     *)
(* tables with the permissions that its SPRR registers give them; every    *)
(* table has one mirror for the normal and one for the guarded world.  The *)
(* pages of the guest's tables are write-protected in stage 2, so that a   *)
(* store to them traps and the mirrors follow.                             *)
(*                                                                         *)
(* All of it runs under the lock of the hypervisor, one trap at a time,    *)
(* except genter and gexit; the guest runs on the other CPUs meanwhile and *)
(* stores to pages that are not protected yet.  There are two levels of    *)
(* tables (code: up to four) and one of the two TTBRs.                     *)
(***************************************************************************)
EXTENDS Integers, Sequences, FiniteSets, FiniteSetsExt, SequencesExt, TLC

CONSTANTS
    Cpus, Pages,
    Slots,          \* SPRR_N_CACHED_SHADOWS of them, as a sequence
    Tables,         \* the pool of mirrors
    Descriptors,    \* what the guest stores in its tables: descriptors
    Memories,       \* the tables before SPRR is turned on: pages to entries to descriptors
    Perms,          \* what SPRR_PERM_EL1 and EL0 may hold: records of el1 and el0, functions from indices
    MaxOps          \* bound: traps and stores

VARIABLES
    mem,            \* the guest's tables: page -> entry -> descriptor
    wp,             \* page -> its mirrors, latest first; protected while there is one (sprr_wp_page)
    mir,            \* mirror -> what it mirrors (sprr_mirror)
    shadow,         \* slot -> hv_sprr_shadow
    lru,            \* the slots, least recently used first
    cpu,            \* hv_sprr_cpu with the registers it stands for
    job,            \* the table being mirrored under the lock
    ops

vars == <<mem, wp, mir, shadow, lru, cpu, job, ops>>
tables == <<wp, mir, shadow, lru>>

Entries == 0..1
None == 0
Invalid == [v |-> FALSE, table |-> FALSE, to |-> None, idx |-> 0]
Entry(table, to, idx) == [v |-> TRUE, table |-> table, to |-> to, idx |-> idx]
NoJob == [cpu |-> None, slot |-> None, next |-> 0, mmu |-> FALSE]
Free == [page |-> None, level |-> 0, slot |-> None, ent |-> [i \in Entries |-> <<>>]]
NoShadow == [root |-> None, perm |-> None, top |-> None]

Init ==
    /\ mem \in Memories
    /\ wp = [p \in Pages |-> <<>>]
    /\ mir = [t \in Tables |-> Free]
    /\ shadow = [s \in Range(Slots) |-> NoShadow]
    /\ lru = Slots
    /\ \E on \in BOOLEAN :     \* the guest may have turned its MMU on before
          cpu = [c \in Cpus |-> [en |-> FALSE, mmu |-> on, epd |-> FALSE, guarded |-> FALSE, aspsr |-> FALSE, perm |-> 1,
                                ttbr |-> Min(Pages), hw |-> <<"guest", Min(Pages)>>, cur |-> None, seen |-> FALSE]]
    /\ job = NoJob
    /\ ops = 0

-----------------------------------------------------------------------------
(* Permissions                                                             *)

\* What the sixteen permissions mean in the two worlds
sprr_el_rwx ==
    <<{}, {"r", "x"}, {"r"}, {"r", "w"}, {}, {"r", "x"}, {"r"}, {}, {}, {"x"}, {"r"}, {"r", "w"}, {}, {"r", "x"}, {"r"}, {"r", "w"}>>
sprr_gl_rwx ==
    <<{}, {}, {}, {}, {"r", "x"}, {"r", "x"}, {"r", "x"}, {"r", "x"}, {"r"}, {"r"}, {"r"}, {"r"}, {"r", "w"}, {"r", "w"}, {"r", "w"}, {"r", "w"}>>

\* The bits of a leaf, from the permissions of kernel and user
sprr_leaf_bits(k, u) ==
    [pxn |-> "x" \notin k, uxn |-> "x" \notin u, el0 |-> "r" \in u, ro |-> "w" \notin k \cup u]
\* What cannot be reached from either is not mapped
Leaf(guarded, perm, idx) ==
    LET rwx == IF guarded THEN sprr_gl_rwx ELSE sprr_el_rwx
        k == rwx[Perms[perm].el1[idx] + 1]
        u == rwx[Perms[perm].el0[idx] + 1]
    IN  IF k = {} /\ u = {} THEN <<>> ELSE <<sprr_leaf_bits(k, u)>>

-----------------------------------------------------------------------------
(* Mirrors.  t is a record of mem, wp, mir, shadow and lru.                *)

State == [mem |-> mem, wp |-> wp, mir |-> mir, shadow |-> shadow, lru |-> lru]
IsChild(e) == e # <<>> /\ e[1] = "table"
Unused(t) == {m \in Tables : t.mir[m].page = None}

\* sprr_wp_track; the page is write-protected from now on.
Track(t, m, page, level, slot) ==
    [t EXCEPT !.wp[page] = <<m>> \o @, !.mir[m] = [Free EXCEPT !.page = page, !.level = level, !.slot = slot]]
\* sprr_wp_untrack, sprr_pool_release
Release(t, m) ==
    [t EXCEPT !.wp[t.mir[m].page] = SelectSeq(@, LAMBDA x : x # m), !.mir[m] = Free]
\* sprr_mirror_free: the children first
MirrorFree(t, m) ==
    LET children == {i \in Entries : IsChild(t.mir[m].ent[i])}
    IN  Release(FoldSet(LAMBDA i, u : Release(u, t.mir[m].ent[i][2]), t, children), m)

\* The leaf for a descriptor, in both worlds
LeafEntry(t, slot, d) ==
    IF ~d.v THEN <<>>
    ELSE <<"leaf", d.to, Leaf(FALSE, t.shadow[slot].perm, d.idx), Leaf(TRUE, t.shadow[slot].perm, d.idx)>>

\* sprr_mirror_table of the last level
LeafTable(t, page, slot, m) ==
    [Track(t, m, page, 3, slot) EXCEPT !.mir[m].ent = [i \in Entries |-> LeafEntry(t, slot, t.mem[page][i])]]

\* sprr_mirror_entry: a child that was there is dropped.
MirrorEntry(t, m, i) ==
    LET d == t.mem[t.mir[m].page][i]
        had == t.mir[m].ent[i]
        u == IF t.mir[m].level = 2 /\ IsChild(had) THEN Release(t, had[2]) ELSE t
    IN  IF t.mir[m].level = 2 /\ d.v /\ d.table
        THEN LET c == Min(Unused(u))
             IN  [LeafTable(u, d.to, u.mir[m].slot, c) EXCEPT !.mir[m].ent[i] = <<"table", c>>]
        ELSE [u EXCEPT !.mir[m].ent[i] = LeafEntry(u, u.mir[m].slot, d)]

\* hv_sprr_pt_updated: the mirrors that the page has now, in the order of its list
PtUpdated(t, page, i) == FoldLeft(LAMBDA u, m : MirrorEntry(u, m, i), t, t.wp[page])

-----------------------------------------------------------------------------
(* Shadows                                                                 *)

Active(s) == \E c \in Cpus : cpu[c].cur = s

\* sprr_set_cur_shadow and hv_sprr_switch_tables
Root(t, slot, guarded) == <<IF guarded THEN "gl" ELSE "el", t.shadow[slot].top>>
Switch(r, t) == IF ~r.en \/ r.cur = None THEN r ELSE [r EXCEPT !.hw = Root(t, r.cur, r.guarded)]

\* sprr_get_shadow: one that fits, whatever its address space identifier
Fits(r) == {s \in DOMAIN shadow : shadow[s].root = r.ttbr /\ shadow[s].perm = r.perm}
\* A free slot, or else the least recently used that no CPU has loaded.  (mutant: or has loaded)
VictimAny(c) ==
    LET slots == SelectSeq(lru, LAMBDA s : TRUE)
        unused == SelectSeq(slots, LAMBDA s : shadow[s].root = None)
    IN  IF unused # <<>> THEN unused ELSE slots
Victim(c) ==
    LET slots == SelectSeq(lru, LAMBDA s : \A k \in Cpus \ {c} : cpu[k].cur # s)
        unused == SelectSeq(slots, LAMBDA s : shadow[s].root = None)
    IN  IF unused # <<>> THEN unused ELSE slots
Recent(s) == SelectSeq(lru, LAMBDA x : x # s) \o <<s>>

Lock == job = NoJob /\ ops < MaxOps /\ ops' = ops + 1
Set(c, r) == cpu' = [cpu EXCEPT ![c] = r]

\* hv_sprr_build on CPU c, whose registers are r; mmu is SCTLR.M once it is done.  What is not found is
\* mirrored, entry by entry.
Build(c, r, mmu) ==
    LET q == [r EXCEPT !.cur = None]
        hit == Fits(r)
    IN  IF r.epd THEN Set(c, [q EXCEPT !.mmu = mmu]) /\ UNCHANGED <<tables, job>>
        ELSE IF hit # {}
        THEN LET s == CHOOSE x \in hit : TRUE
             IN  /\ lru' = Recent(s)
                 /\ Set(c, [Switch([q EXCEPT !.cur = s], State) EXCEPT !.mmu = mmu])
                 /\ UNCHANGED <<wp, mir, shadow, job>>
        ELSE LET s == Head(Victim(c))
                 t == IF shadow[s].root = None THEN State ELSE MirrorFree(State, shadow[s].top)
                 m == Min(Unused(t))
                 u == Track(t, m, r.ttbr, 2, s)
             IN  /\ Victim(c) # <<>>
                 /\ wp' = u.wp /\ mir' = u.mir
                 /\ shadow' = [shadow EXCEPT ![s] = [root |-> r.ttbr, perm |-> r.perm, top |-> m]]
                 /\ lru' = Recent(s)
                 /\ Set(c, q)
                 /\ job' = [cpu |-> c, slot |-> s, next |-> 0, mmu |-> mmu]

\* The next entry of the top table; after the last one the shadow is loaded
MirrorStep ==
    /\ job # NoJob
    /\ LET t == MirrorEntry(State, shadow[job.slot].top, job.next)
           last == job.next = Max(Entries)
       IN  /\ wp' = t.wp /\ mir' = t.mir
           /\ job' = IF last THEN NoJob ELSE [job EXCEPT !.next = @ + 1]
           /\ IF last THEN Set(job.cpu, [Switch([cpu[job.cpu] EXCEPT !.cur = job.slot], t) EXCEPT !.mmu = job.mmu])
              ELSE UNCHANGED cpu
    /\ UNCHANGED <<mem, shadow, lru, ops>>

-----------------------------------------------------------------------------
(* Traps                                                                   *)

\* hv_sprr_rebuild
Rebuild(c, r) ==
    IF r.en /\ r.mmu THEN Build(c, r, TRUE) ELSE Set(c, r) /\ UNCHANGED <<tables, job>>

\* SPRR_CONFIG_EL1: hv_sprr_activate takes over the guest's TTBR, hv_sprr_deactivate gives it back
WriteConfig(c) ==
    /\ Lock /\ UNCHANGED mem
    /\ LET r == cpu[c]
       IN  IF ~r.en THEN Rebuild(c, [r EXCEPT !.en = TRUE, !.ttbr = r.hw[2]])
           ELSE Set(c, [r EXCEPT !.en = FALSE, !.cur = None, !.hw = <<"guest", r.ttbr>>]) /\ UNCHANGED <<tables, job>>

\* SPRR_PERM_EL0 or EL1
WritePerm(c) ==
    /\ Lock /\ UNCHANGED mem
    /\ \E p \in DOMAIN Perms \ {cpu[c].perm} : Rebuild(c, [cpu[c] EXCEPT !.perm = p])

WriteTtbr(c) ==
    /\ Lock /\ UNCHANGED mem
    /\ \E p \in Pages :
       LET r == [cpu[c] EXCEPT !.ttbr = p]
       IN  IF r.en /\ r.mmu THEN Build(c, r, TRUE)
           ELSE Set(c, [r EXCEPT !.hw = <<"guest", p>>]) /\ UNCHANGED <<tables, job>>

\* TCR: a change of EPD
WriteTcr(c) == Lock /\ UNCHANGED mem /\ Rebuild(c, [cpu[c] EXCEPT !.epd = ~@])

\* SCTLR: the shadow is installed before the MMU goes live.
WriteSctlr(c) ==
    /\ Lock /\ UNCHANGED mem
    /\ LET r == cpu[c]
       IN  IF ~r.mmu /\ r.en THEN Build(c, r, TRUE)
           ELSE Set(c, [r EXCEPT !.mmu = ~@]) /\ UNCHANGED <<tables, job>>

\* sprr_read_ttbr; seen: the guest has read an address that is not its own
ReadTtbr(c) ==
    /\ LET r == cpu[c]
           val == IF r.en /\ r.mmu THEN <<"guest", r.ttbr>> ELSE r.hw
       IN  ~r.seen /\ Set(c, [r EXCEPT !.seen = val[1] # "guest"])
    /\ job.cpu # c
    /\ UNCHANGED <<mem, tables, job, ops>>

\* genter and gexit, which do not need the lock.  A genter from the guarded world is noted in ASPSR_GL1, and
\* the gexit that finds it there stays in that world; the guest's handler writes the register itself.
Unlocked(c) == job.cpu # c /\ ops < MaxOps /\ ops' = ops + 1 /\ UNCHANGED <<mem, tables, job>>
Genter(c) ==
    /\ Unlocked(c)
    /\ LET r == [cpu[c] EXCEPT !.aspsr = cpu[c].guarded, !.guarded = TRUE]
       IN  Set(c, IF cpu[c].guarded THEN r ELSE Switch(r, State))
Gexit(c) ==
    /\ Unlocked(c)
    /\ cpu[c].guarded
    /\ IF cpu[c].aspsr THEN UNCHANGED cpu ELSE Set(c, Switch([cpu[c] EXCEPT !.guarded = FALSE], State))
WriteAspsr(c) == Unlocked(c) /\ cpu[c].guarded /\ Set(c, [cpu[c] EXCEPT !.aspsr = ~@])

\* A store of the guest to a table page: it traps if the page is protected, and is then carried out and
\* followed up (hv_emulate_pt_store, hv_sprr_pt_updated); if not, it needs no lock.
Store(c) ==
    \E p \in Pages, i \in Entries, d \in Descriptors :
       LET t == PtUpdated([State EXCEPT !.mem[p][i] = d], p, i)
       IN  /\ ops < MaxOps /\ ops' = ops + 1
           /\ job.cpu # c /\ d # mem[p][i]
           /\ mem' = t.mem
           /\ IF wp[p] = <<>> THEN UNCHANGED tables ELSE job = NoJob /\ wp' = t.wp /\ mir' = t.mir /\ UNCHANGED <<shadow, lru>>
           /\ UNCHANGED <<cpu, job>>

\* TLBI ASIDE1, trapped while SPRR is on: the shadows of that address space go, unless loaded.  An address
\* space has one top table.
TlbiAsid(c) ==
    /\ Lock /\ cpu[c].en
    /\ \E p \in Pages :
       LET gone == {s \in DOMAIN shadow : shadow[s].root = p /\ ~Active(s)}
           t == FoldSet(LAMBDA s, u : [MirrorFree(u, u.shadow[s].top) EXCEPT !.shadow[s] = NoShadow], State, gone)
       IN  wp' = t.wp /\ mir' = t.mir /\ shadow' = t.shadow
    /\ UNCHANGED <<mem, lru, cpu, job>>

Next ==
    \/ MirrorStep
    \/ \E c \in Cpus : WriteConfig(c) \/ WritePerm(c) \/ WriteTtbr(c) \/ WriteTcr(c) \/ WriteSctlr(c)
                       \/ ReadTtbr(c) \/ Genter(c) \/ Gexit(c) \/ WriteAspsr(c) \/ Store(c) \/ TlbiAsid(c)

Spec == Init /\ [][Next]_vars

-----------------------------------------------------------------------------
(* Properties                                                              *)

\* The entries of mirror m that have been filled in
Done(m) == IF job # NoJob /\ shadow[job.slot].top = m THEN 0..job.next - 1 ELSE Entries

\* Every mirror agrees with the guest's table as it is now: leaf for leaf with the permissions of its
\* shadow, and table for table with a mirror of its own, whichever way stores, evictions and the
\* mirroring of other tables have interleaved
ShadowCoherent ==
    \A m \in Tables : mir[m].page # None =>
       \A i \in Done(m) :
          LET d == mem[mir[m].page][i]
              e == mir[m].ent[i]
          IN  IF mir[m].level = 2 /\ d.v /\ d.table
              THEN IsChild(e) /\ LET c == mir[e[2]] IN c.page = d.to /\ c.level = 3 /\ c.slot = mir[m].slot
              ELSE e = LeafEntry(State, mir[m].slot, d)

\* A CPU whose MMU is on translates with the mirror, for its world, of the table it has asked for, with
\* the permissions it has set; that table is in use by no other shadow and will not be taken away
RightShadow ==
    \A c \in Cpus : cpu[c].en /\ cpu[c].mmu /\ ~cpu[c].epd /\ job.cpu # c =>
       /\ cpu[c].cur # None
       /\ LET s == shadow[cpu[c].cur]
          IN  /\ s.root = cpu[c].ttbr /\ s.perm = cpu[c].perm
              /\ cpu[c].hw = <<IF cpu[c].guarded THEN "gl" ELSE "el", s.top>>
              /\ mir[s.top].page = s.root /\ mir[s.top].slot = cpu[c].cur

\* In the list of a page a child comes before its parent: the walk of hv_sprr_pt_updated, which has read
\* the next mirror before it updates one, never stands on a mirror that this update frees
ChildrenFirst ==
    \A p \in Pages : \A j, k \in 1..Len(wp[p]) :
       (\E i \in Entries : mir[wp[p][j]].ent[i] = <<"table", wp[p][k]>>) => k < j

\* "a shadow root it should never have seen": what the guest reads from its TTBR is its own table
ShadowHidden == \A c \in Cpus : ~cpu[c].seen
=============================================================================
