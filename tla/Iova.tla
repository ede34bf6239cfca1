------------------------------- MODULE Iova -------------------------------
(***************************************************************************)
(* The allocator of I/O virtual addresses, src/iova.c: a domain is a list  *)
(* of free blocks, the first that fits serves an allocation, and a freed   *)
(* range is put back in its place.                                         *)
(*                                                                         *)
(* Page is SZ_16K and Section SZ_32M, in units small enough that sizes     *)
(* which are no multiple of a page exist.                                  *)
(***************************************************************************)
EXTENDS Integers, FiniteSets, Sequences

CONSTANTS
    Page,       \* SZ_16K
    Section,    \* SZ_32M
    Bases,      \* arguments of iovad_init
    Limits,
    Sizes,      \* sizes that are asked for
    Reserved    \* addresses that are reserved

ASSUME PageAssumption ==
    /\ Page \in Nat \ {0} /\ Section \in Nat \ {0} /\ Section % Page = 0
    /\ Bases \subseteq Nat /\ Limits \subseteq Nat /\ Sizes \subseteq Nat \ {0}
    /\ Reserved \subseteq Nat

\* Addresses have a largest one (64 bits in the code)
ASSUME LimitsAssumption == Limits = {} \/ \E t \in Limits : \A l \in Limits : l <= t

VARIABLES
    up,         \* the domain exists
    free_list,  \* its free blocks, [iova, sz]
    live,       \* ranges handed out: [iova, sz, req], req being the size asked for
    panicked    \* iova_free has given up

vars == <<up, free_list, live, panicked>>

ALIGN_DOWN(x, a) == x - (x % a)
ALIGN_UP(x, a) == ALIGN_DOWN(x + a - 1, a)

End(b) == b.iova + b.sz

\* Blocks of list l, with one dropped, one changed or one inserted before place i
Without(l, i) == [j \in 1..Len(l) - 1 |-> IF j < i THEN l[j] ELSE l[j + 1]]
With(l, i, b) == [l EXCEPT ![i] = b]
Before(l, i, b) == [j \in 1..Len(l) + 1 |-> IF j < i THEN l[j] ELSE IF j = i THEN b ELSE l[j - 1]]

\* i is the first place of the list where P holds of the block
IsFirst(l, P(_), i) == i \in DOMAIN l /\ P(l[i]) /\ \A j \in 1..i - 1 : ~P(l[j])
None(l, P(_)) == \A i \in DOMAIN l : ~P(l[i])

Init == up = FALSE /\ free_list = <<>> /\ live = {} /\ panicked = FALSE

First(base) == IF base # 0 THEN base ELSE Page

iovad_init(base, limit) ==
    /\ ~up
    /\ base = ALIGN_UP(base, Section)
    /\ First(base) < limit /\ limit = ALIGN_DOWN(limit, Page)
    /\ free_list' = << [iova |-> First(base), sz |-> limit - First(base)] >>
    /\ up' = TRUE
    /\ UNCHANGED <<live, panicked>>

\* Its users unmap and free all their ranges before
iovad_shutdown ==
    /\ up /\ live = {}
    /\ up' = FALSE
    /\ free_list' = <<>>
    /\ UNCHANGED <<live, panicked>>

\* A reservation must end before the block it lies in; the branches for a whole block and for the
\* end of a block are never taken
iova_reserve(addr, size) ==
    /\ up
    /\ LET down == ALIGN_DOWN(addr, Page)
           iova == IF down = 0 THEN Page ELSE down
           sz == ALIGN_UP(size, Page) - (IF down = 0 THEN Page ELSE 0)
           Holds(b) == b.iova <= iova /\ iova < End(b)
       IN  /\ sz # 0
           /\ \E i \in DOMAIN free_list :
                /\ IsFirst(free_list, Holds, i)
                /\ LET b == free_list[i]
                       rest == [iova |-> iova + sz, sz |-> End(b) - (iova + sz)]
                   IN  /\ iova + sz < End(b)
                       /\ free_list' =
                            IF iova = b.iova
                            THEN With(free_list, i, rest)
                            ELSE Before(With(free_list, i, [b EXCEPT !.sz = iova - b.iova]),
                                        i + 1, rest)
    /\ UNCHANGED <<up, live, panicked>>

\* Mutant: what is left of a block keeps its size
RestWhole(b, sz) == [iova |-> b.iova + sz, sz |-> b.sz]

\* What is left of a block after an allocation at its beginning
Rest(b, sz) == [iova |-> b.iova + sz, sz |-> b.sz - sz]

\* First fit.  An allocation that finds no block returns 0 and changes nothing.
iova_alloc(req) ==
    /\ up
    /\ LET sz == ALIGN_UP(req, Page)
           Fits(b) == b.sz >= sz
       IN  \E i \in DOMAIN free_list :
             /\ IsFirst(free_list, Fits, i)
             /\ LET b == free_list[i]
                IN  /\ free_list' = IF b.sz = sz
                                    THEN Without(free_list, i)
                                    ELSE With(free_list, i, Rest(b, sz))
                    /\ live' = live \cup {[iova |-> b.iova, sz |-> sz, req |-> req]}
    /\ UNCHANGED <<up, panicked>>

\* Mutant: the second of two merged blocks stays in the list
InsertKeep(l, i, r) ==
    LET b == l[i]
        grown == [iova |-> r.iova, sz |-> b.sz + r.sz]
    IN  IF End(r) < b.iova
        THEN Before(l, i, r)
        ELSE IF i > 1 /\ End(l[i - 1]) = r.iova
             THEN With(l, i - 1, [l[i - 1] EXCEPT !.sz = @ + grown.sz])
             ELSE With(l, i, grown)

\* The freed range r is put before block i of the list, which it may touch; if it does, and block
\* i - 1 touches it as well, the two become one
Insert(l, i, r) ==
    LET b == l[i]
        grown == [iova |-> r.iova, sz |-> b.sz + r.sz]
    IN  IF End(r) < b.iova
        THEN Before(l, i, r)
        ELSE IF i > 1 /\ End(l[i - 1]) = r.iova
             THEN Without(With(l, i - 1, [l[i - 1] EXCEPT !.sz = @ + grown.sz]), i)
             ELSE With(l, i, grown)

\* A range above all free blocks finds no place
iova_free(u) ==
    LET r == [iova |-> u.iova, sz |-> ALIGN_UP(u.req, Page)]
        Above(b) == End(r) <= b.iova
    IN  /\ up /\ u \in live
        /\ \/ /\ free_list = <<>>
              /\ free_list' = <<r>>
              /\ live' = live \ {u}
              /\ UNCHANGED panicked
           \/ /\ free_list # <<>>
              /\ \E i \in DOMAIN free_list :
                    /\ IsFirst(free_list, Above, i)
                    /\ free_list' = Insert(free_list, i, r)
              /\ live' = live \ {u}
              /\ UNCHANGED panicked
           \/ /\ free_list # <<>> /\ None(free_list, Above)
              /\ panicked' = TRUE
              /\ UNCHANGED <<free_list, live>>
        /\ UNCHANGED up

Next ==
    /\ ~panicked
    /\ \/ \E base \in Bases, limit \in Limits : iovad_init(base, limit)
       \/ iovad_shutdown
       \/ \E addr \in Reserved, size \in Sizes : iova_reserve(addr, size)
       \/ \E req \in Sizes : iova_alloc(req)
       \/ \E u \in live : iova_free(u)

Spec == Init /\ [][Next]_vars

-----------------------------------------------------------------------------
Top == IF Limits = {} THEN 0 ELSE CHOOSE t \in Limits : \A l \in Limits : l <= t

Blocks == [iova : 1..Top, sz : 1..Top]

(* Types: free blocks and ranges handed out are not empty, do not start at *)
(* 0 ("don't hand out NULL pointers"), and are made of whole pages.        *)
TypeOK ==
    /\ up \in BOOLEAN /\ panicked \in BOOLEAN
    /\ free_list \in Seq(Blocks)
    /\ \A u \in live : /\ u.iova > 0 /\ u.iova % Page = 0
                       /\ u.sz >= u.req /\ u.sz % Page = 0

Apart(a, b) == End(a) <= b.iova \/ End(b) <= a.iova

(* No address is handed out twice: ranges handed out are disjoint from one *)
(* another and from the free blocks, which are in order and disjoint.      *)
(* This is what keeps two buffers of a coprocessor from sharing memory.    *)
NoOverlap ==
    /\ \A u, v \in live : u # v => Apart(u, v)
    /\ \A u \in live, i \in DOMAIN free_list : Apart(u, free_list[i])
    /\ \A i, j \in DOMAIN free_list : i < j => End(free_list[i]) <= free_list[j].iova

(* The panic of iova_free says "corruption detected": it is unreachable as *)
(* long as callers free what they got, with the size they asked for.       *)
NoPanic == ~panicked

Pages == INSTANCE IovaPages WITH
            free <- {a \in 0..Top - 1 : \E i \in DOMAIN free_list :
                                          free_list[i].iova <= a /\ a < End(free_list[i])},
            live <- {[iova |-> u.iova, sz |-> u.sz] : u \in live}

(* The free list implements the set of free addresses: an allocation takes *)
(* exactly its range, a reservation too, and a free gives back exactly     *)
(* what was taken, merged or not.                                          *)
Implements == Pages!Spec
=============================================================================
