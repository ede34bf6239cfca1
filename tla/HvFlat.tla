------------------------------- MODULE HvFlat -------------------------------
(***************************************************************************)
(* What the stage-2 memory map of the hypervisor promises: each word of    *)
(* the guest's physical memory is mapped to something, and hv_map changes  *)
(* the words it is given.  Words are numbered; W make a page.              *)
(***************************************************************************)
EXTENDS Integers

CONSTANTS W, Words
VARIABLE mem        \* word -> leaf: a record of k, to, ro

Nothing == [k |-> "none", to |-> 0, ro |-> FALSE]
Page(a) == a \div W

\* A mapping of memory goes on with the next word, a hook stays the same
Step(leaf, d) == IF leaf.k \in {"hw", "map"} THEN [leaf EXCEPT !.to = @ + d] ELSE leaf
\* The hardware cannot map a part of a page: what is left of a page is accessed by software from then on
BySoftware(leaf) == IF leaf.k = "hw" THEN [leaf EXCEPT !.k = "map", !.ro = FALSE] ELSE leaf

Init == mem = [a \in Words |-> Nothing]

\* hv_map of size words from a word on
Map(from, size, leaf) ==
    LET to == from + size
        cut(a) == \/ a < from /\ Page(a) = Page(from)
                  \/ a >= to /\ Page(a) = Page(to - 1)
    IN  /\ leaf.k = "hw" => from % W = 0 /\ size % W = 0
        /\ mem' = [a \in Words |-> IF a \in from..to - 1 THEN Step(leaf, a - from)
                                   ELSE IF cut(a) THEN BySoftware(mem[a])
                                   ELSE mem[a]]

\* hv_pt_set_writable of a page of memory
SetWritable(a, writable) ==
    /\ mem[W * Page(a)].k = "hw"
    /\ mem' = [x \in Words |-> IF Page(x) = Page(a) THEN [Step(mem[W * Page(a)], x % W) EXCEPT !.ro = ~writable] ELSE mem[x]]
=============================================================================
