----------------------------- MODULE IovaPages -----------------------------
(***************************************************************************)
(* What src/iova.c promises its users: a domain of I/O addresses from      *)
(* which ranges are handed out, each address to at most one user at a      *)
(* time, and given back.                                                   *)
(***************************************************************************)
EXTENDS Integers

CONSTANT Top   \* addresses are 0..Top - 1

VARIABLES
    free,   \* the addresses that may be handed out
    live    \* the ranges that are handed out, [iova, sz]

vars == <<free, live>>

Addrs(r) == {a \in 0..Top - 1 : r.iova <= a /\ a < r.iova + r.sz}
Ranges == [iova : 1..Top - 1, sz : 1..Top]

Init == free = {} /\ live = {}

\* A new domain; nobody holds a range of an older one
Create(r) ==
    /\ live = {}
    /\ free' = Addrs(r)
    /\ UNCHANGED live

Alloc(r) ==
    /\ Addrs(r) # {} /\ Addrs(r) \subseteq free
    /\ free' = free \ Addrs(r)
    /\ live' = live \cup {r}

Free(r) ==
    /\ r \in live
    /\ free' = free \cup Addrs(r)
    /\ live' = live \ {r}

\* The range is never handed out
Reserve(r) ==
    /\ Addrs(r) \subseteq free
    /\ free' = free \ Addrs(r)
    /\ UNCHANGED live

Shutdown ==
    /\ live = {}
    /\ free' = {}
    /\ UNCHANGED live

Next ==
    \/ \E r \in Ranges : Create(r) \/ Alloc(r) \/ Reserve(r)
    \/ \E r \in live : Free(r)
    \/ Shutdown

Spec == Init /\ [][Next]_vars
=============================================================================
