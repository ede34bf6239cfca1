----------------------------- MODULE KbootTree ------------------------------
(***************************************************************************)
(* The device tree src/kboot.c edits before it starts a kernel, and the    *)
(* small language its edits are written in here.                           *)
(*                                                                         *)
(* A tree is a record: the status of every node (st), the properties       *)
(* written (props), the memory reservations published (resv), and the      *)
(* words still free in the buffer (room).  fdt_pack() takes the free words *)
(* away; from then on a write that grows the tree fails.  What the machine *)
(* lacks, of the nodes and values the code looks up in the two device      *)
(* trees and of its allocations, is the set bad.                           *)
(***************************************************************************)
EXTENDS Integers, Sequences, FiniteSets, SequencesExt, Outcomes

\* Words of a status property by its value, as fdt_setprop_string stores it: a header of three and
\* the string with its terminator.  Any other property, and any node, counts as four.
Words(v) == CASE v = "okay" -> 5 [] v = "disabled" -> 6 [] OTHER -> 0
PropWords == 4
ResvWords == 4

\* What the code looks up: a node or value of the device tree (Fdt), of the ADT (Adt), a mapping found in
\* the tables of a DART (Dart), or anything else that may be missing (Sys)
Fdt(x) == <<"fdt", x>>
Adt(x) == <<"adt", x>>
Dart(x) == <<"dart", x>>
Sys(x) == <<"sys", x>>
\* The reservation of the firmware of a coprocessor
Asc == [ave |-> "ave-asc", sio |-> "sio-asc", isp |-> "isp-asc", dcpext |-> "dcpext-asc"]
Has(t, f) == f \notin t.bad

Grow(t, n, u) == IF n <= t.dt.room THEN {Ok([u EXCEPT !.dt.room = @ - n])} ELSE {Err(t)}
SetStatus(t, n, v) == Grow(t, Words(v) - Words(t.dt.st[n]), [t EXCEPT !.dt.st[n] = v])
DelStatus(t, n) == [t EXCEPT !.dt.st[n] = "none", !.dt.room = @ + Words(t.dt.st[n])]
SetProp(t, n, p) ==
    IF <<n, p>> \in t.dt.props THEN {Ok(t)} ELSE Grow(t, PropWords, [t EXCEPT !.dt.props = @ \cup {<<n, p>>}])
DelProp(t, n, p) ==
    IF <<n, p>> \in t.dt.props
    THEN [t EXCEPT !.dt.props = @ \ {<<n, p>>}, !.dt.room = @ + PropWords]
    ELSE t
Resv(t, r) == IF r \in t.dt.resv THEN {Ok(t)} ELSE Grow(t, ResvWords, [t EXCEPT !.dt.resv = @ \cup {r}])
Pack(t) == [t EXCEPT !.dt.room = 0]
Restore(t, saved) == [t EXCEPT !.dt = saved.dt]     \* memcpy(dt, saved, dt_bufsize)

\* top_of_memory_alloc: blocks (of one page) from the top of the RAM.  The first call leaves a guard page
\* below its block, the later ones move it down and allocate above it.
TopAlloc(t) ==
    [t EXCEPT !.top = IF t.blocks = <<>> THEN @ - 2 ELSE @ - 1,
              !.blocks = Append(@, IF t.blocks = <<>> THEN t.top - 1 ELSE t.top)]

-----------------------------------------------------------------------------
(* Edits.  An edit is a tuple, its kind first:                             *)
(*   need f: return 0 when f is not there      must f: fail then           *)
(*   set n p: write property p of node n       try n p: and go on if not   *)
(*   put n v: write the status v of node n     tryput n v                  *)
(*   resv r: publish the reservation r         top: take from the RAM      *)

Edit(t, e) ==
    CASE e[1] = "need" -> {Ok(t)}
      [] e[1] = "must" -> IF Has(t, e[2]) THEN {Ok(t)} ELSE {Err(t)}
      [] e[1] = "set" -> SetProp(t, e[2], e[3])
      [] e[1] = "try" -> {Ok(o.s) : o \in SetProp(t, e[2], e[3])}
      [] e[1] = "put" -> SetStatus(t, e[2], e[3])
      [] e[1] = "tryput" -> {Ok(o.s) : o \in SetStatus(t, e[2], e[3])}
      [] e[1] = "resv" -> Resv(t, e[2])
      [] e[1] = "top" -> {Ok(TopAlloc(t))}

\* The edits up to the first "need" that is not met
Upto(t, edits) ==
    LET i == SelectInSeq(edits, LAMBDA e : e[1] = "need" /\ ~Has(t, e[2]))
    IN IF i = 0 THEN edits ELSE SubSeq(edits, 1, i - 1)
Do(t, edits) == ForEach(t, Upto(t, edits), Edit)

\* What a list of edits looks up
Looks(edits) == {edits[i][2] : i \in {j \in 1..Len(edits) : edits[j][1] \in {"need", "must"}}}

Set(n, ps) == [i \in 1..Len(ps) |-> <<"set", n, ps[i]>>]
Try(n, ps) == [i \in 1..Len(ps) |-> <<"try", n, ps[i]>>]
Must(fs) == [i \in 1..Len(fs) |-> <<"must", fs[i]>>]
Need(fs) == [i \in 1..Len(fs) |-> <<"need", fs[i]>>]
Reserve(rs) == [i \in 1..Len(rs) |-> <<"resv", rs[i]>>]
=============================================================================
