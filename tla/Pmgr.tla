-------------------------------- MODULE Pmgr --------------------------------
(***************************************************************************)
(* The power manager, src/pmgr.c.  A machine lists its power domains       *)
(* ("devices") with up to two parents each, given by id; a domain has one  *)
(* power-state register per die.  Virtual domains have no register.  On    *)
(* T8140 the domains of the display CPUs are protected.                    *)
(*                                                                         *)
(* Calls are made by one CPU and run to their end, so that each of them is *)
(* one action; a poll of a register may time out at any place, and a       *)
(* domain whose poll timed out may still get to its target later.          *)
(***************************************************************************)
EXTENDS Integers, Sequences, FiniteSets, Outcomes, Relation

CONSTANTS
    Machines,       \* records [adt, devices, boot, gates, calls]
    PMGR_MAX_PARENT_DEPTH,
    MaxSaved,       \* ARRAY_SIZE(saved->modes)
    Dies            \* pmgr_dies

VARIABLES
    pmach,          \* the machine, fixed: its description, the registers at power-on, what it is asked for
    pm,             \* pmgr_devices found, pmgr_initialized, the registers; a domain asked on before its parents
    last            \* the last call: its kind and result, what it needs on, the registers before it
pmVars == <<pmach, pm, last>>

OFF == 0
ACTIVE == 15
PwrGates == Range(pmach.gates) \cup {<<>>}
DieSet == 0..(Dies - 1)
Dom == 1..Len(pmach.devices)
Dev(i) == pmach.devices[i]
ParentIds(i) == SelectSeq(Dev(i).parents, LAMBDA p : p # 0)

\* pmgr_find_device: the first device of that id, 0 if there is none
pmgr_find_device(id) == LET same == {i \in Dom : Dev(i).id = id} IN IF same = {} THEN 0 ELSE CHOOSE i \in same : \A j \in same : i <= j

-----------------------------------------------------------------------------
(* The description is checked before any register is touched               *)

RECURSIVE pmgr_validate_parents(_, _)
pmgr_validate_parents(id, ancestors) ==
    /\ Len(ancestors) < PMGR_MAX_PARENT_DEPTH
    /\ pmgr_find_device(id) # 0
    /\ id \notin Range(ancestors)
    /\ \A p \in Range(ParentIds(pmgr_find_device(id))) : pmgr_validate_parents(p, Append(ancestors, id))

pmgr_validate_topology ==
    \A i \in Dom :
       /\ Dev(i).id # 0 /\ pmgr_validate_parents(Dev(i).id, <<>>)
       /\ \A j \in 1..(i - 1) : Dev(j).id # Dev(i).id
       /\ Dev(i).virtual \/ Dev(i).addr

-----------------------------------------------------------------------------
(* Setting modes.  s is the state pm; results are sets of outcomes         *)

\* The nearest domains above i that have a register
RECURSIVE Feeds(_)
Feeds(i) == UNION {LET p == pmgr_find_device(id) IN IF Dev(p).virtual THEN Feeds(p) ELSE {p} : id \in Range(ParentIds(i))}

pmgr_set_mode(s, die, i, mode) ==
    LET r == s.regs[die][i]
        t == [s EXCEPT !.regs[die][i].target = mode, !.regs[die][i].auto = FALSE] IN
    IF ~Dev(i).addr THEN {Err(s)}
    ELSE IF Dev(i).protected THEN {IF r.actual = mode THEN Ok(s) ELSE Err(s)}
    ELSE IF r.actual = mode THEN {Ok(t)}
    ELSE {Ok([t EXCEPT !.regs[die][i].actual = mode]), Err(t)}

\* Switched on on behalf of a request: remembers whether a domain above it was not on
SetModeAsked(s, die, i, mode) ==
    pmgr_set_mode([s EXCEPT !.early = @ \/ (mode = ACTIVE /\ \E p \in Feeds(i) : s.regs[die][p].actual # ACTIVE)], die, i, mode)

\* Off before the parents, on after them
WhenSet(mode, when) == (mode = OFF) = (when = "before")

RECURSIVE SetModeInner(_, _, _, _, _, _)
SetModeInner(s, die, id, mode, recurse, depth) ==
    LET i == pmgr_find_device(id)
        own(t, when) == IF Dev(i).virtual \/ ~WhenSet(mode, when) THEN {Ok(t)} ELSE SetModeAsked(t, die, i, mode)
        parents(t) == IF ~recurse THEN {Ok(t)}
                      ELSE ForEach(t, ParentIds(i), LAMBDA u, p : SetModeInner(u, die, p, mode, TRUE, depth + 1)) IN
    IF ~s.initialized \/ id = 0 \/ die \notin DieSet \/ depth >= PMGR_MAX_PARENT_DEPTH \/ i = 0 THEN {Err(s)}
    ELSE Then(Then(own(s, "before"), parents), LAMBDA t : own(t, "after"))

pmgr_set_mode_recursive(s, die, id, mode, recurse) == SetModeInner(s, die, id, mode, recurse, 0)

\* Every gate of a node, whether earlier ones failed or not; a node without gates is refused
pmgr_adt_devices_set_mode(s, gates, mode, recurse) ==
    IF gates = <<>> THEN {Err(s)}
    ELSE ForAll(s, gates, LAMBDA t, g : pmgr_set_mode_recursive(t, g[1], g[2], mode, recurse))

-----------------------------------------------------------------------------
(* A snapshot of what an enable will touch, parents first, and its restore *)

NoSnapshot == <<<<>>>>

\* mutant: only the gates themselves are saved
SaveAboveNone(i) == <<>>

SaveAbove(i) == ParentIds(i)

RECURSIVE pmgr_save_parents(_, _, _, _)
pmgr_save_parents(saved, die, id, depth) ==
    LET i == pmgr_find_device(id)
        above == FoldLeft(LAMBDA acc, p : IF acc = NoSnapshot THEN acc ELSE pmgr_save_parents(acc, die, p, depth + 1),
                          saved, SaveAbove(i)) IN
    IF depth >= PMGR_MAX_PARENT_DEPTH \/ i = 0 THEN NoSnapshot
    ELSE IF above = NoSnapshot \/ Dev(i).virtual THEN above
    ELSE IF die \notin DieSet \/ ~Dev(i).addr THEN NoSnapshot
    ELSE IF \E e \in Range(above) : e.die = die /\ e.dom = i THEN above
    ELSE IF Len(above) = MaxSaved THEN NoSnapshot
    ELSE Append(above, [die |-> die, dom |-> i, target |-> pm.regs[die][i].target])

Snapshot(gates) ==
    FoldLeft(LAMBDA acc, g : IF acc = NoSnapshot THEN acc ELSE pmgr_save_parents(acc, g[1], g[2], 0), <<>>, gates)

\* From the last entry to the first; a failure is reported and the next one tried
pmgr_restore_modes(s, saved) ==
    LET one(t, e) == LET r == t.regs[e.die][e.dom] IN
                     IF r.actual = e.target /\ r.target = e.target THEN {Ok(t)}
                     ELSE {Ok(o.s) : o \in pmgr_set_mode(t, e.die, e.dom, e.target)} IN
    ForEach(s, Reverse(saved), one)

pmgr_adt_power_enable_traced_saved(s, gates) ==
    LET saved == Snapshot(gates) IN
    IF gates = <<>> \/ saved = NoSnapshot THEN {Err(s)}
    ELSE OrElse(pmgr_adt_devices_set_mode(s, gates, ACTIVE, TRUE), LAMBDA t : pmgr_restore_modes(t, saved))

-----------------------------------------------------------------------------
(* Initialisation: parents of domains that are on are switched on, one     *)
(* after the other as the list comes to them: a parent may be asked on     *)
(* before its own, and whether that follows depends on its place           *)

ParentOn(s, die, id) ==
    LET p == pmgr_find_device(id)
        r == s.regs[die][p] IN
    IF Dev(p).virtual \/ Dev(p).protected \/ r.auto \/ r.target = ACTIVE THEN {Ok(s)} ELSE pmgr_set_mode(s, die, p, ACTIVE)

CleanUp(s, die, i) ==
    LET r == s.regs[die][i] IN
    IF Dev(i).virtual \/ Dev(i).protected \/ ~(r.auto \/ r.target = ACTIVE) THEN {Ok(s)}
    ELSE ForEach(s, ParentIds(i), LAMBDA t, p : ParentOn(t, die, p))

pmgr_init(s) ==
    LET z == [s EXCEPT !.initialized = FALSE, !.listed = FALSE]
        l == [z EXCEPT !.listed = TRUE]
        order == [n \in 1..(Dies * Len(pmach.devices)) |-> <<(n - 1) \div Len(pmach.devices), ((n - 1) % Len(pmach.devices)) + 1>>] IN
    IF ~pmach.adt THEN {Err(z)}
    ELSE IF ~pmgr_validate_topology THEN {Err(l)}
    ELSE Then(ForEach(l, order, LAMBDA t, x : CleanUp(t, x[1], x[2])), LAMBDA t : {Ok([t EXCEPT !.initialized = TRUE])})

\* By name, with or without pmgr_init having succeeded; a reset leaves the mode alone
pmgr_power_on(s, die, i) == IF ~s.listed \/ die \notin DieSet THEN {Err(s)} ELSE pmgr_set_mode(s, die, i, ACTIVE)

pmgr_reset_device(s, die, i) ==
    IF ~s.listed \/ Dev(i).protected \/ die \notin DieSet \/ ~Dev(i).addr THEN {Err(s)}
    ELSE {IF s.regs[die][i].actual = ACTIVE THEN Ok(s) ELSE Err(s)}

-----------------------------------------------------------------------------
(* The calls                                                               *)

\* The domains with a register that a request needs: its own and all above
RECURSIVE Needs(_)
Needs(id) ==
    LET i == pmgr_find_device(id) IN
    (IF Dev(i).virtual THEN {} ELSE {i}) \cup UNION {Needs(p) : p \in Range(ParentIds(i))}
NeedsOf(gates) == {<<g[1], i>> : g \in Range(gates), i \in Dom} \cap UNION {{g[1]} \X Needs(g[2]) : g \in Range(gates)}
Known(gates) == gates # <<>> /\ \A g \in Range(gates) : g[1] \in DieSet /\ pmgr_find_device(g[2]) # 0

Return(kind, gates, outcomes) ==
    \E o \in outcomes :
       /\ pm' = o.s
       /\ last' = [kind |-> kind, ok |-> o.ok, before |-> pm.regs, n |-> last.n + 1,
                   known |-> Known(gates) /\ pm.initialized,
                   needs |-> IF Known(gates) /\ pm.initialized THEN NeedsOf(gates) ELSE {}]

Init ==
    /\ pmach \in Machines
    /\ pm = [listed |-> FALSE, initialized |-> FALSE, regs |-> pmach.boot, early |-> FALSE]
    /\ last = [kind |-> "none", ok |-> TRUE, before |-> pmach.boot, n |-> 0, known |-> FALSE, needs |-> {}]

InitCall == Return("init", <<>>, pmgr_init(pm))
EnableOne == \E gates \in PwrGates : gates # <<>> /\ Return("one", <<gates[1]>>, pmgr_set_mode_recursive(pm, gates[1][1], gates[1][2], ACTIVE, TRUE))
DisableOne == \E gates \in PwrGates : gates # <<>> /\ Return("off", <<gates[1]>>, pmgr_set_mode_recursive(pm, gates[1][1], gates[1][2], OFF, FALSE))
EnablePath == \E gates \in PwrGates : Return("path", gates, pmgr_adt_devices_set_mode(pm, gates, ACTIVE, TRUE))
DisablePath == \E gates \in PwrGates : Return("off", gates, pmgr_adt_devices_set_mode(pm, gates, OFF, FALSE))
EnableSaved == \E gates \in PwrGates : Return("saved", gates, pmgr_adt_power_enable_traced_saved(pm, gates))
PowerOn == \E i \in Dom, die \in 0..Dies : Return("name", <<>>, pmgr_power_on(pm, die, i))
Reset == \E i \in Dom, die \in 0..Dies : Return("reset", <<>>, pmgr_reset_device(pm, die, i))

\* A domain gets to its target after the poll for it has given up
Settle ==
    \E die \in DieSet, i \in Dom :
       /\ pm.regs[die][i].actual # pm.regs[die][i].target
       /\ pm' = [pm EXCEPT !.regs[die][i].actual = pm.regs[die][i].target]
       /\ last' = [last EXCEPT !.kind = "none"]

Next ==
    /\ \/ last.n < pmach.calls /\ (InitCall \/ EnableOne \/ DisableOne \/ EnablePath \/ DisablePath \/ EnableSaved \/ PowerOn \/ Reset)
       \/ Settle
    /\ UNCHANGED pmach
Spec == Init /\ [][Next]_pmVars

-----------------------------------------------------------------------------
(* Properties                                                              *)

\* The check of the description accepts exactly the ones on which every later walk over the parents ends
\* within its depth: ids that are unique and not zero, parents that exist, no cycle, no chain too long
\* (pmgr_validate_topology).
Above == {e \in Dom \X Dom : \E p \in Range(ParentIds(e[1])) : e[2] = pmgr_find_device(p)}
Chain(n) == {f \in [1..n -> Dom] : \A a \in 1..(n - 1) : <<f[a], f[a + 1]>> \in Above}
TopologyExact ==
    last.n = 0 =>
      (pmgr_validate_topology <=>
       /\ \A i \in Dom : Dev(i).id # 0 /\ (Dev(i).virtual \/ Dev(i).addr)
       /\ \A i, j \in Dom : Dev(i).id = Dev(j).id => i = j
       /\ \A i \in Dom : \A p \in Range(Dev(i).parents) : p = 0 \/ pmgr_find_device(p) # 0
       /\ IsIrreflexive(TransitiveClosure([e \in Dom \X Dom |-> e \in Above], Dom), Dom)
       /\ Chain(PMGR_MAX_PARENT_DEPTH + 1) = {})

\* A request that reports success has everything above the domain on, and a request for one domain that
\* reports failure has not; no request for a path or a domain with its parents asks a domain on before
\* what feeds it (pmgr_set_mode_recursive_inner; a request by name and the clean-up of pmgr_init ask for
\* single domains and are not held to that).
PoweredWhole ==
    LET on == \A x \in last.needs : pm.regs[x[1]][x[2]].actual = ACTIVE IN
    /\ last.kind \in {"one", "path", "saved"} /\ last.ok => last.known /\ on
    /\ last.kind = "one" /\ ~last.ok => ~(last.known /\ on)
    /\ ~pm.early

\* An enable that failed and was taken back has left every register's target what it was, however many
\* domains it had reached and whichever polls timed out; all it may have changed for good is that a domain
\* it needs is no longer switched automatically, which pmgr_set_mode ends and no snapshot holds
\* (pmgr_adt_power_enable_traced_saved, pmgr_restore_modes).
RestoredWhole ==
    last.kind = "saved" /\ ~last.ok =>
       \A die \in DieSet, i \in Dom :
          LET now == pm.regs[die][i]
              was == last.before[die][i] IN
          now.target = was.target /\ (now.auto # was.auto => was.auto /\ <<die, i>> \in last.needs)

\* The domains of the display CPUs stay as the firmware left them, whatever is asked for
\* (pmgr_protected_addr, and the comments of pmgr_set_mode).
ProtectedUntouched == \A die \in DieSet, i \in Dom : Dev(i).protected => pm.regs[die][i] = pmach.boot[die][i]
=============================================================================
