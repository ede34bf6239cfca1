------------------------------- MODULE AtcPhy -------------------------------
(***************************************************************************)
(* The Type-C PHY that carries DisplayPort (src/dcp/atc_phy.c), as the     *)
(* callbacks of the display firmware drive it (src/dcp/dptx_phy.c and      *)
(* dptxport_call_v2 of src/dcp/dptx_port_ep.c).  The PHY is                *)
(* taken over in a cold state and handed back as it was: before its first  *)
(* write to a register the driver saves it, power gates and the display    *)
(* clock are owned while they are needed, and every step may fail.         *)
(*                                                                         *)
(* Registers are grouped into the banks the code treats alike; 0 is the    *)
(* value a bank had before, 1 what the set-up and 2 what the stop writes.  *)
(***************************************************************************)
EXTENDS Integers, Sequences, FiniteSets, Outcomes

CONSTANTS ATC_SAVED_MAX,    \* registers that can be saved
          MaxLost           \* a bound: parts of the hardware that ever fail to be given back

VARIABLES phy,          \* the driver with its hardware; left is what the hardware was when the driver last
                        \* had nothing to restore in it (not in the code), lost counts failed hand-backs
          port          \* the port: link_rate (1 is HBR), active lanes, whether it has a PHY, and its
                        \* kind: "atc", or "dptx" for the PHYs that are only ever switched on
vars == <<phy, port>>
HBR == 1

\* common (PLLs and lane mapping), shim (DPTX clock), pll (DP PLL), aon (sleep and clock requests),
\* pma (power of the lanes), lane (the lanes themselves), xbar (crossbar), latch (its output latch)
Banks == {"common", "shim", "pll", "aon", "pma", "lane", "xbar", "latch"}
Gates == <<0, 1, 2, 3>>

Init ==
    /\ phy = [reg |-> [b \in Banks |-> 0], clock |-> 0, on |-> {}, cfg |-> "cold",
              gates |-> 0, saved |-> <<>>, started |-> FALSE, aux |-> FALSE, active |-> FALSE,
              dp |-> FALSE, clock_owned |-> FALSE, route |-> FALSE, rate |-> 0,
              left |-> [reg |-> [b \in Banks |-> 0], on |-> {}, cfg |-> "cold"], lost |-> 0]
    /\ port \in [rate : {0}, lanes : {0}, connected : {FALSE}, kind : {"atc", "dptx"}]

-----------------------------------------------------------------------------
(* Saved registers                                                         *)

SavedAt(p, b) == SelectInSeq(p.saved, LAMBDA s : s.bank = b)

\* atc_update: save before the first write, then write and read back.  (mutant: save on every write)
SaveLate(p, b) == [p EXCEPT !.saved = Append(SelectSeq(@, LAMBDA s : s.bank # b),
                                             [bank |-> b, value |-> p.reg[b], mask |-> TRUE])]
Save(p, b) ==
    LET i == SavedAt(p, b)
    IN  IF i = 0 THEN [p EXCEPT !.saved = Append(@, [bank |-> b, value |-> p.reg[b], mask |-> TRUE])]
        ELSE [p EXCEPT !.saved[i].mask = TRUE]
atc_update(p, w) ==
    LET b == w[1]
        q == Save(p, b)
    IN  IF SavedAt(p, b) = 0 /\ Len(p.saved) = ATC_SAVED_MAX THEN {Err(p)}
        ELSE {Ok([q EXCEPT !.reg[b] = w[2]]), Err([q EXCEPT !.reg[b] = w[2]]), Err(q)}

\* atc_restore of the saved register number i; the mask is cleared once the old value reads back
atc_restore(p, i) ==
    LET s == p.saved[i]
    IN  IF ~s.mask THEN {Ok(p)}
        ELSE {Ok([p EXCEPT !.reg[s.bank] = s.value, !.saved[i].mask = FALSE]), Err(p)}

Backwards(p) == [i \in 1..Len(p.saved) |-> Len(p.saved) + 1 - i]
RestoreBank(p, b) == ForEach(p, Backwards(p), LAMBDA q, i : IF q.saved[i].bank = b THEN atc_restore(q, i) ELSE {Ok(q)})

-----------------------------------------------------------------------------
(* Power gates                                                             *)

\* Giving back a part, at the end of a hand-back.  If it fails the driver forgets the part all the same,
\* and what is in it counts as found from then on
GiveBack(p, done, left) == {Ok(done)} \cup (IF p.lost < MaxLost THEN {Err([p EXCEPT !.lost = @ + 1, !.left = left])} ELSE {})

atc_gates_restore(p) ==
    ForAll([p EXCEPT !.gates = 0], [i \in 1..p.gates |-> p.gates - i],
           LAMBDA q, g : GiveBack(q, [q EXCEPT !.on = @ \ {g}], [q.left EXCEPT !.on = @ \cup (q.on \cap {g})]))

\* Only gates that are all idle are taken over
atc_gates_enable(p) ==
    IF p.on # {} THEN {Err(p)}
    ELSE OrElse(ForEach(p, Gates, LAMBDA q, g : LET r == [q EXCEPT !.gates = @ + 1]
                                                IN  {Ok([r EXCEPT !.on = @ \cup {g}]), Err([r EXCEPT !.on = @ \cup {g}]), Err(r)}),
                atc_gates_restore)

-----------------------------------------------------------------------------
(* Crossbar and DisplayPort                                                *)

Updates(p, list) == ForEach(p, list, atc_update)
Wait(p) == Maybe(p, p)      \* an acknowledgement that may not come in time

atc_route_stop(p) ==
    IF ~p.route THEN {Ok(p)}
    ELSE Then(Updates(p, <<<<"xbar", 2>>>>), LAMBDA a :
         Then(Wait(a), LAMBDA b :
         Then(Updates(b, <<<<"xbar", 2>>>>), LAMBDA c :
         LET i == SavedAt(c, "latch")       \* the latch cannot be cleared: it is let go
             d == IF i = 0 THEN c ELSE [c EXCEPT !.saved[i].mask = FALSE]
         IN  Then(RestoreBank(d, "xbar"), LAMBDA e : {Ok([e EXCEPT !.route = FALSE])}))))

atc_route_start(p) ==
    IF p.route THEN {Ok(p)}
    ELSE IF p.reg["xbar"] # 0 THEN {Err(p)}     \* somebody else's route
    ELSE OrElse(Then(Updates([p EXCEPT !.route = TRUE], <<<<"xbar", 1>>>>), LAMBDA a :
                Then(Wait(a), LAMBDA b : Updates(b, <<<<"xbar", 1>>, <<"latch", 1>>>>))),
                atc_route_stop)

ClockBack(p) ==
    IF ~p.clock_owned THEN {Ok(p)}
    ELSE {Ok([p EXCEPT !.clock = 0, !.clock_owned = FALSE]), Err(p), Err([p EXCEPT !.clock = 0])}

\* Route, shim clock, PLL, clock, then the lanes while they still have power, then their power
atc_dp_stop(p) ==
    IF ~p.dp THEN {Ok(p)}
    ELSE Then(atc_route_stop(p), LAMBDA a :
         Then(Then(Updates(a, <<<<"shim", 2>>>>), Wait), LAMBDA b :
         Then(Updates(b, <<<<"pll", 2>>>>), LAMBDA c :
         Then(ClockBack(c), LAMBDA d :
         Then(RestoreBank(d, "lane"), LAMBDA e :
         Then(Updates(e, <<<<"aon", 2>>, <<"pma", 2>>>>), LAMBDA f :
         {Ok([f EXCEPT !.dp = FALSE, !.rate = 0])}))))))

-----------------------------------------------------------------------------
(* The driver's calls                                                      *)

\* CFG brought down; the final check reads it back
CfgDown(p) == GiveBack(p, [p EXCEPT !.cfg = "cold"], [p.left EXCEPT !.cfg = p.cfg])
RestoreAll(p) ==
    And(ForAll(p, Backwards(p), LAMBDA q, i :
               LET b == q.saved[i].bank
               IN  UNION {GiveBack(q, o.s, [q.left EXCEPT !.reg[b] = q.reg[b]]) : o \in {r \in atc_restore(q, i) : r.ok}}),
        LAMBDA q : {Ok([q EXCEPT !.saved = <<>>])})

Deactivate(p) ==
    Then(atc_dp_stop(p), LAMBDA a :
    LET b == [a EXCEPT !.aux = FALSE, !.reg["aon"] = IF a.aux THEN 2 ELSE @]
        down == IF a.started THEN And(And(RestoreAll(b), CfgDown), LAMBDA d : {Ok([d EXCEPT !.started = FALSE])})
                ELSE {Ok(a)}
    IN  And(And(down, atc_gates_restore), LAMBDA e : {Ok([e EXCEPT !.active = FALSE])}))

Activate(p) ==
    IF p.active THEN {Ok(p)}
    ELSE Then(atc_gates_enable(p), LAMBDA a :
         OrElse(IF a.cfg # "cold" THEN {Err(a)}
                ELSE Then(Maybe([a EXCEPT !.started = TRUE, !.cfg = "half"], [a EXCEPT !.started = TRUE, !.cfg = "up"]), LAMBDA b :
                     Then(Updates(b, <<<<"common", 1>>>>), LAMBDA c :
                     Then(Updates([c EXCEPT !.aux = TRUE], <<<<"aon", 1>>>>), LAMBDA d :
                     {Ok([d EXCEPT !.active = TRUE])}))),
                Deactivate))

SetLinkRate(p, rate) ==
    IF ~p.active THEN {Err(p)}
    ELSE IF p.dp THEN {IF p.rate = rate THEN Ok(p) ELSE Err(p)}
    ELSE {Err(p)} \cup      \* the clock is busy
         OrElse(Then(Updates([p EXCEPT !.dp = TRUE], <<<<"shim", 1>>, <<"aon", 1>>, <<"pma", 1>>, <<"lane", 1>>, <<"pll", 1>>>>), LAMBDA a :
                Then(LET b == [a EXCEPT !.clock_owned = TRUE, !.clock = 1] IN Maybe(b, b), LAMBDA c :
                Then(atc_route_start(c), LAMBDA d : {Ok([d EXCEPT !.rate = rate])}))),
                atc_dp_stop)

SetRoute(p, enable) ==
    IF ~enable THEN atc_route_stop(p)
    ELSE IF ~p.active \/ ~p.dp THEN {Err(p)}
    ELSE atc_route_start(p)

SetDriveSettings(p) ==
    IF ~p.active \/ ~p.dp \/ p.rate # HBR THEN {Err(p)} ELSE Updates(p, <<<<"lane", 1>>, <<"lane", 1>>>>)

-----------------------------------------------------------------------------
(* Callbacks of the firmware, in any order; most are refused before the   *)
(* port is connected to its PHY                                            *)

Callback(A, done) ==
    /\ port.connected /\ port.kind = "atc"
    /\ \E o \in A : phy' = o.s /\ port' = IF o.ok THEN done ELSE port

\* dcp_dptx_connect
Connect == ~port.connected /\ port' = [port EXCEPT !.connected = TRUE] /\ UNCHANGED phy

CallActivate ==
    Callback(Then(Activate(phy), LAMBDA p : SetLinkRate(p, HBR)), [port EXCEPT !.rate = HBR, !.lanes = 0])
CallDeactivate == Callback(Deactivate(phy), [port EXCEPT !.rate = 0, !.lanes = 0])
CallChangeLinkConfig == \E enable \in BOOLEAN : Callback(SetRoute(phy, enable), port)
CallSetLinkRate == port.rate = HBR /\ Callback(SetLinkRate(phy, HBR), port)
CallSetActiveLaneCount == \E n \in {0, 4} : Callback({Ok(phy)}, [port EXCEPT !.lanes = n])
CallSetDriveSettings == Callback(SetDriveSettings(phy), port)

\* dptxport_call, with the PHYs of T8112 and T602X: fixed sequences of writes, no errors; the rate is
\* remembered whatever the PHY makes of it, and a deactivation is acknowledged and ignored
Legacy(p, q) ==
    /\ port.connected /\ port.kind = "dptx"
    /\ phy' = p /\ port' = q
LegacyActivate == Legacy([phy EXCEPT !.started = TRUE], port)
LegacySetLinkRate == \E r \in 0..4 : Legacy(phy, [port EXCEPT !.rate = r])
LegacySetActiveLaneCount == \E n \in {0, 1, 2, 4} : Legacy(phy, [port EXCEPT !.lanes = n])

Next == \/ Connect \/ CallActivate \/ CallDeactivate \/ CallChangeLinkConfig \/ CallSetLinkRate
        \/ CallSetActiveLaneCount \/ CallSetDriveSettings
        \/ LegacyActivate \/ LegacySetLinkRate \/ LegacySetActiveLaneCount
Spec == Init /\ [][Next]_vars

-----------------------------------------------------------------------------
(* Properties                                                              *)

\* Whenever the driver does not hold the PHY, after a deactivation as after an activation that failed at
\* any step, the hardware is as it was found: every register but the output latch, the display clock, the
\* sleep control and the power gates.  A part whose own restoration failed, which the driver reports and
\* forgets, stays as it was left; later activations do not change it for good either
HandedBack ==
    ~phy.active /\ port.kind = "atc" =>
       /\ \A b \in Banks \ {"latch"} : phy.reg[b] = phy.left.reg[b]
       /\ phy.on = phy.left.on /\ phy.cfg = phy.left.cfg
       /\ phy.clock = 0 /\ phy.gates = 0 /\ phy.saved = <<>>

\* Ownership is nested, whatever fails: a route only over a running DisplayPort, which runs only on an
\* active PHY with all its gates on; until a hand-back fails, the rate the port reports is that of the PHY;
\* and while the PHY is active, a register that is not as it was found has its old value saved
OwnershipNested ==
    /\ phy.route => phy.dp
    /\ phy.dp => phy.active /\ phy.gates = Len(Gates)
    /\ phy.clock # 0 => phy.clock_owned /\ phy.dp
    /\ port.rate = HBR /\ port.kind = "atc" /\ phy.lost = 0 => phy.dp /\ phy.rate = HBR
    /\ phy.active => \A b \in Banks \ {"latch"} : phy.reg[b] # phy.left.reg[b] =>
          \E i \in 1..Len(phy.saved) : phy.saved[i].bank = b /\ phy.saved[i].value = phy.left.reg[b] /\ phy.saved[i].mask
=============================================================================
