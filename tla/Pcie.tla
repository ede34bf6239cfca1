-------------------------------- MODULE Pcie --------------------------------
(***************************************************************************)
(* The PCIe controllers, src/pcie.c: pcie_init and pcie_shutdown, called   *)
(* by the boot path, the hypervisor and the proxy in any order.  The       *)
(* start-up of a controller is one action with an outcome for every place  *)
(* where the description of the machine, a tunable or a poll of the        *)
(* hardware can make it give up.                                           *)
(*                                                                         *)
(* "apcie" and "apcie0" are two names of the first controller's node, and  *)
(* a machine has at most one of them.                                      *)
(***************************************************************************)
EXTENDS Integers, Sequences, FiniteSets, Outcomes

CONSTANTS
    Machines,       \* records [chip, type, nodes, bridges]
    Ports,          \* ports of a controller
    MaxCalls        \* bound: calls

VARIABLES
    mach,           \* the machine, fixed
    pcie_initialized,
    ctl,            \* of every controller: struct state and its hardware
    ret,            \* result of the last call
    calls
vars == <<mach, pcie_initialized, ctl, ret, calls>>

Controllers == {"apcie", "ge0"}
Phys(c) == IF c = "apcie" THEN <<1>> ELSE <<1, 2>>         \* num_phys: one, or two to four for lane groups
PortSeq == SetToSortSeq(Ports, <)

\* One lane type per family: "t81xx" sets PERST in APCIE_PORT_RESET, the others in the T602X register
OldPort == mach.type = "t81xx"
HasClockGate == mach.type \in {"t602x", "t6031"}
Asleep == [appclk |-> FALSE, perst |-> FALSE, perst602x |-> FALSE, run |-> FALSE, dbi |-> FALSE]

Init ==
    /\ mach \in Machines
    /\ pcie_initialized = FALSE
    /\ ctl = [c \in Controllers |->
                [initialized |-> FALSE, dirty |-> FALSE, active |-> {}, touched |-> FALSE, early |-> FALSE,
                 phy |-> [i \in 1..2 |-> "off"], common |-> FALSE, rc |-> FALSE, port |-> [p \in Ports |-> Asleep]]]
    /\ ret = 0 /\ calls = 0

-----------------------------------------------------------------------------
(* Outcomes of the start-up of one controller, from its record k           *)

Step(k) == Maybe(k, k)      \* a read of the description, a tunable or a poll, without effect on the model

\* The ADT, the ports' geometry and, on T8140, every window and tunable: nothing is touched yet
Describe(k) == Step(k)

pcie_t8140_preflight(k) == IF mach.type = "t8140" THEN Step(k) ELSE {Ok(k)}

Power(k) == LET p == [k EXCEPT !.dirty = TRUE, !.touched = TRUE] IN Step(p)

\* AXI, PLL, clock generator, common and PHY tunables; the reference clock where it is gated
Tune(k) == Then(Step(k), LAMBDA t : IF HasClockGate THEN Step(t) ELSE {Ok(t)})

Clk(k, i, clk) == {Ok([k EXCEPT !.phy[i] = clk]), Err([k EXCEPT !.phy[i] = clk])}

\* Two clocks, reset release (confirmed on T8140), and the PHY's own tunables elsewhere
Phy(k, i) ==
    Then(Then(Clk(k, i, "clk0"), LAMBDA t : Clk(t, i, "clk1")),
         LAMBDA t : LET up == [t EXCEPT !.phy[i] = "up"] IN Step(up))

\* The common clock mode, the PHY clock and the root complex; none of it on the oldest controllers
RootComplex(k) ==
    IF OldPort THEN {Ok(k)}
    ELSE LET m == [k EXCEPT !.common = TRUE] IN
         Then(IF mach.type = "t8140" THEN {Ok(m)} ELSE Step(m), LAMBDA t : Maybe(t, [t EXCEPT !.rc = TRUE]))

\* A port's registers, its clock, its PHY clocks, PERST released, until it runs and is idle
PortUp(k, p) ==
    LET clocked(t) == [t EXCEPT !.port[p].appclk = TRUE]
        released(t) == IF OldPort THEN [t EXCEPT !.port[p].perst = TRUE] ELSE [t EXCEPT !.port[p].perst602x = TRUE]
        running(t) == Maybe(released(t), [released(t) EXCEPT !.port[p].run = TRUE]) IN
    Then(Then(Then(Step(k), LAMBDA t : IF OldPort THEN {Ok(clocked(t))} ELSE Step(clocked(t))), running),
         LAMBDA t : Step(t))

Reachable(k, c, p) ==
    /\ \A i \in 1..Len(Phys(c)) : k.phy[i] = "up"
    /\ OldPort \/ (k.common /\ k.rc)
    /\ k.port[p].appclk /\ k.port[p].run

\* The root port's configuration space: writable, tuned, link speed and width, read-only again
Configure(k, c, p) ==
    LET open == [k EXCEPT !.port[p].dbi = TRUE, !.early = @ \/ ~Reachable(k, c, p)] IN
    Then(Step(open), LAMBDA t : {Ok([t EXCEPT !.port[p].dbi = FALSE, !.active = @ \cup {p}])})

PortSetup(k, c, p) ==
    IF p \notin mach.bridges THEN {Ok(k)} ELSE Then(PortUp(k, p), LAMBDA t : Configure(t, c, p))

\* struct state is cleared before the node is looked up
StartController(c, path, k) ==
    LET z == [k EXCEPT !.initialized = FALSE, !.active = {}]
        found == Then(Describe(z), pcie_t8140_preflight)
        shared == Then(Then(found, Power), Tune)
        phys == Then(shared, LAMBDA t : ForEach(t, Phys(c), Phy))
        ports == Then(Then(phys, RootComplex), LAMBDA t : ForEach(t, PortSeq, LAMBDA u, p : PortSetup(u, c, p))) IN
    IF path \notin mach.nodes THEN {Err(z)}
    ELSE Then(ports, LAMBDA t : {Ok([t EXCEPT !.initialized = TRUE, !.dirty = FALSE])})

\* mutant: a controller that failed half way is started again
init_controller_retry(c, path, k) == StartController(c, path, k)

pcie_init_controller(c, path, k) == IF k.dirty THEN {Err(k)} ELSE StartController(c, path, k)

-----------------------------------------------------------------------------
(* The calls                                                               *)

InitT8140 ==
    /\ mach.chip = "t8140" /\ ~pcie_initialized
    /\ LET k == ctl["apcie"]
           path == IF "apcie" \in mach.nodes THEN "apcie" ELSE "apcie0" IN
       IF k.dirty THEN ret' = -1 /\ UNCHANGED <<pcie_initialized, ctl>>
       ELSE IF path \notin mach.nodes THEN ret' = 1 /\ UNCHANGED <<pcie_initialized, ctl>>
       ELSE \E o \in pcie_init_controller("apcie", path, k) :
               /\ ctl' = [ctl EXCEPT !["apcie"] = o.s]
               /\ pcie_initialized' = o.ok
               /\ ret' = IF o.ok THEN 0 ELSE IF o.s.dirty THEN -1 ELSE 1

\* Both names of the first controller are tried, one after the other, and then the lane groups
InitOthers ==
    /\ mach.chip # "t8140" /\ ~pcie_initialized
    /\ \E a \in pcie_init_controller("apcie", "apcie", ctl["apcie"]) :
       \E b \in pcie_init_controller("apcie", "apcie0", a.s) :
       \E g \in pcie_init_controller("ge0", "ge0", ctl["ge0"]) :
          LET success == a.ok \/ b.ok \/ g.ok IN
          /\ ctl' = [ctl EXCEPT !["apcie"] = b.s, !["ge0"] = g.s]
          /\ pcie_initialized' = success
          /\ ret' = IF success THEN 0 ELSE -1

pcie_init ==
    \/ InitT8140 \/ InitOthers
    \/ pcie_initialized /\ ret' = 0 /\ UNCHANGED <<pcie_initialized, ctl>>

\* PERST of the T602X register is asserted again on T602X only; the PHY's reset is left released
Quiesce(k) ==
    IF ~k.initialized THEN k
    ELSE [k EXCEPT !.initialized = FALSE, !.active = {},
                   !.phy = [i \in 1..2 |-> "off"],
                   !.port = [p \in Ports |-> IF p \notin k.active THEN k.port[p]
                                             ELSE IF mach.type = "t602x" THEN [k.port[p] EXCEPT !.perst602x = FALSE, !.appclk = FALSE, !.run = FALSE]
                                             ELSE [k.port[p] EXCEPT !.perst = FALSE, !.appclk = FALSE, !.run = FALSE]]]

pcie_shutdown ==
    IF mach.chip = "t8140" THEN ret' = -1 /\ UNCHANGED <<pcie_initialized, ctl>>
    ELSE IF ~pcie_initialized THEN ret' = 0 /\ UNCHANGED <<pcie_initialized, ctl>>
    ELSE /\ ctl' = [c \in Controllers |-> Quiesce(ctl[c])]
         /\ pcie_initialized' = FALSE
         /\ ret' = 0

Next == calls < MaxCalls /\ calls' = calls + 1 /\ (pcie_init \/ pcie_shutdown) /\ UNCHANGED mach
Spec == Init /\ [][Next]_vars

-----------------------------------------------------------------------------
(* Properties                                                              *)

\* A controller that failed after its power was requested is never driven again, whichever of its two
\* names is tried and however often (the dirty flag of pcie_init_controller).
HalfNotRetried == \A c \in Controllers : ctl[c].dirty => ctl'[c] = ctl[c]

\* What the boot path takes pcie_init's result for on T8140: 1, with the consumers disabled in the
\* device tree, only if the controller was never touched; 0, with the consumers kept, only if every
\* bridge runs and its configuration space is closed again; and configuration space is never touched
\* before the clocks, the root complex and the port are up (kboot_boot, test_pcie_sequence.py).
ResultHonest ==
    /\ \A c \in Controllers : ~ctl[c].early
    /\ mach.chip = "t8140" /\ calls > 0 =>
          LET k == ctl["apcie"] IN
          /\ ret = 1 => ~k.touched
          /\ pcie_initialized => \A p \in mach.bridges : k.port[p].run /\ ~k.port[p].dbi /\ p \in k.active

\* pcie_shutdown that says "pcie: Shutdown." and returns 0 has put every port that pcie_init had
\* brought up back into reset.
ShutdownQuiesces == [][pcie_initialized /\ ~pcie_initialized' =>
    \A c \in Controllers, p \in mach.bridges :
       ~ctl[c].dirty => ~ctl'[c].port[p].perst /\ ~ctl'[c].port[p].perst602x]_vars
=============================================================================
