------------------------------- MODULE UsbLink ------------------------------
(***************************************************************************)
(* The USB port the proxy uses and how it gets its cable: src/usb.c,       *)
(* src/usb_cdc.c, src/usb_cdc_state.c, src/usb_cdc_atc.c, src/tps6598x.c,  *)
(* src/wdt.c, src/stage1_proxy.c, the window of src/uartproxy.c and the    *)
(* way src/main.c goes through them.                                       *)
(*                                                                         *)
(* On T8140 the boot ROM's debug carrier (KIS) holds the cable.  A         *)
(* scheduled transition takes it away, past recall, and brings up the CDC  *)
(* link; a watchdog runs until the host opens that link.  On the other     *)
(* chips every port is simply initialised.  u is everything the code       *)
(* keeps; each register access, power domain and allocation may fail.      *)
(***************************************************************************)
EXTENDS Integers, Sequences, FiniteSets, Outcomes

CONSTANTS
    Machines,       \* records of chip ("t8140" or "other"), debug (aura-debug) and window (stage 1 window)
    Ports,          \* USB_IODEV_COUNT ports from 0; port p has the type-C controller (HPM) p
    MaxRequests     \* bound: requests of the host

VARIABLES mach, u, phase, requests
vars == <<mach, u, phase, requests>>

T8140(m) == m.chip = "t8140"
PortSeq == [i \in 1..Cardinality(Ports) |-> i - 1]

Init ==
    /\ mach \in Machines
    /\ u = [state |-> "idle", flags |-> {}, armed |-> FALSE, wdt |-> FALSE, owned |-> FALSE, opened |-> FALSE,
            inited |-> FALSE, mask |-> [p \in Ports |-> "orig"], saved |-> [p \in Ports |-> "none"],
            cdcsaved |-> "none", ports |-> {}, dwc |-> [p \in Ports |-> "off"], dart |-> {},
            atc |-> [ready |-> FALSE, lane |-> 0, active |-> 0, on |-> FALSE, pipe |-> "none", torn |-> FALSE],
            recovery |-> [pending |-> FALSE, attempts |-> 0], kisonly |-> FALSE, refused |-> FALSE]
    /\ phase = "start"
    /\ requests = 0

Cmd(t) == Maybe(t, t)       \* a step that may fail and changes nothing here
States(A) == {o.s : o \in A}

-----------------------------------------------------------------------------
(* The type-C controllers                                                  *)

\* The address from the device tree, on SPMI also the wake-up
tps6598x_init(t) == Cmd(t)

\* One register, over I2C or through the SPMI select register, which must answer in time
tps6598x_reg(t) == Cmd(t)

\* Data, command, polled until it is done or the deadline has passed
tps6598x_command(t) == Then(tps6598x_reg(t), tps6598x_reg)

\* A session with one controller up to its action: the bus and the controller answer.  Both are
\* closed after the action, whose result is the session's.
tps6598x_foreach_hpm(t) == Then(Cmd(t), tps6598x_init)

\* The power state is read, set with SSPS when needed and read back
tps6598x_powerup(t) == Then(tps6598x_reg(t), LAMBDA a : {Ok(a)} \cup Then(tps6598x_command(a), tps6598x_reg))

\* The mask is saved before the interrupts are acknowledged and masked
tps6598x_disable_irqs(t, p, cdc) ==
    LET kept == IF cdc THEN [t EXCEPT !.cdcsaved = t.mask[p]] ELSE [t EXCEPT !.saved[p] = t.mask[p]] IN
    {Err(t), Err(kept), Ok([kept EXCEPT !.mask[p] = "zero"])}

tps6598x_restore_irqs(t, p) == Maybe(t, [t EXCEPT !.mask[p] = t.saved[p]])

\* Gaid: the controller comes back with its own interrupt mask
cdc_reset_hpm(t) == Maybe(t, [t EXCEPT !.mask[0] = "orig"])
cdc_power_hpm(t) == Then(tps6598x_powerup(t), LAMBDA a : tps6598x_disable_irqs(a, 0, TRUE))

\* Failures are printed and the next controller follows
usb_init_one(t, p) == And(tps6598x_powerup(t), LAMBDA a : tps6598x_disable_irqs(a, p, FALSE))

\* With force also the controllers of ports in use
usb_hpm_restore_irqs(t, force) ==
    ForAll(t, SelectSeq(PortSeq, LAMBDA p : t.saved[p] # "none" /\ (force \/ p \notin t.ports)),
           LAMBDA a, p : Then(tps6598x_foreach_hpm(a), LAMBDA b : tps6598x_restore_irqs(b, p)))

-----------------------------------------------------------------------------
(* The PHY and the controller                                              *)

\* The lane the cable's orientation asks for, or the one forced on it
Lanes(t) == IF "swapped" \in t.flags THEN {1} ELSE {0, 1}

\* Everything is checked first; power, calibration and tunables may still fail
usb_cdc_atc_power_on(t) ==
    LET parked == [t EXCEPT !.atc.ready = FALSE, !.atc.pipe = "dummy"] IN
    {Err(t), Err(parked)}
    \cup UNION {LET on == [parked EXCEPT !.atc.lane = l, !.atc.active = l, !.atc.on = TRUE] IN
                {Err(on), Ok([on EXCEPT !.atc.ready = TRUE])} : l \in Lanes(t)}

\* A changed orientation is programmed before the pipe moves over to the PHY; one that is programmed and then not
\* calibrated in time (torn) is not the one the driver remembers
usb_cdc_atc_switch_pipe(t) ==
    {Err(t)}
    \cup UNION {LET off == [t EXCEPT !.atc.on = FALSE]
                    on == [t EXCEPT !.atc.lane = l, !.atc.on = TRUE] IN
                IF l = t.atc.active THEN {Ok([t EXCEPT !.atc.pipe = "usb3"])}
                ELSE {Err(off), Err([on EXCEPT !.atc.torn = TRUE]), Ok([on EXCEPT !.atc.active = l, !.atc.pipe = "usb3"])}
                : l \in IF t.atc.ready /\ t.atc.on THEN Lanes(t) ELSE {}}

\* Both the controller and the PHY must be in the device tree
usb_drd_get_regs(t) == Cmd(t)

usb_dart_init(t, p) == Maybe(t, [t EXCEPT !.dart = @ \cup {p}])

\* Power domains of PHY, DART and controller, then the PHY
usb_phy_bringup(t, p) ==
    Then(usb_drd_get_regs(t), LAMBDA a : IF T8140(mach) /\ p = 0 THEN usb_cdc_atc_power_on(a) ELSE {Ok(a)})

\* A controller that does not reset keeps its mappings
usb_dwc3_shutdown(t, p) ==
    {Ok([t EXCEPT !.dwc[p] = "unsafe"]), Ok([t EXCEPT !.dwc[p] = "off", !.dart = @ \ {p}])}

\* A missing core leaves the DART initialised; later failures shut everything down
usb_dwc3_init(t, p) ==
    {Err(t)} \cup {Err(o.s) : o \in usb_dwc3_shutdown(t, p)} \cup {Ok([t EXCEPT !.dwc[p] = "run"])}

\* DART, registers, controller
usb_iodev_bringup(t, p) ==
    Then(usb_dart_init(t, p), LAMBDA a : Then(usb_drd_get_regs(a), LAMBDA b : usb_dwc3_init(b, p)))

Register(t, p) == [t EXCEPT !.ports = @ \cup {p}]

\* A port whose iodev cannot be allocated is skipped with its controller running
usb_iodev_init(t) ==
    IF mach.debug \/ T8140(mach) THEN {Ok(t)}
    ELSE ForAll(t, PortSeq, LAMBDA a, p : Then(usb_iodev_bringup(a, p), LAMBDA b : Maybe(b, Register(b, p))))

\* Every registered port is unregistered and its controller shut down
usb_iodev_shutdown(t) ==
    ForAll(t, SelectSeq(PortSeq, LAMBDA p : p \in t.ports),
           LAMBDA a, p : usb_dwc3_shutdown([a EXCEPT !.ports = @ \ {p}], p))

LinkFailed(t) == States(usb_dwc3_shutdown([t EXCEPT !.ports = @ \ {0}], 0))

\* When the pipe does not switch, what was brought up goes down again
LinkSwitch(t) ==
    UNION {IF o.ok THEN {o} ELSE {Err(f) : f \in LinkFailed(o.s)} : o \in usb_cdc_atc_switch_pipe(t)}

\* PHY, controller, iodev, pipe
usb_cdc_link_start(t) ==
    IF ~T8140(mach) \/ 0 \in t.ports THEN {Err(t)}
    ELSE Then(usb_phy_bringup(t, 0), LAMBDA a :
         Then(usb_iodev_bringup(a, 0), LAMBDA b :
            {Err(f) : f \in LinkFailed(b)} \cup LinkSwitch(Register(b, 0))))

-----------------------------------------------------------------------------
(* The CDC transition                                                      *)

\* A watchdog whose registers do not read back is reported as not armed, running or not
wdt_arm_seconds(t) ==
    LET refused == [t EXCEPT !.refused = TRUE] IN
    {Err(refused), Err([refused EXCEPT !.wdt = TRUE]), Ok([t EXCEPT !.wdt = TRUE])}
wdt_disable(t) == [t EXCEPT !.wdt = FALSE]
usb_cdc_arm_watchdog(t) == Then(wdt_arm_seconds(t), LAMBDA a : {Ok([a EXCEPT !.armed = TRUE])})
Disarm(t) == IF t.armed THEN [wdt_disable(t) EXCEPT !.armed = FALSE] ELSE t

\* Delays from 1000 to 15000 ms; the Gen1 flag is required
usb_cdc_state_schedule(t, delay, flags) ==
    IF t.state # "idle" \/ delay < 1000 \/ delay > 15000 \/ "gen1" \notin flags THEN {Err(t)}
    ELSE {Ok([t EXCEPT !.state = "scheduled", !.flags = flags])}

\* Without a watchdog the transition is not scheduled
usb_cdc_schedule(t, delay, flags) ==
    IF mach.debug \/ ~T8140(mach) THEN {Err(t)}
    ELSE Then(usb_cdc_state_schedule(t, delay, flags), LAMBDA a :
              OrElse(usb_cdc_arm_watchdog(a), LAMBDA b : {Ok([b EXCEPT !.state = "idle"])}))

\* usb_cdc_poll once the deadline has passed: the carrier is gone before anything can fail
Transition(t) ==
    LET taken == [t EXCEPT !.owned = TRUE]
        reset == IF "reset" \in t.flags THEN Then(tps6598x_foreach_hpm(taken), cdc_reset_hpm) ELSE {Ok(taken)}
        A == Then(reset, LAMBDA a : Then(Then(tps6598x_foreach_hpm(a), cdc_power_hpm), usb_cdc_link_start)) IN
    {[o.s EXCEPT !.state = IF o.ok THEN "ready" ELSE "failed"] : o \in A}

\* The deadline may have passed or not
usb_cdc_poll(t) == {t} \cup (IF t.state = "scheduled" THEN Transition(t) ELSE {})

usb_cdc_cancel(t) == IF t.owned \/ t.state # "scheduled" THEN {Err(t)} ELSE {Ok(Disarm([t EXCEPT !.state = "idle"]))}

usb_cdc_cleanup(t) == {Disarm(o.s) : o \in usb_iodev_shutdown(t)}

\* The host opens the first port
usb_cdc_primary_opened(t) == [(IF t.state = "ready" THEN Disarm(t) ELSE t) EXCEPT !.opened = TRUE]

usb_cdc_link_failed(t) == [t EXCEPT !.state = "failed"]

\* A controller at another speed than SuperSpeed is stopped; its iodev stays
usb_dwc3_handle_event_connect_done(t) ==
    LET c == [t EXCEPT !.recovery = [pending |-> FALSE, attempts |-> 0]] IN
    {c, usb_cdc_link_failed([c EXCEPT !.dwc[0] = "stop"])}

\* A link that was open once is announced again, at most three times
usb_cdc_recovery_arm(t) == [t EXCEPT !.recovery.pending = @ \/ (t.opened /\ t.recovery.attempts < 3)]

\* The driver gives the controller up: stopped and reset, with its mappings
usb_dwc3_fail_session(t) == [t EXCEPT !.dwc[0] = "failed"]

\* The controller is stopped and reset, the pipe switched again and the controller set up and started; the
\* link keeps its state whatever fails on the way
usb_dwc3_reannounce(t) ==
    LET stopped == [t EXCEPT !.dwc[0] = "stop"] IN
    {stopped, usb_dwc3_fail_session(stopped)}
    \cup UNION {IF o.ok THEN {o.s, [o.s EXCEPT !.dwc[0] = "run"]} ELSE {o.s} : o \in usb_cdc_atc_switch_pipe(stopped)}
usb_dwc3_maybe_reannounce(t) ==
    IF ~t.recovery.pending \/ t.dwc[0] = "failed" THEN {t}
    ELSE {t} \cup {[r EXCEPT !.recovery = [pending |-> t.recovery.attempts < 2, attempts |-> t.recovery.attempts + 1]]
                  : r \in usb_dwc3_reannounce(t)}

\* The events of the port of T8140: none, an open, a link, its loss or a failure of the session; then a
\* re-announcement that is due.  What the ports of the other chips do is no part of this.
iodev_handle_events(t) ==
    IF ~T8140(mach) \/ 0 \notin t.ports \/ t.dwc[0] = "failed" THEN {t}
    ELSE UNION {usb_dwc3_maybe_reannounce(a) :
                a \in {t, usb_cdc_primary_opened(t), usb_cdc_recovery_arm(t), usb_dwc3_fail_session(t)}
                     \cup usb_dwc3_handle_event_connect_done(t)}

\* On T8140 a deferred transition; elsewhere the controllers and PHYs, once
usb_init(t) ==
    IF mach.debug \/ t.inited THEN {t}
    ELSE IF T8140(mach)
         THEN IF t.state # "ready" /\ ~t.owned THEN States(usb_cdc_schedule(t, 0, {"gen1", "reset"})) ELSE {t}
         ELSE {[o.s EXCEPT !.inited = TRUE] : o \in
                  And(ForAll(t, PortSeq, LAMBDA a, p : Then(tps6598x_foreach_hpm(a), LAMBDA b : usb_init_one(b, p))),
                      LAMBDA a : ForAll(a, PortSeq, usb_phy_bringup))}

-----------------------------------------------------------------------------
(* The boot                                                                *)

\* stage1_proxy_window_step
WindowStep(t, owned, cdcsync, kissync, late) ==
    IF t.state = "failed" /\ owned THEN "cdc_failed"
    ELSE IF ~t.kisonly /\ (~T8140(mach) \/ t.state = "ready") /\ cdcsync THEN "cdc"
    ELSE IF ~owned /\ kissync THEN "kis"
    ELSE IF late THEN "timeout" ELSE "wait"

\* The start of uartproxy_wait_stage1; a refused schedule leaves only the debug carrier
OpenWindow ==
    /\ phase = "start"
    /\ mach.window
    /\ u' \in IF T8140(mach)
              THEN {[o.s EXCEPT !.kisonly = ~o.ok] : o \in usb_cdc_schedule(u, 1000, {"gen1", "reset"})}
              ELSE UNION {States(usb_iodev_init(a)) : a \in usb_init(u)}
    /\ phase' = "window"
    /\ UNCHANGED <<mach, requests>>

\* One round of the window: the transition if it is due, the ports, then the verdict
Window ==
    /\ phase = "window"
    /\ \E a \in usb_cdc_poll(u), kissync, late \in BOOLEAN :
       \E b \in iodev_handle_events(a), cdcsync \in (IF a.ports = {} THEN {FALSE} ELSE BOOLEAN) :
          LET result == WindowStep(b, a.owned, cdcsync, kissync, late)
              cancel == IF result = "kis" /\ T8140(mach) /\ ~b.kisonly THEN usb_cdc_cancel(b) ELSE {Ok(b)} IN
          \E o \in cancel :
             /\ u' = o.s
             /\ phase' = CASE result = "wait" -> "window"
                           [] result = "cdc" \/ (result = "kis" /\ o.ok) -> "host"
                           [] result = "timeout" -> "payload"
                           [] OTHER -> "payload_failed"
    /\ UNCHANGED <<mach, requests>>

NoWindow == phase = "start" /\ ~mach.window /\ phase' = "payload" /\ UNCHANGED <<mach, u, requests>>

\* stage1_proxy_payload_action: a valid payload, a carrier that still works, or a halt
Payload ==
    /\ phase \in {"payload", "payload_failed"}
    /\ \E valid \in BOOLEAN :
          \/ valid /\ phase' = "handoff" /\ u' = u
          \/ /\ ~valid
             /\ phase = "payload_failed" \/ (u.state # "ready" /\ u.owned)
             /\ phase' = "halted" /\ u' = u
          \/ /\ ~valid
             /\ phase # "payload_failed" /\ (u.state = "ready" \/ ~u.owned)
             /\ phase' = "proxy"
             /\ u' \in UNION {States(usb_iodev_init(a)) : a \in usb_init(u)}
    /\ UNCHANGED <<mach, requests>>

\* One request of uartproxy_run: the host may schedule the transition, restore the
\* interrupts (P_VECTOR by force, the hypervisor for the ports not in use) or leave
Proxy ==
    /\ phase \in {"host", "proxy", "last"}
    /\ requests < MaxRequests
    /\ requests' = requests + 1
    /\ \E a \in usb_cdc_poll(u) : \E b \in iodev_handle_events(a) :
          \/ u' = b /\ UNCHANGED phase
          \/ /\ \E delay \in {999, 1000, 15000, 15001}, flags \in SUBSET {"gen1", "reset", "swapped"} :
                   u' \in States(usb_cdc_schedule(b, delay, flags))
             /\ UNCHANGED phase
          \/ \E force \in BOOLEAN :
                /\ u' \in States(usb_hpm_restore_irqs(b, force))
                /\ phase' = IF ~force THEN phase ELSE IF phase = "last" THEN "halted" ELSE "handoff"
    /\ UNCHANGED mach

\* m1n1_main once a next stage is there; an NVMe that does not stop leads to the proxy and
\* nowhere from there
Handoff ==
    /\ phase = "handoff"
    /\ \/ phase' = "last" /\ u' = u
       \/ phase' = "next" /\ u' \in usb_cdc_cleanup(u)
    /\ UNCHANGED <<mach, requests>>

Next == OpenWindow \/ Window \/ NoWindow \/ Payload \/ Proxy \/ Handoff

Spec == Init /\ [][Next]_vars

-----------------------------------------------------------------------------
(* Properties                                                              *)

\* Taking the cable from the debug carrier cannot be undone, so it is never done without a running
\* watchdog, and that keeps running until the host has opened the new link or the next stage starts:
\* a link that never comes up ends in a reset, not in a machine nobody can reach (usb_cdc_schedule,
\* usb_cdc_cancel, usb_cdc_primary_opened and usb_cdc_cleanup share the watchdog).
WatchdogCovers == u.owned /\ ~u.opened /\ phase # "next" => u.wdt /\ u.armed

\* The interrupt mask kept for a type-C controller is the one it had before the ports were first
\* initialised, however often the window, the fallback and the boot ask for initialisation, so that
\* restoring it gives back what the boot firmware had set (usb_init, tps6598x_disable_irqs).
MaskOriginal == {u.saved[p] : p \in Ports} \cup {u.cdcsaved} \subseteq {"none", "orig"}

\* The CDC link is whole or does not run: a controller that runs has its pipe on a PHY that is powered and programmed
\* for the lane in use, after the transition and after every re-announcement, which switches the pipe again while the
\* link is reported ready, unless a change of lanes failed once after it was programmed, which leaves active_lane
\* behind and a cable turned back unnoticed (usb_cdc_atc.c:232); an iodev is registered exactly for a controller that is set up, and a controller that may
\* still write has its mappings.  A link reported ready has its iodev; its controller is stopped only by a
\* re-announcement, of a link the host had opened, that failed (usb_cdc_link_start, usb_dwc3_reannounce,
\* usb_dwc3_handle_event_connect_done).
LinkWhole ==
    T8140(mach) =>
        /\ 0 \in u.ports <=> u.dwc[0] \in {"run", "stop", "failed"}
        /\ u.dwc[0] = "run" => u.atc.ready /\ u.atc.on /\ u.atc.pipe = "usb3" /\ (u.atc.lane = u.atc.active \/ u.atc.torn)
        /\ u.state = "ready" /\ phase # "next" => 0 \in u.ports /\ (u.dwc[0] = "stop" => u.opened)
        /\ u.dwc[0] # "off" => 0 \in u.dart

\* "This PHY requires a deferred carrier transition": a proxy that is entered for want of a payload,
\* on a machine whose watchdog works, has that transition scheduled or the link already up (usb_init).
FallbackScheduled == phase = "proxy" /\ T8140(mach) /\ ~mach.debug /\ ~u.refused => u.state # "idle"
=============================================================================
