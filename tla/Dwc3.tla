-------------------------------- MODULE Dwc3 --------------------------------
(***************************************************************************)
(* The SuperSpeed build of the USB device controller's driver,             *)
(* src/usb_dwc3_impl.inc, with one CDC pipe: its events, its bulk          *)
(* transfers and the sessions the host opens on it, from the connection    *)
(* to disconnects and re-announcements.                                    *)
(*                                                                         *)
(* The controller appends events to q; a call to the driver first copies   *)
(* and acknowledges them (pend) and then handles them one at a time, while *)
(* the controller goes on.  A control request is two events: its SETUP     *)
(* packet and the end of its status stage.  Data are tokens <<session, n>>:*)
(* the n-th token the host sends after opening the pipe.  A bulk OUT       *)
(* transfer is a chain of NTrb blocks (TRBs) of one token, each of which a *)
(* short packet may leave empty.                                           *)
(***************************************************************************)
EXTENDS Integers, Sequences, FiniteSets, SequencesExt

CONSTANTS
    NTrb,           \* CDC_BULK_MAX_TRBS: blocks of a transfer, each of one token
    Ring,           \* CDC_BUFFER_SIZE: length of both ring buffers
    MaxSessions,    \* bound: times the host opens the pipe
    MaxTokens,      \* bound: tokens the host sends in a session
    MaxBus          \* bound: resets, disconnects, errors, configuration requests of the host and writes of the program

VARIABLES
    d,              \* the driver
    hw,             \* the controller
    q,              \* events in the event buffer
    pend,           \* events copied from it and not yet handled
    call,           \* the call the events are handled in: "none", "read" or "poll"
    host,           \* the host
    n               \* counts for the bounds
vars == <<d, hw, q, pend, call, host, n>>

Eps == {"in", "out"}
Idle == [e \in Eps |-> FALSE]

Init ==
    /\ d = [failed |-> FALSE, unsafe |-> FALSE, ready |-> FALSE, dtr |-> FALSE, wasopen |-> FALSE,
            reconf |-> FALSE, ever |-> FALSE, prog |-> Idle, trbs |-> 0, copied |-> 0, zlp |-> FALSE,
            h2d |-> <<>>, d2h |-> <<>>, pending |-> FALSE, attempts |-> 0, session |-> 0, got |-> <<>>, reused |-> FALSE]
    /\ hw = [run |-> TRUE, enabled |-> FALSE, active |-> Idle, trb |-> <<>>, ctl |-> "idle"]
    /\ q = <<>> /\ pend = <<>> /\ call = "none"
    /\ host = [open |-> FALSE, session |-> 0, sent |-> 0, connected |-> TRUE]
    /\ n = [queued |-> 0, bus |-> 0]

-----------------------------------------------------------------------------
(* Steps of the driver, from a pair of driver and controller to the pairs  *)
(* it may leave                                                            *)

S(dr, h) == [d |-> dr, hw |-> h]

\* The controller is stopped and reset; if it does not reset, what it was doing goes on
usb_dwc3_fail_session(s) ==
    LET f == [s.d EXCEPT !.failed = TRUE, !.ready = FALSE] IN
    {S(f, [s.hw EXCEPT !.run = FALSE, !.active = Idle]),
     S([f EXCEPT !.unsafe = TRUE], [s.hw EXCEPT !.run = FALSE])}

\* A transfer in flight is taken from the controller; an event it has already queued stays
usb_dwc3_end_transfer(s, ep) == S(s.d, [s.hw EXCEPT !.active[ep] = FALSE])

\* The blocks of a chain that goes to the controller, which accepts no second one
usb_dwc3_start_bulk_transfer(s, ep, blocks) ==
    LET t == S([s.d EXCEPT !.reused = @ \/ s.hw.active[ep]],
               IF ep = "out" THEN [s.hw EXCEPT !.trb = blocks] ELSE s.hw) IN
    (IF s.hw.active[ep] THEN {} ELSE {[ok |-> TRUE, s |-> S([t.d EXCEPT !.prog[ep] = TRUE], [t.hw EXCEPT !.active[ep] = TRUE])]})
    \cup {[ok |-> FALSE, s |-> f] : f \in usb_dwc3_fail_session(t)}

usb_dwc3_trb_available(s, ep) == ~s.d.failed /\ ~s.d.prog[ep] /\ s.d.ready

Free == [owned |-> TRUE, bad |-> FALSE, data |-> <<>>]

\* ringbuffer_get_free counts the slot ringbuffer_write never fills
ringbuffer_get_free(r) == Ring - Len(r)
Fits(r, bytes) == Len(bytes) <= Ring - 1 - Len(r)

usb_dwc3_cdc_start_bulk_out_xfer(s) ==
    IF ~usb_dwc3_trb_available(s, "out") \/ ringbuffer_get_free(s.d.h2d) < NTrb THEN {s}
    ELSE {IF o.ok THEN S([o.s.d EXCEPT !.trbs = NTrb, !.copied = 0], o.s.hw) ELSE S([o.s.d EXCEPT !.trbs = 0], o.s.hw)
          : o \in usb_dwc3_start_bulk_transfer(s, "out", [i \in 1..NTrb |-> Free])}

\* What the program has queued, or the empty packet that ends a full one; a start that fails puts
\* the data back
usb_dwc3_cdc_start_bulk_in_xfer(s) ==
    LET len == IF Len(s.d.d2h) < NTrb THEN Len(s.d.d2h) ELSE NTrb IN
    IF ~usb_dwc3_trb_available(s, "in") \/ (len = 0 /\ ~s.d.zlp) THEN {s}
    ELSE {IF o.ok THEN S([o.s.d EXCEPT !.d2h = SubSeq(@, len + 1, Len(@)), !.zlp = len = NTrb], o.s.hw) ELSE o.s
          : o \in usb_dwc3_start_bulk_transfer(s, "in", <<>>)}

Reset(dr) == [dr EXCEPT !.ready = FALSE, !.dtr = FALSE, !.h2d = <<>>, !.d2h = <<>>, !.prog = Idle,
                        !.trbs = 0, !.copied = 0, !.zlp = FALSE]

EndAll(s) == FoldLeft(LAMBDA t, ep : IF t.d.prog[ep] THEN usb_dwc3_end_transfer(t, ep) ELSE t, s, <<"in", "out">>)

\* The data of the session are dropped with the transfers
usb_dwc3_close_pipe(s) == S(Reset(s.d), EndAll(s).hw)

\* mutant: completed_trbs is not advanced
CopyAgain(s, i) ==
    IF s.hw.trb[i].bad \/ ~Fits(s.d.h2d, s.hw.trb[i].data) THEN usb_dwc3_close_pipe(s)
    ELSE S([s.d EXCEPT !.h2d = @ \o s.hw.trb[i].data], s.hw)

\* A block that ended badly, or does not fit, closes the pipe
CopyOne(s, i) ==
    IF s.hw.trb[i].bad \/ ~Fits(s.d.h2d, s.hw.trb[i].data) THEN usb_dwc3_close_pipe(s)
    ELSE S([s.d EXCEPT !.h2d = @ \o s.hw.trb[i].data, !.copied = i], s.hw)

\* Blocks are copied in order, each once, up to the first the controller still has
usb_dwc3_cdc_copy_bulk_out_progress(s) ==
    FoldLeft(LAMBDA t, i : IF t.d.copied = i - 1 /\ i <= t.d.trbs /\ ~t.hw.trb[i].owned THEN CopyOne(t, i) ELSE t,
             s, [i \in 1..NTrb |-> i])

-----------------------------------------------------------------------------
(* The events                                                              *)

Connected(dr) == [dr EXCEPT !.pending = FALSE, !.attempts = 0]      \* usb_cdc_recovery_connected

usb_cdc_recovery_arm(dr) ==
    IF dr.pending \/ dr.attempts >= 3 THEN dr ELSE [dr EXCEPT !.pending = TRUE]

usb_cdc_recovery_attempted(dr) ==
    IF ~dr.pending THEN dr
    ELSE [dr EXCEPT !.attempts = @ + 1, !.pending = dr.attempts + 1 < 3]

\* A bus reset: the CDC endpoints are off until the host configures them again
usb_dwc3_handle_event_usbrst(s) ==
    S([Reset(s.d) EXCEPT !.reconf = s.d.ever], [EndAll(s).hw EXCEPT !.enabled = FALSE, !.ctl = "idle"])

\* The status stage is started; the host acknowledges it unless it has reset the bus
Status(h) == [h EXCEPT !.ctl = IF @ = "asked" THEN "status" ELSE @]

\* SET_CONFIGURATION 1: after a reset the endpoints get new resources, which may be refused
SetConfiguration(s) ==
    LET done(t) == S([t.d EXCEPT !.ever = TRUE, !.reconf = FALSE], Status([t.hw EXCEPT !.enabled = TRUE])) IN
    IF ~s.d.reconf THEN {done(s)}
    ELSE LET c == usb_dwc3_close_pipe(s) IN {done(c)} \cup usb_dwc3_fail_session(c)

Unconfigure(s) ==
    LET c == usb_dwc3_close_pipe(s) IN S([c.d EXCEPT !.reconf = TRUE], Status([c.hw EXCEPT !.enabled = FALSE]))

\* SET_CONTROL_LINE_STATE: either way the pipe is closed first; then it is open with DTR, unless the
\* status stage cannot start
SetLineState(s, dtr, session) ==
    LET c == usb_dwc3_close_pipe(s)
        o == IF dtr THEN [c.d EXCEPT !.ready = TRUE, !.dtr = TRUE, !.session = session, !.got = <<>>] ELSE c.d IN
    {S(o, Status(c.hw))} \cup usb_dwc3_fail_session(c)

usb_dwc3_ep0_handle_setup(s, e) ==
    CASE e.req = "config" -> SetConfiguration(s)
      [] e.req = "unconfig" -> {Unconfigure(s)}
      [] OTHER -> SetLineState(s, e.req = "open", e.session)

\* The end of the status stage: the first port is open from here on, and the next SETUP may come
StatusDone(s) ==
    S(IF s.d.dtr THEN [Connected(s.d) EXCEPT !.dtr = FALSE, !.wasopen = TRUE] ELSE s.d,
      [s.hw EXCEPT !.ctl = IF @ = "acked" THEN "idle" ELSE @])

\* XferInProgress, XferComplete and XferNotReady of a bulk endpoint
usb_dwc3_handle_event_ep(s, e) ==
    CASE e.t = "nrdy" /\ ~s.d.prog[e.ep] ->
            IF e.ep = "in" THEN usb_dwc3_cdc_start_bulk_in_xfer(s) ELSE usb_dwc3_cdc_start_bulk_out_xfer(s)
      [] e.t \in {"progress", "done"} /\ s.d.prog[e.ep] /\ e.err -> {usb_dwc3_close_pipe(s)}
      [] e.t = "progress" /\ s.d.prog[e.ep] /\ ~e.err -> {IF e.ep = "out" THEN usb_dwc3_cdc_copy_bulk_out_progress(s) ELSE s}
      [] e.t = "done" /\ s.d.prog[e.ep] /\ ~e.err ->
            LET t == S([s.d EXCEPT !.prog[e.ep] = FALSE], s.hw)
                c == usb_dwc3_cdc_copy_bulk_out_progress(t) IN
            IF e.ep = "in" THEN usb_dwc3_cdc_start_bulk_in_xfer(t) ELSE usb_dwc3_cdc_start_bulk_out_xfer(c)
      [] OTHER -> {s}

usb_dwc3_handle_event(s, e) ==
    IF s.d.failed THEN {s}
    ELSE CASE e.t = "setup" -> usb_dwc3_ep0_handle_setup(s, e)
           [] e.t = "status" -> {StatusDone(s)} \cup usb_dwc3_fail_session(s)
           [] e.t = "reset" -> {usb_dwc3_handle_event_usbrst(s)}
           [] e.t = "disconn" -> LET r == usb_dwc3_handle_event_usbrst(s) IN
                                 {S(IF r.d.wasopen THEN usb_cdc_recovery_arm(r.d) ELSE r.d, r.hw)}
           [] e.t = "connect" -> {S(Connected(s.d), s.hw), S(Connected(s.d), [s.hw EXCEPT !.run = FALSE])}
           [] OTHER -> usb_dwc3_handle_event_ep(s, e)

\* Soft disconnect, reset, set-up and run again; any step may fail and leave the controller stopped, or
\* still at work where it does not halt in time.  Queued events are discarded before the reset
usb_dwc3_reannounce(s) ==
    LET halted == S(s.d, [s.hw EXCEPT !.run = FALSE])
        r == usb_dwc3_handle_event_usbrst(S([s.d EXCEPT !.prog = Idle], [halted.hw EXCEPT !.active = Idle]))
        running == S([r.d EXCEPT !.reconf = FALSE, !.ever = FALSE], [r.hw EXCEPT !.run = TRUE]) IN
    {[s |-> s, events |-> q], [s |-> halted, events |-> q]}
    \cup {[s |-> t, events |-> <<>>] : t \in usb_dwc3_fail_session(halted) \cup {r, running}}

-----------------------------------------------------------------------------
(* The calls                                                               *)

\* Control and device events of a batch come before the bulk events
IsControl(e) == e.t \in {"setup", "status", "reset", "disconn", "connect"}
Batch == SelectSeq(q, IsControl) \o SelectSeq(q, LAMBDA e : ~IsControl(e))

\* usb_dwc3_handle_events, from a poll or from the read loop, which first takes what it asked for
Fetch(c) ==
    /\ call = "none" /\ ~d.failed
    /\ c = "read" => d.ready
    /\ \E k \in IF c = "read" THEN 0..Len(d.h2d) ELSE {0} :
          d' = [d EXCEPT !.got = @ \o SubSeq(d.h2d, 1, k), !.h2d = SubSeq(@, k + 1, Len(@))]
    /\ pend' = Batch /\ q' = <<>>
    /\ call' = c
    /\ UNCHANGED <<hw, host, n>>

Handle ==
    /\ pend # <<>>
    /\ \E s \in usb_dwc3_handle_event(S(d, hw), Head(pend)) : d' = s.d /\ hw' = s.hw
    /\ pend' = Tail(pend)
    /\ UNCHANGED <<q, call, host, n>>

\* After the batch: a re-announcement that is due, which discards queued events; the read loop then
\* starts a transfer
usb_dwc3_maybe_reannounce ==
    {[s |-> S(usb_cdc_recovery_attempted(o.s.d), o.s.hw), events |-> o.events] : o \in usb_dwc3_reannounce(S(d, hw))}

Finish(due) ==
    /\ call # "none" /\ pend = <<>>
    /\ call' = "none"
    /\ \E o \in IF due /\ d.pending /\ ~d.failed THEN usb_dwc3_maybe_reannounce ELSE {[s |-> S(d, hw), events |-> q]} :
       \E t \in IF call = "read" THEN usb_dwc3_cdc_start_bulk_out_xfer(o.s) ELSE {o.s} :
          d' = t.d /\ hw' = t.hw /\ q' = o.events
    /\ UNCHANGED <<pend, host, n>>

\* usb_dwc3_write: queue, then start
Write ==
    /\ call = "none" /\ d.ready /\ n.bus < MaxBus
    /\ Fits(d.d2h, <<n.queued>>)
    /\ \E s \in usb_dwc3_cdc_start_bulk_in_xfer(S([d EXCEPT !.d2h = Append(@, n.queued)], hw)) : d' = s.d /\ hw' = s.hw
    /\ n' = [queued |-> n.queued + 1, bus |-> n.bus + 1]
    /\ UNCHANGED <<q, pend, call, host>>

-----------------------------------------------------------------------------
(* The controller and the host                                             *)

Post(e) == q' = Append(q, e)
Bulk(t, ep, err) == [t |-> t, ep |-> ep, err |-> err]

AtHand == CHOOSE j \in 1..NTrb : hw.trb[j].owned /\ \A k \in 1..j - 1 : ~hw.trb[k].owned

\* The host sends a token, or an empty packet, into the next block; the last one ends the transfer
HostSends ==
    /\ hw.run /\ hw.active["out"] /\ host.open
    /\ \E data \in {<<>>} \cup (IF host.sent < MaxTokens THEN {<< <<host.session, host.sent + 1>> >>} ELSE {}) :
          /\ data = <<>> => n.bus < MaxBus
          /\ hw' = [hw EXCEPT !.trb[AtHand] = [Free EXCEPT !.owned = FALSE, !.data = data], !.active["out"] = AtHand < NTrb]
          /\ Post(Bulk(IF AtHand < NTrb THEN "progress" ELSE "done", "out", FALSE))
          /\ host' = [host EXCEPT !.sent = @ + Len(data)]
          /\ n' = [n EXCEPT !.bus = @ + (1 - Len(data))]
    /\ UNCHANGED <<d, pend, call>>

\* The host has taken the data of an IN transfer
HostReceives ==
    /\ hw.run /\ hw.active["in"] /\ host.connected
    /\ hw' = [hw EXCEPT !.active["in"] = FALSE]
    /\ Post(Bulk("done", "in", FALSE))
    /\ UNCHANGED <<d, pend, call, host, n>>

\* A bus error ends a transfer, or the block at hand is retired as bad
BusError ==
    /\ hw.run /\ n.bus < MaxBus
    /\ \/ \E ep \in Eps :
             hw.active[ep] /\ hw' = [hw EXCEPT !.active[ep] = FALSE] /\ Post(Bulk("done", ep, TRUE))
       \/ /\ hw.active["out"] /\ host.open
          /\ hw' = [hw EXCEPT !.trb[AtHand] = [Free EXCEPT !.owned = FALSE, !.bad = TRUE], !.active["out"] = AtHand < NTrb]
          /\ Post(Bulk(IF AtHand < NTrb THEN "progress" ELSE "done", "out", FALSE))
    /\ n' = [n EXCEPT !.bus = @ + 1]
    /\ UNCHANGED <<d, pend, call, host>>

\* The host asks for data, or has some, where no transfer is ready
NotReady ==
    /\ hw.run /\ hw.enabled
    /\ \E ep \in Eps : ~hw.active[ep] /\ Bulk("nrdy", ep, FALSE) \notin Range(q) \cup Range(pend) /\ Post(Bulk("nrdy", ep, FALSE))
    /\ UNCHANGED <<d, hw, pend, call, host, n>>

\* A control request, one at a time; only opens count as sessions
HostAsks ==
    /\ hw.run /\ hw.ctl = "idle" /\ host.connected
    /\ \/ /\ hw.enabled /\ host.session < MaxSessions
          /\ host' = [host EXCEPT !.open = FALSE, !.session = @ + 1, !.sent = 0]
          /\ Post([t |-> "setup", req |-> "open", session |-> host.session + 1])
          /\ UNCHANGED n
       \/ /\ n.bus < MaxBus
          /\ \E r \in {"config", "unconfig", "close"} :
                /\ r = "config" \/ hw.enabled
                /\ Post([t |-> "setup", req |-> r, session |-> 0])
          /\ host' = [host EXCEPT !.open = FALSE]
          /\ n' = [n EXCEPT !.bus = @ + 1]
    /\ hw' = [hw EXCEPT !.ctl = "asked"]
    /\ UNCHANGED <<d, pend, call>>

\* The status stage: after an open the host uses the pipe
HostAcknowledges ==
    /\ hw.run /\ hw.ctl = "status"
    /\ Post([t |-> "status"])
    /\ hw' = [hw EXCEPT !.ctl = "acked"]
    /\ host' = [host EXCEPT !.open = d.ready /\ d.session = host.session]
    /\ UNCHANGED <<d, pend, call, n>>

\* The bus is reset, the cable pulled or the link trained
Bus(t) ==
    /\ hw.run /\ n.bus < MaxBus
    /\ t = "connect" <=> ~host.connected
    /\ host' = [host EXCEPT !.open = FALSE, !.connected = t # "disconn"]
    /\ n' = [n EXCEPT !.bus = @ + 1]
    /\ Post([t |-> t])
    /\ hw' = [hw EXCEPT !.ctl = IF t = "connect" THEN @ ELSE "reset"]
    /\ UNCHANGED <<d, pend, call>>

Driver == (\E c \in {"read", "poll"} : Fetch(c)) \/ Handle \/ (\E due \in BOOLEAN : Finish(due))
Controller ==
    HostSends \/ HostReceives \/ BusError \/ NotReady \/ HostAsks \/ HostAcknowledges
    \/ \E t \in {"reset", "disconn", "connect"} : Bus(t)
Next == Driver \/ Write \/ Controller

Spec == Init /\ [][Next]_vars

-----------------------------------------------------------------------------
(* Properties                                                              *)

\* What the program has read in a session, with what still waits in the ring buffer, is what the host
\* has sent since it opened the pipe: nothing of an earlier session, nothing twice, nothing left out
\* or out of order, across short packets, resets, reopened pipes and late events
\* (usb_dwc3_cdc_copy_bulk_out_progress, usb_dwc3_close_pipe).
OutStream == d.ready => LET all == d.got \o d.h2d IN all = [i \in 1..Len(all) |-> <<d.session, i>>]

\* "allows the controller 1 ms to retire DMA before reusing the TRB" (usb_dwc3_end_transfer): the
\* blocks and the buffer of an endpoint are not written while the controller works on a transfer.
TrbRetired == ~d.reused
=============================================================================
