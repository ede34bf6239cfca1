------------------------------- MODULE Rtkit -------------------------------
(***************************************************************************)
(* A session with a coprocessor (IOP) that runs RTKit: src/rtkit.c on top  *)
(* of the mailboxes of src/asc.c.  rtkit_init, rtkit_boot or               *)
(* rtkit_boot_timed, rtkit_recv called by the user, rtkit_quiesce or       *)
(* rtkit_sleep, rtkit_free; after that a new session may begin.            *)
(*                                                                         *)
(* The IOP follows the protocol as far as the code depends on it, but may  *)
(* fall silent, crash, or send a message nobody expects.                   *)
(* Buffers the AP allocates are numbers; -1 is memory of the IOP's own.    *)
(***************************************************************************)
EXTENDS Integers, Sequences, FiniteSets

CONSTANTS
    Devices,    \* the devices: records of kind ("sart", "dart" or "sram": the memory access of the
                \* IOP), v8 (ASCWrap-v8), timed (booted with a time limit), ver (the lowest and the
                \* highest version the IOP supports), eps (the system endpoints it announces), and
                \* two bounds: sessions, and extra, messages the protocol does not call for
    Depth       \* messages a mailbox holds

ASSUME ConstantsAssumption ==
    /\ \A d \in Devices :
          /\ d.kind \in {"sart", "dart", "sram"} /\ d.v8 \in BOOLEAN /\ d.timed \in BOOLEAN
          /\ d.extra \in Nat /\ d.sessions \in Nat
    /\ Depth \in Nat \ {0}

MIN_VERSION == 11
MAX_VERSION == 12

BootOps == {"boot", "boot_ap"}

\* System endpoints in the order in which rtkit_boot starts them
EpOrder == <<"debug", "crashlog", "syslog", "ioreport", "oslog">>
BufferEps == {"crashlog", "syslog", "ioreport", "oslog"}

VARIABLES
    dev,                \* the device
    iop_power, ap_power, crashed,
    bfr,                \* the four buffers: number (0 if none) and owned
    has,                \* has_crashlog and so on: local of rtkit_boot_internal
    pc, back, op,       \* where the AP is, where rtkit_recv returns to, the call in progress
    alloced, mapped,    \* memory of buffers that is allocated, that the IOP may access
    late,               \* the time limit of the wait in progress has passed
    i2a, a2i,           \* the mailboxes
    iop,                \* the coprocessor
    extra, session

rtk == <<iop_power, ap_power, crashed, bfr>>
mem == <<alloced, mapped>>
control == <<pc, back, op, late>>
vars == <<dev, rtk, has, control, mem, i2a, a2i, iop, extra, session>>

NoBuffer == [n |-> 0, owned |-> FALSE]
IopMemory == -1
Msg(ep, type, val) == [ep |-> ep, type |-> type, val |-> val]
Mgmt(type, val) == Msg("mgmt", type, val)

\* A coprocessor before its first start
ColdIop ==
    [run |-> FALSE, st |-> "off", ap |-> "off", agreed |-> 0, started |-> {}, asked |-> {}, told |-> {}, sent |-> {}]

Init ==
    /\ dev \in Devices
    /\ iop_power = "off" /\ ap_power = "off" /\ crashed = FALSE
    /\ bfr = [e \in BufferEps |-> NoBuffer]
    /\ has = {}
    /\ pc = "new" /\ back = "new" /\ op = "boot" /\ late = FALSE
    /\ alloced = {} /\ mapped = {}
    /\ i2a = <<>> /\ a2i = <<>>
    /\ iop = ColdIop
    /\ extra = 0 /\ session = 1

-----------------------------------------------------------------------------
(* The coprocessor (external: modelled from how rtkit.c uses it)           *)

Say(m) == Len(i2a) < Depth /\ i2a' = Append(i2a, m)
Quiet == UNCHANGED <<dev, rtk, has, control, mem, session>>

\* It takes one message from the AP and does what the message asks for
IopTakes ==
    /\ iop.run /\ a2i # <<>>
    /\ a2i' = Tail(a2i)
    /\ LET m == Head(a2i)
       IN  CASE m.type = "iop_power" /\ m.val = "init" /\ iop.st # "on" ->
                  /\ iop' = [iop EXCEPT !.st = "hello", !.agreed = 0, !.started = {}, !.asked = {},
                                        !.sent = {}]
                  /\ Say(Mgmt("hello", dev.ver))
             [] m.type = "hello_ack" ->
                  /\ iop' = [iop EXCEPT !.agreed = m.val, !.st = "epmap"]
                  /\ Say(Mgmt("epmap", [eps |-> dev.eps, done |-> FALSE]))
             [] m.type = "epmap_reply" /\ ~m.val ->
                  /\ UNCHANGED iop
                  /\ Say(Mgmt("epmap", [eps |-> {}, done |-> TRUE]))
             [] m.type = "epmap_reply" /\ m.val ->
                  /\ iop' = [iop EXCEPT !.st = "on"]
                  /\ UNCHANGED i2a
             [] m.type = "start_ep" ->
                  /\ iop' = [iop EXCEPT !.started = @ \cup {m.val}]
                  /\ UNCHANGED i2a
             [] m.type = "buffer" ->
                  /\ iop' = [iop EXCEPT !.told = @ \cup {m.val}]
                  /\ UNCHANGED i2a
             [] m.type = "ap_power" ->
                  /\ iop' = [iop EXCEPT !.ap = m.val]
                  /\ Say(Mgmt("ap_power_ack", m.val))
             [] m.type = "iop_power" /\ m.val # "init" ->
                  /\ iop' = [iop EXCEPT !.st = m.val]
                  /\ Say(Mgmt("iop_power_ack", m.val))
             [] OTHER -> UNCHANGED <<iop, i2a>>
    /\ UNCHANGED extra /\ Quiet

\* Once all endpoints are known it reports that it is on, and asks for the buffers it needs.  It may
\* have a buffer of its own.
IopReports ==
    /\ iop.run /\ iop.st = "on"
    /\ \/ /\ "on" \notin iop.sent
          /\ Say(Mgmt("iop_power_ack", "on"))
          /\ iop' = [iop EXCEPT !.sent = @ \cup {"on"}]
       \/ \E e \in (iop.started \cap BufferEps) \ iop.asked, own \in {dev.kind = "sram", dev.kind # "sart"} :
             /\ Say(Msg(e, "request", own))
             /\ iop' = [iop EXCEPT !.asked = @ \cup {e}]
    /\ UNCHANGED <<a2i, extra>> /\ Quiet

\* Messages that may come at any time: a log entry that wants an acknowledgement, a message to the
\* user, a crash, a request for a second buffer, nonsense
Unasked == {Msg("syslog", "log", 0), Msg("app", "data", 0), Msg("crashlog", "request", FALSE),
            Msg("syslog", "request", FALSE), Mgmt("unknown", 0)}

IopExtra ==
    /\ iop.run /\ extra < dev.extra
    /\ \E m \in Unasked : Say(m)
    /\ extra' = extra + 1
    /\ UNCHANGED <<a2i, iop>> /\ Quiet

-----------------------------------------------------------------------------
(* Mailboxes, src/asc.c                                                    *)

asc_can_send == Len(a2i) < Depth
asc_can_recv == i2a # <<>>

\* asc_send waits for room; after 200 ms with a full mailbox it gives up
asc_send(m) == asc_can_send /\ a2i' = Append(a2i, m)
asc_send_fails == ~asc_can_send /\ UNCHANGED a2i

-----------------------------------------------------------------------------
(* Buffers                                                                 *)

FreshBuffer == CHOOSE n \in 1..(Cardinality(alloced) + 1) : n \notin alloced

\* The reply that tells the IOP of its buffer; session is not part of the message, it tells apart
\* what different sessions have granted
Grant(e) == Msg(e, "buffer", [session |-> session, n |-> FreshBuffer])

\* rtkit_alloc_buffer for no bytes at all, without memory, and with memory that cannot be mapped
AllocFails(e) ==
    /\ \/ UNCHANGED bfr
       \/ bfr' = [bfr EXCEPT ![e].n = 0]
       \/ bfr' = [bfr EXCEPT ![e] = NoBuffer]
    /\ UNCHANGED mem

\* rtkit_alloc_buffer; the buffer that bfr[e] held, if any, is forgotten
AllocBuffer(e) ==
    /\ dev.kind # "sram"
    /\ bfr' = [bfr EXCEPT ![e] = [n |-> FreshBuffer, owned |-> TRUE]]
    /\ alloced' = alloced \cup {FreshBuffer}
    /\ mapped' = mapped \cup {FreshBuffer}

Owned(es) == {bfr[e].n : e \in {x \in es : bfr[x].n # 0 /\ bfr[x].owned}}

\* Mutant: the memory is freed although it could not be unmapped
FreeBuffersAnyway(es) ==
    \E stuck \in IF dev.kind = "sart" THEN SUBSET Owned(es) ELSE {{}} :
        /\ mapped' = mapped \ (Owned(es) \ stuck)
        /\ alloced' = alloced \ Owned(es)

\* rtkit_free_buffer on the buffers of es: what cannot be unmapped is not freed
FreeBuffers(es) ==
    \E stuck \in IF dev.kind = "sart" THEN SUBSET Owned(es) ELSE {{}} :
        /\ mapped' = mapped \ (Owned(es) \ stuck)
        /\ alloced' = alloced \ (Owned(es) \ stuck)

\* rtkit_handle_buffer_request: own tells whether the IOP brings its own memory.  The result is ok.
HandleBufferRequest(e, own, ok) ==
    \/ /\ own /\ dev.kind \in {"sram", "dart"} /\ ok
       /\ bfr' = [bfr EXCEPT ![e] = [n |-> IopMemory, owned |-> FALSE]]
       /\ UNCHANGED <<mem, a2i>>
    \/ /\ own /\ dev.kind = "dart" /\ ~ok       \* dart_translate finds nothing
       /\ bfr' = [bfr EXCEPT ![e] = NoBuffer]
       /\ UNCHANGED <<mem, a2i>>
    \/ /\ ~ok
       /\ IF own THEN dev.kind = "sart" ELSE dev.kind = "sram"
       /\ UNCHANGED <<bfr, mem, a2i>>
    \/ /\ ~own /\ dev.kind # "sram" /\ ~ok
       /\ AllocFails(e)
       /\ UNCHANGED a2i
    \/ /\ ~own
       /\ AllocBuffer(e)
       /\ IF ok THEN asc_send(Grant(e)) ELSE asc_send_fails

\* rtkit_handle_oslog_request: one buffer only, given back when the reply cannot be sent
HandleOslogRequest(own, ok) ==
    \/ /\ ~ok
       /\ \/ bfr["oslog"].n # 0
          \/ own              \* no DART, or the memory is not mapped in one piece
       /\ UNCHANGED <<bfr, mem, a2i>>
    \/ /\ bfr["oslog"].n = 0 /\ own /\ dev.kind = "dart" /\ ok
       /\ bfr' = [bfr EXCEPT !["oslog"].n = IopMemory]
       /\ UNCHANGED <<mem, a2i>>
    \/ /\ bfr["oslog"].n = 0 /\ ~own /\ ~ok
       /\ AllocFails("oslog")
       /\ UNCHANGED a2i
    \/ /\ bfr["oslog"].n = 0 /\ ~own /\ ok
       /\ AllocBuffer("oslog")
       /\ asc_send(Grant("oslog"))
    \/ /\ bfr["oslog"].n = 0 /\ ~own /\ dev.kind # "sram" /\ ~ok
       /\ asc_send_fails
       /\ \/ bfr' = [bfr EXCEPT !["oslog"] = NoBuffer] /\ UNCHANGED mem
          \/ dev.kind = "sart" /\ AllocBuffer("oslog")     \* and it cannot be unmapped

-----------------------------------------------------------------------------
(* rtkit_recv.  back tells the caller: the user ("up") or a wait.          *)

Goto(l) == pc' = l /\ UNCHANGED <<back, op>>
World == <<dev, iop, extra, session>>

\* Mutant: the boot never gives up waiting
LimitedShutdown == op \notin BootOps

\* Waits with a time limit: all but those of an untimed boot
Limited == op \notin BootOps \/ dev.timed

\* Mutant: the crash is not looked at
AliveAlways == crashed \in BOOLEAN

Alive == ~crashed

\* What a caller does with the result of rtkit_recv: a wait of rtkit_boot or of the change of power
\* ends on a negative one; the user of the device merely learns of it
RecvFailed == Goto(IF back = "up" THEN "up" ELSE "down")
RecvReturns ==
    Goto(CASE back = "up"                                             -> "up"
           [] back # "up" /\ op \in BootOps /\ Limited /\ late -> "down"
           [] OTHER                                                   -> "check")

IsCrash(m) == m.ep = "crashlog" /\ bfr["crashlog"].n # 0

\* One message is taken from the mailbox and handled
RecvMessage ==
    /\ pc = "recv" /\ asc_can_recv
    /\ i2a' = Tail(i2a)
    /\ LET m == Head(i2a)
       IN  \/ /\ m.ep = "app"
              /\ RecvReturns
              /\ UNCHANGED <<rtk, mem, a2i>>
           \/ /\ m.ep = "mgmt"
              /\ iop_power' = IF m.type = "iop_power_ack" THEN m.val ELSE iop_power
              /\ ap_power' = IF m.type = "ap_power_ack" THEN m.val ELSE ap_power
              /\ Goto("recv")
              /\ UNCHANGED <<crashed, bfr, mem, a2i>>
           \/ /\ m.type = "log"
              /\ asc_send(m) \/ asc_send_fails
              /\ Goto("recv")
              /\ UNCHANGED <<rtk, mem>>
           \/ /\ IsCrash(m)
              /\ crashed' = TRUE
              /\ RecvFailed
              /\ UNCHANGED <<iop_power, ap_power, bfr, mem, a2i>>
           \/ /\ m.type = "request"
              /\ \E ok \in BOOLEAN :
                    /\ \/ /\ m.ep \in {"syslog", "ioreport", "crashlog"} /\ ~IsCrash(m)
                          /\ HandleBufferRequest(m.ep, m.val, ok)
                       \/ /\ m.ep = "oslog" /\ dev.v8
                          /\ HandleOslogRequest(m.val, ok)
                       \/ /\ m.ep = "oslog" /\ ~dev.v8 /\ ok
                          /\ UNCHANGED <<bfr, mem, a2i>>
                    /\ IF ok THEN Goto("recv") ELSE RecvFailed
              /\ UNCHANGED <<iop_power, ap_power, crashed>>
    /\ UNCHANGED <<World, has, late>>

\* The mailbox is empty, or the IOP has crashed before
RecvEmpty ==
    /\ pc = "recv" /\ ~asc_can_recv
    /\ RecvReturns
    /\ UNCHANGED <<World, rtk, has, late, mem, i2a, a2i>>

\* The user calls rtkit_recv; with no message, or after a crash, that changes nothing
rtkit_recv ==
    /\ pc = "up"
    /\ Alive /\ asc_can_recv
    /\ pc' = "recv" /\ back' = "up" /\ UNCHANGED op
    /\ UNCHANGED <<World, rtk, has, late, mem, i2a, a2i>>

\* A message of the user's: what it hands to rtkit_send, or what rtkit_start_ep sends for an endpoint of its own
UserMessage == Msg("app", "data", 0)

\* rtkit_send and rtkit_start_ep, called by the user: neither looks at crashed
rtkit_send ==
    /\ pc = "up"
    /\ asc_send(UserMessage)
    /\ UNCHANGED <<World, rtk, has, control, mem, i2a>>

-----------------------------------------------------------------------------
(* rtkit_boot_internal                                                     *)

\* A message is sent and the code goes on at l, or it cannot be sent and the call fails
SendThen(m, l) ==
    \/ asc_send(m) /\ Goto(l) /\ late' = FALSE
    \/ asc_send_fails /\ Goto("down") /\ UNCHANGED late

BootStart ==
    /\ pc = "new"
    /\ iop' = [iop EXCEPT !.run = TRUE]
    /\ SendThen(Mgmt("iop_power", "init"), "hello")
    /\ has' = {}
    /\ UNCHANGED <<dev, extra, session, rtk, mem, i2a>>

\* Mutant: only the highest version of the IOP is looked at
CompatibleMax(v) == v[2] >= MIN_VERSION

Compatible(v) == v[1] <= MAX_VERSION /\ v[2] >= MIN_VERSION

want_ver(v) == IF v[2] < MAX_VERSION THEN v[2] ELSE MAX_VERSION

\* asc_recv_timeout gives up, in the wait for HELLO or for the endpoint map
RecvTimeout ==
    /\ pc \in {"hello", "epmap"} /\ late
    /\ Goto("down")
    /\ UNCHANGED <<World, rtk, has, late, mem, i2a, a2i>>

BootHello ==
    /\ pc = "hello" /\ asc_can_recv /\ ~late
    /\ i2a' = Tail(i2a)
    /\ LET m == Head(i2a)
       IN  IF m.ep = "mgmt" /\ m.type = "hello" /\ Compatible(m.val)
             THEN SendThen(Mgmt("hello_ack", want_ver(m.val)), "epmap")
             ELSE Goto("down") /\ UNCHANGED <<late, a2i>>
    /\ UNCHANGED <<World, rtk, has, mem>>

BootEpmap ==
    /\ pc = "epmap" /\ asc_can_recv /\ ~late
    /\ i2a' = Tail(i2a)
    /\ LET m == Head(i2a)
       IN  IF m.ep = "mgmt" /\ m.type = "epmap"
             THEN /\ has' = has \cup m.val.eps
                  /\ SendThen(Mgmt("epmap_reply", m.val.done), IF m.val.done THEN "start" ELSE "epmap")
             ELSE Goto("down") /\ UNCHANGED <<has, late, a2i>>
    /\ UNCHANGED <<World, rtk, mem>>

\* The first endpoint that is still to be started; has loses those that have been
NextEp == EpOrder[CHOOSE i \in DOMAIN EpOrder :
                     EpOrder[i] \in has /\ \A j \in 1..(i - 1) : EpOrder[j] \notin has]

BootStartEp ==
    /\ pc = "start"
    /\ IF has = {}
         THEN Goto("check") /\ late' = FALSE /\ UNCHANGED <<has, a2i>>
         ELSE /\ SendThen(Mgmt("start_ep", NextEp), "start")
              /\ has' = has \ {NextEp}
    /\ UNCHANGED <<World, rtk, mem, i2a>>

-----------------------------------------------------------------------------
(* Waiting for a power state: rtkit_wait_for_power in rtkit_boot_internal  *)
(* (op "boot", then "boot_ap"), the loops of rtkit_switch_power_state (op  *)
(* "quiesce" or "sleep", then "quiesced" or "asleep").                     *)

Target == CASE op \in BootOps -> "on"
            [] op = "asleep"              -> "sleep"
            [] OTHER                      -> "quiesced"

\* Mutant: the boot waits for the AP's state before asking for it
ReachedApFirst == IF op \in {"asleep", "quiesced"} THEN iop_power = Target ELSE ap_power = Target

Reached == IF op \in {"boot", "asleep", "quiesced"} THEN iop_power = Target ELSE ap_power = Target

\* The head of the loop with the state not reached.  A change of power looks at the clock here, a
\* boot after rtkit_recv.
WaitAgain ==
    /\ pc = "check" /\ ~Reached
    /\ IF ~Alive \/ (op \notin BootOps /\ late)
         THEN pc' = "down" /\ UNCHANGED back
         ELSE pc' = "recv" /\ back' = "wait"
    /\ UNCHANGED <<op, World, rtk, has, late, mem, i2a, a2i>>

\* A wait is over: the next message is sent and its answer waited for
Continue(m, l, o) ==
    \/ asc_send(m) /\ pc' = l /\ op' = o /\ late' = FALSE /\ UNCHANGED back
    \/ asc_send_fails /\ Goto("down") /\ UNCHANGED late

\* What follows the wait for the AP's state in a change of power
AfterAp(o) == IF o = "sleep" THEN "asleep" ELSE "quiesced"

BootIopOn ==
    /\ pc = "check" /\ Reached /\ op = "boot"
    /\ Continue(Mgmt("ap_power", "on"), IF dev.timed THEN "check" ELSE "up", "boot_ap")
    /\ UNCHANGED <<World, rtk, has, mem, i2a>>

BootApOn ==
    /\ pc = "check" /\ Reached /\ op = "boot_ap"
    /\ Goto("up") /\ late' = FALSE
    /\ UNCHANGED <<World, rtk, has, mem, i2a, a2i>>

\* rtkit_quiesce and rtkit_sleep, called with the session up
SwitchPower(o) ==
    /\ pc = "up"
    /\ IF Alive
         THEN Continue(Mgmt("ap_power", "quiesced"), "check", o)
         ELSE pc' = "down" /\ UNCHANGED <<back, op, late, a2i>>
    /\ UNCHANGED <<World, rtk, has, mem, i2a>>

ApQuiesced ==
    /\ pc = "check" /\ Reached /\ op \in {"sleep", "quiesce"}
    /\ Continue(Mgmt("iop_power", IF op = "sleep" THEN "sleep" ELSE "quiesced"), "check", AfterAp(op))
    /\ UNCHANGED <<World, rtk, has, mem, i2a>>

\* The end of rtkit_quiesce or rtkit_sleep; the latter stops the CPU
PowerSwitched ==
    /\ pc = "check" /\ Reached /\ op \in {"asleep", "quiesced"}
    /\ Goto("down")
    /\ iop' = [iop EXCEPT !.run = (op = "quiesced")]
    /\ UNCHANGED <<dev, extra, session, rtk, has, late, mem, i2a, a2i>>

-----------------------------------------------------------------------------
(* The end of a session                                                    *)

\* The driver frees the session after a failed boot or after rtkit_quiesce or rtkit_sleep, whatever
\* their result.  Some reset the IOP through pmgr first, others leave it as it is.
rtkit_free ==
    /\ pc = "down"
    /\ FreeBuffers(BufferEps)
    /\ iop_power' = "off" /\ ap_power' = "off" /\ crashed' = FALSE
    /\ bfr' = [e \in BufferEps |-> NoBuffer]
    /\ has' = {} /\ late' = FALSE /\ back' = "new" /\ op' = "boot"
    /\ IF session < dev.sessions
         THEN session' = session + 1 /\ pc' = "new"
         ELSE pc' = "freed" /\ UNCHANGED session
    /\ \/ iop' = ColdIop /\ i2a' = <<>> /\ a2i' = <<>>
       \/ UNCHANGED <<iop, i2a, a2i>>
    /\ UNCHANGED <<dev, extra>>

\* Time passes
Expire ==
    /\ ~late
    /\ \/ pc \in {"hello", "epmap"}
       \/ Limited /\ (pc = "check" \/ (pc = "recv" /\ back = "wait"))
    /\ late' = TRUE
    /\ UNCHANGED <<World, rtk, has, pc, back, op, mem, i2a, a2i>>

Terminated == pc = "freed" /\ UNCHANGED vars

\* Steps of a call in progress
Running ==
    \/ RecvMessage \/ RecvEmpty
    \/ BootStart \/ RecvTimeout \/ BootHello \/ BootEpmap \/ BootStartEp
    \/ WaitAgain \/ BootIopOn \/ BootApOn \/ ApQuiesced \/ PowerSwitched

Calls == rtkit_recv \/ rtkit_send \/ SwitchPower("quiesce") \/ SwitchPower("sleep") \/ rtkit_free

Next ==
    \/ Running \/ Calls \/ Expire \/ Terminated
    \/ IopTakes \/ IopReports \/ IopExtra

\* The AP runs and time passes; nothing is assumed of the IOP
Spec == Init /\ [][Next]_vars /\ WF_vars(Running) /\ WF_vars(Expire)

-----------------------------------------------------------------------------
(* Properties                                                              *)

\* The variables have their types
TypeOK ==
    /\ iop_power \in {"off", "on", "sleep", "quiesced"} /\ ap_power \in {"off", "on", "quiesced"}
    /\ crashed \in BOOLEAN /\ late \in BOOLEAN
    /\ \A e \in BufferEps : bfr[e].n \in alloced \cup {0, IopMemory} /\ bfr[e].owned \in BOOLEAN
    /\ has \subseteq {EpOrder[i] : i \in DOMAIN EpOrder}
    /\ pc \in {"new", "hello", "epmap", "start", "check", "recv", "up", "down", "freed"}
    /\ back \in {"new", "up", "wait"}
    /\ op \in BootOps \cup {"quiesce", "sleep", "quiesced", "asleep"}
    /\ Len(i2a) <= Depth /\ Len(a2i) <= Depth

\* Memory that has been freed is out of the reach of the IOP, whatever fails on the way
\* (rtkit_alloc_buffer, rtkit_free_buffer)
FreedUnreachable == mapped \subseteq alloced

\* A buffer that the IOP has been told of in this session is mapped for it until rtkit_free
\* (rtkit_handle_buffer_request, rtkit_handle_oslog_request)
GrantedMapped ==
    pc # "freed" => \A g \in iop.told : g.session = session => g.n \in mapped

\* Memory that has been freed is out of the IOP's reach, whatever fails on the way, and what it has
\* been told of in this session is mapped for it
BuffersSafe == FreedUnreachable /\ GrantedMapped

\* When rtkit_boot returns true, this session's IOP is running with a version both sides support,
\* and all its system endpoints are started or about to be, whatever messages a session before it
\* has left behind (rtkit_boot_internal)
BootAgrees ==
    pc = "up" =>
      /\ iop.run /\ iop.st = "on"
      /\ iop.agreed \in MIN_VERSION..MAX_VERSION /\ iop.agreed \in dev.ver[1]..dev.ver[2]
      /\ \A e \in dev.eps : e \in iop.started \/ \E i \in DOMAIN a2i : a2i[i] = Mgmt("start_ep", e)

\* When rtkit_quiesce or rtkit_sleep returns true, the IOP is in the state it was to go to and knows
\* the AP to be quiesced, "otherwise rebooting doesn't work"; the CPU is stopped in no other state
\* (rtkit_switch_power_state, rtkit_sleep)
ShutdownReal ==
    /\ pc = "down" /\ op \in {"quiesced", "asleep"} /\ iop_power = Target =>
         iop.st = Target /\ iop.ap = "quiesced"
    /\ ~iop.run => iop.st = "off" \/ (iop.st = "sleep" /\ iop.ap = "quiesced")

\* rtkit_boot returns true only when this session's IOP runs with a version both support and its
\* endpoints started, and rtkit_quiesce and rtkit_sleep only when it is in the state it was to go to
\* and knows the AP quiesced (rtkit_boot_internal, rtkit_sleep)
StatesAgree == BootAgrees /\ ShutdownReal

\* Until the session is freed, a crash is not forgotten: nothing more is taken from the IOP, no change of power is
\* begun or succeeds, and nothing is sent but what the user itself hands over (crashed in rtkit_recv and
\* rtkit_switch_power_state; rtkit_send and rtkit_start_ep do not look at it)
CrashIsFinal ==
    [][crashed /\ pc # "down" =>
         /\ crashed' /\ iop_power' = iop_power /\ ap_power' = ap_power
         /\ Len(i2a') >= Len(i2a)
         /\ Len(a2i') > Len(a2i) => a2i' = Append(a2i, UserMessage)]_vars

Busy == pc \in {"hello", "epmap", "start", "check", "recv"}

\* rtkit_boot_timed, rtkit_quiesce and rtkit_sleep return, even if the IOP has fallen silent
\* (rtkit_wait_for_power, rtkit_switch_power_state, asc_recv_timeout)
CallsReturn == (Busy /\ (dev.timed \/ op \notin BootOps)) ~> ~Busy

\* rtkit_boot, without a time limit, returns if the IOP does its part (rtkit_wait_for_power)
LiveIopBoots == (WF_vars(IopTakes) /\ WF_vars(IopReports)) => (Busy ~> ~Busy)
=============================================================================
