-------------------------------- MODULE Afk --------------------------------
(***************************************************************************)
(* An EPIC endpoint of the display coprocessor (src/afk.c): two rings in   *)
(* memory shared with the firmware, the messages that set them up and take *)
(* them down, the announcement of services, and commands over the rings    *)
(* while the firmware calls back.  Both protocols are here, the legacy one *)
(* (ver = 1) and AFKEPV2 (ver = 2).                                        *)
(*                                                                         *)
(* A ring is a row of blocks.  An entry covers one or more of them, and a  *)
(* block holds <<entry, part>>; the header with the magic is part 0.  The  *)
(* doorbells SEND and RECV change nothing on the AP that the ring pointers *)
(* do not tell afk_epic_work already, and are left out.                    *)
(***************************************************************************)
EXTENDS Integers, Sequences, FiniteSets, SequencesExt

CONSTANTS
    Blocks,         \* blocks of a ring
    CmdLen,         \* blocks of a command
    Types,          \* types of commands
    IdMod,          \* command identifiers: 2^8 in the code
    MaxCmds,        \* bound: commands
    MaxJunk         \* bound: callbacks and entries nobody expects, together

VARIABLES
    ver, timed,     \* what the firmware speaks; rtkit_get_timeout is not zero
    ap,             \* where the AP is
    epic,           \* started, afkv2, a recv_handler, command_id, num_channels, ready rings
    tx, rx,         \* the rings: buf, rptr, wptr
    mem,            \* buffers the coprocessor may access
    txbuf, rxbuf,   \* the command whose arguments, whose result they hold
    cmd, seen,      \* the command awaited; the place of a callback already released (<<>>: none)
    toFw, toAp,     \* mailboxes
    fw, todo,       \* the firmware: state, commands taken and not answered
    sent,           \* commands, callbacks, junk sent so far
    txq, rxq,       \* what is in flight in each ring, oldest first
    res,            \* the last result of a command
    lost            \* a command ended although it had been published

rings == <<tx, rx, txq, rxq>>
bufs == <<mem, txbuf, rxbuf>>
fwvars == <<fw, todo>>
vars == <<ver, timed, ap, epic, rings, bufs, cmd, seen, toFw, toAp, fwvars, sent, res, lost>>

Entry(kind, n, type, id, len) == [kind |-> kind, n |-> n, type |-> type, id |-> id, len |-> len]
NoEntry == Entry("none", 0, "", 0, 0)
EmptyRing == [buf |-> [b \in 0..Blocks-1 |-> <<NoEntry, 1>>], rptr |-> 0, wptr |-> 0]
NoCmd == [n |-> 0, type |-> "", id |-> 0]
NoResult == [ok |-> FALSE, n |-> 0, data |-> 0]

Init ==
    /\ ver \in {1, 2} /\ timed \in BOOLEAN
    /\ ap = "off"
    /\ \E notify \in BOOLEAN : epic = [started |-> FALSE, v2 |-> FALSE, notify |-> notify, id |-> 0, ch |-> 0, ready |-> {}]
    /\ tx = EmptyRing /\ rx = EmptyRing /\ txq = <<>> /\ rxq = <<>>
    /\ mem = {} /\ txbuf = 0 /\ rxbuf = 0
    /\ cmd = NoCmd /\ seen = <<>>
    /\ toFw = <<>> /\ toAp = <<>>
    /\ fw = "off" /\ todo = <<>>
    /\ sent = [cmd |-> 0, call |-> 0, junk |-> 0, ann |-> 0]
    /\ res = NoResult /\ lost = FALSE

-----------------------------------------------------------------------------
(* The rings                                                               *)

Empty(rb) == rb.rptr = rb.wptr

\* Writing an entry of len blocks: fits above the write pointer, or below the read pointer
FitsAbove(rb, len) ==
    \/ len < Blocks - rb.wptr
    \/ len = Blocks - rb.wptr /\ rb.rptr # 0
\* (mutant: the ring may be filled up to the read pointer)
FullLax(rb, len) ==
    \/ len > Blocks
    \/ rb.wptr < rb.rptr /\ len > rb.rptr - rb.wptr
    \/ rb.wptr >= rb.rptr /\ ~FitsAbove(rb, len) /\ len > rb.rptr
Full(rb, len) ==
    \/ len > Blocks
    \/ rb.wptr < rb.rptr /\ len >= rb.rptr - rb.wptr
    \/ rb.wptr >= rb.rptr /\ ~FitsAbove(rb, len) /\ len >= rb.rptr

\* The header always goes to the write pointer; an entry that does not fit there is moved to block 0
\* with a copy of its header
Put(rb, e) ==
    LET start == IF e.len > Blocks - rb.wptr THEN 0 ELSE rb.wptr
        end == start + e.len
    IN  [rb EXCEPT !.buf = [b \in 0..Blocks-1 |-> IF b \in start..end-1 THEN <<e, b - start>>
                                                  ELSE IF b = rb.wptr THEN <<e, 0>> ELSE @[b]],
                   !.wptr = IF end >= Blocks THEN 0 ELSE end]

HasMagic(rb, b) == rb.buf[b][2] = 0

\* afk_epic_rx: the place of the next entry, -1 if there is none to be made out
Peek(rb) ==
    LET there == rb.buf[rb.rptr][1].len <= Blocks - rb.rptr
        at == IF there THEN rb.rptr ELSE 0
    IN  IF HasMagic(rb, rb.rptr) /\ HasMagic(rb, at) THEN at ELSE -1

EntryAt(rb, b) == rb.buf[b][1]

\* afk_epic_rx followed by afk_epic_rx_ack: the read pointer moves past the entry
Release(rb) ==
    LET at == Peek(rb)
        end == at + EntryAt(rb, at).len
    IN  [rb EXCEPT !.rptr = IF end >= Blocks THEN 0 ELSE end]

\* The parts of an entry, as a reader at b finds them
Whole(rb, b) == \A i \in 0..EntryAt(rb, b).len-1 : b + i < Blocks /\ rb.buf[b+i] = <<EntryAt(rb, b), i>>

AckRx == rx' = Release(rx) /\ rxq' = Tail(rxq)
\* afk_epic_tx: an entry that does not fit is refused; one that is published may still be reported as
\* failed, when the doorbell cannot be sent
TxRefused(e) == Full(tx, e.len) /\ UNCHANGED <<tx, txq>>
TxPublished(e) == ~Full(tx, e.len) /\ tx' = Put(tx, e) /\ txq' = Append(txq, e)

-----------------------------------------------------------------------------
(* Starting an endpoint                                                    *)

Rest == UNCHANGED <<ver, timed, sent, res, lost, cmd, seen>>

afk_epic_start_ep ==
    /\ ap = "off"
    /\ \/ ap' = "init" /\ toFw' = Append(toFw, "INIT")
       \/ ap' = "failed" /\ UNCHANGED toFw      \* no memory, or the message cannot be sent
    /\ UNCHANGED <<epic, rings, bufs, toAp, fwvars>> /\ Rest

\* A message of the firmware changes the endpoint, is answered or refused (afk_epic_poll)
Accepts(m) ==
    CASE m = "GETBUF" ->
           /\ mem' = mem \cup {"buf"} /\ toFw' = Append(toFw, "GETBUF_ACK")
           /\ UNCHANGED epic
      [] m \in {"INIT_TX", "INIT_RX"} ->
           LET ready == epic.ready \cup {m}
           IN  /\ epic' = [epic EXCEPT !.ready = ready]
               /\ toFw' = IF Cardinality(ready) = 2 THEN Append(toFw, "START") ELSE toFw
               /\ UNCHANGED mem
      [] m = "START_ACK" -> epic' = [epic EXCEPT !.started = TRUE] /\ UNCHANGED <<mem, toFw>>
      [] m = "SHUTDOWN_ACK" -> epic' = [epic EXCEPT !.started = FALSE] /\ UNCHANGED <<mem, toFw>>
      [] OTHER -> UNCHANGED <<epic, mem, toFw>>
Refuses(m) == m \in {"BAD_TX", "GETBUF"}        \* a ring that is not valid; no memory

PollMessage(fails) ==
    /\ toAp # <<>> /\ toAp' = Tail(toAp)
    /\ \/ Head(toAp) # "BAD_TX" /\ Accepts(Head(toAp)) /\ UNCHANGED ap
       \/ Refuses(Head(toAp)) /\ ap' = fails /\ UNCHANGED <<epic, mem, toFw>>
    /\ UNCHANGED <<rings, txbuf, rxbuf, fwvars>> /\ Rest

\* The loop of afk_epic_start_ep: a failure leaves buf mapped
StartPoll == ap = "init" /\ ~epic.started /\ PollMessage("failed")
StartGivesUp ==
    /\ ap = "init" /\ ~epic.started /\ timed /\ toAp = <<>>
    /\ ap' = "failed"
    /\ UNCHANGED <<epic, rings, bufs, toFw, toAp, fwvars>> /\ Rest
StartDone ==
    /\ ap = "init" /\ epic.started
    /\ ap' = "first"
    /\ UNCHANGED <<epic, rings, bufs, toFw, toAp, fwvars>> /\ Rest

-----------------------------------------------------------------------------
(* afk_epic_start_interface: wait for a first entry, then for the service  *)

FirstEntry ==
    /\ ap = "first" /\ ~Empty(rx)
    /\ ap' = "iface"
    /\ UNCHANGED <<epic, rings, bufs, toFw, toAp, fwvars>> /\ Rest

IfaceEntry ==
    /\ ap = "iface" /\ ~Empty(rx) /\ Peek(rx) # -1
    /\ LET e == EntryAt(rx, Peek(rx))
           open == Entry("open", e.n, "", 0, 1)
       IN  \/ /\ e.kind # "announce"
              /\ UNCHANGED <<epic, ap, tx, txq>>
           \/ /\ e.kind = "announce" /\ ver = 1
              /\ epic' = [epic EXCEPT !.ch = @ + 1]
              /\ ap' = "alloc"
              /\ UNCHANGED <<tx, txq>>
           \/ /\ e.kind = "announce" /\ ver = 2
              /\ epic' = [epic EXCEPT !.ch = @ + 1, !.v2 = TRUE]
              /\ \/ TxPublished(open) /\ ap' \in {"alloc", "stop"}
                 \/ TxRefused(open) /\ ap' = "stop"
    /\ AckRx
    /\ UNCHANGED <<bufs, toFw, toAp, fwvars>> /\ Rest

\* No announcement in time: half a second once something has come, before that the limit of the
\* session, if there is one
IfaceGivesUp ==
    /\ ap = "iface" \/ (ap = "first" /\ timed)
    /\ ap' = "stop"
    /\ UNCHANGED <<epic, rings, bufs, toFw, toAp, fwvars>> /\ Rest

IfaceBuffers ==
    /\ ap = "alloc"
    /\ \/ mem' = mem \cup {"rxbuf", "txbuf"} /\ ap' = "idle"
       \/ mem' \in {mem, mem \cup {"rxbuf"}} /\ ap' = "stop"
    /\ UNCHANGED <<epic, rings, txbuf, rxbuf, toFw, toAp, fwvars>> /\ Rest

-----------------------------------------------------------------------------
(* Commands                                                                *)

Constant == UNCHANGED <<ver, timed, mem, toFw, toAp, fwvars>>

\* afkv2_command or afk_epic_command up to its wait.  The arguments are in txbuf, and an identifier is
\* used up, even if the command cannot be published.
Issue ==
    /\ ap = "idle" /\ sent.cmd < MaxCmds
    /\ \E t \in Types :
          LET n == sent.cmd + 1
              e == Entry("cmd", n, t, epic.id, CmdLen)
          IN  /\ sent' = [sent EXCEPT !.cmd = n]
              /\ txbuf' = n
              /\ epic' = IF epic.v2 THEN [epic EXCEPT !.id = (@ + 1) % IdMod] ELSE epic
              /\ \/ TxPublished(e) /\ ap' = "cmd" /\ cmd' = [n |-> n, type |-> t, id |-> epic.id] /\ UNCHANGED lost
                 \/ TxPublished(e) /\ UNCHANGED <<ap, cmd>> /\ lost' = TRUE
                 \/ TxRefused(e) /\ UNCHANGED <<ap, cmd, lost>>
    /\ res' = NoResult
    /\ UNCHANGED <<rx, rxq, rxbuf, seen>> /\ Constant

Fails == ap' = "idle" /\ res' = NoResult /\ lost' = TRUE
Unsuccessful == ap' = "idle" /\ res' = NoResult /\ UNCHANGED lost
Continues == UNCHANGED <<ap, res, lost>>
Succeeds == ap' = "idle" /\ res' = [ok |-> TRUE, n |-> cmd.n, data |-> rxbuf] /\ UNCHANGED lost
Answer(e) == Entry("answer", e.n, "", e.id, e.len)
NoTx == UNCHANGED <<tx, txq>>

\* afkv2_copy_response
OwnResponse(e) == e.id = cmd.id

\* One turn of the loop of afkv2_command: the response, a callback that is answered, or something else
Commandv2(e) ==
    /\ AckRx
    /\ \/ e.kind = "junk" /\ Fails /\ NoTx
       \/ e.kind = "reply" /\ e.type = cmd.type /\ OwnResponse(e) /\ (Succeeds \/ Unsuccessful) /\ NoTx
       \/ e.kind = "reply" /\ e.type = cmd.type /\ ~OwnResponse(e) /\ Fails /\ NoTx
       \/ e.kind = "reply" /\ e.type # cmd.type /\ Continues /\ NoTx
       \/ e.kind = "call" /\ TxPublished(Answer(e)) /\ (Continues \/ Fails)
       \/ e.kind = "call" /\ TxRefused(Answer(e)) /\ Fails
       \/ e.kind = "announce" /\ Continues /\ NoTx
    /\ UNCHANGED seen

\* One turn of the loop of afk_epic_command.  A callback is released before it is handled.
Commandv1(e) ==
    /\ AckRx /\ NoTx
    /\ \/ e.kind = "reply" /\ e.type = cmd.type /\ Succeeds /\ UNCHANGED seen
       \/ e.kind = "reply" /\ e.type = cmd.type /\ Unsuccessful /\ UNCHANGED seen
       \/ e.kind = "reply" /\ e.type # cmd.type /\ Continues /\ UNCHANGED seen
       \/ e.kind \in {"junk", "announce"} /\ Continues /\ UNCHANGED seen
       \/ e.kind = "call" /\ Continues /\ seen' = <<Peek(rx)>>

CommandEntry ==
    /\ ap = "cmd" /\ seen = <<>> /\ ~Empty(rx)
    /\ \/ Peek(rx) # -1 /\ ~epic.v2 /\ Commandv1(EntryAt(rx, Peek(rx)))
       \/ Peek(rx) # -1 /\ epic.v2 /\ Commandv2(EntryAt(rx, Peek(rx)))
       \/ Peek(rx) = -1 /\ Fails /\ UNCHANGED <<seen, rings>>
    /\ UNCHANGED <<epic, txbuf, rxbuf, cmd, sent>> /\ Constant

\* afk_epic_handle_std_service after the release: it reads what is in the ring by now
HandleReleased ==
    /\ ap = "cmd" /\ seen # <<>>
    /\ LET e == EntryAt(rx, seen[1])
       IN  \/ e.kind = "call" /\ (TxPublished(Answer(e)) \/ TxRefused(Answer(e)))
           \/ e.kind # "call" /\ NoTx
    /\ seen' = <<>>
    /\ UNCHANGED <<ap, epic, rx, rxq, txbuf, rxbuf, cmd, sent, res, lost>> /\ Constant

CommandTimeout ==
    /\ ap = "cmd" /\ epic.v2
    /\ Fails
    /\ UNCHANGED <<epic, rings, txbuf, rxbuf, cmd, seen, sent>> /\ Constant

\* afk_epic_work for another endpoint: the handler answers a callback, all else is released unread
WorkEntry ==
    /\ ap = "idle" /\ ~Empty(rx) /\ Peek(rx) # -1
    /\ LET e == EntryAt(rx, Peek(rx))
       IN  \/ e.kind = "call" /\ epic.notify /\ (TxPublished(Answer(e)) \/ TxRefused(Answer(e)))
           \/ ~(e.kind = "call" /\ epic.notify) /\ NoTx
    /\ AckRx
    /\ UNCHANGED <<ap, epic, txbuf, rxbuf, cmd, seen, sent, res, lost>> /\ Constant

-----------------------------------------------------------------------------
(* afk_epic_shutdown_ep                                                    *)

Stop ==
    /\ ap \in {"idle", "stop"}
    /\ \/ ap' = "stopping" /\ toFw' = Append(toFw, "SHUTDOWN")
       \/ ap' = "failed" /\ UNCHANGED toFw
    /\ UNCHANGED <<epic, rings, bufs, toAp, fwvars>> /\ Rest

StopPoll == ap = "stopping" /\ epic.started /\ PollMessage("free")
StopGivesUp ==
    /\ ap = "stopping" /\ epic.started /\ timed
    /\ ap' = "free"
    /\ UNCHANGED <<epic, rings, bufs, toFw, toAp, fwvars>> /\ Rest
StopFree ==
    /\ ap = "free" \/ (ap = "stopping" /\ ~epic.started)
    /\ mem' = {}
    /\ ap' = "gone"
    /\ UNCHANGED <<epic, rings, txbuf, rxbuf, toFw, toAp, fwvars>> /\ Rest

-----------------------------------------------------------------------------
(* The firmware (external: modelled from how afk.c uses it)                *)

ApSide == UNCHANGED <<ver, timed, ap, epic, mem, txbuf, cmd, seen, res, lost>>
Replies(m) ==
    CASE m = "INIT" -> {<<"INIT_ACK", "GETBUF">>}
      [] m = "GETBUF_ACK" -> {<<"INIT_TX", "INIT_RX">>, <<"INIT_RX", "INIT_TX">>, <<"BAD_TX">>}
      [] m = "START" -> {<<"START_ACK">>}
      [] m = "SHUTDOWN" -> {<<"SHUTDOWN_ACK">>}

FwMessage ==
    /\ toFw # <<>> /\ toFw' = Tail(toFw)
    /\ \E r \in Replies(Head(toFw)) : toAp' = toAp \o r
    /\ fw' = CASE Head(toFw) = "START" -> "run" [] Head(toFw) = "SHUTDOWN" -> "off" [] OTHER -> fw
    /\ UNCHANGED <<rings, rxbuf, todo, sent>> /\ ApSide

FwReads ==
    /\ fw = "run" /\ ~Empty(tx) /\ Peek(tx) # -1
    /\ LET e == EntryAt(tx, Peek(tx))
       IN  todo' = IF e.kind = "cmd" THEN Append(todo, e) ELSE todo
    /\ tx' = Release(tx) /\ txq' = Tail(txq)
    /\ UNCHANGED <<rx, rxq, rxbuf, fw, toFw, toAp, sent>> /\ ApSide

FwWrites(e) == fw = "run" /\ ~Full(rx, e.len) /\ rx' = Put(rx, e) /\ rxq' = Append(rxq, e)
FwRest == UNCHANGED <<tx, txq, fw, toFw, toAp>>

\* The result of a command is what the arguments in txbuf make it
FwReply ==
    /\ todo # <<>> /\ todo' = Tail(todo)
    /\ FwWrites(Entry("reply", Head(todo).n, Head(todo).type, Head(todo).id, 1))
    /\ rxbuf' = txbuf
    /\ UNCHANGED sent /\ FwRest /\ ApSide
FwAnnounce ==
    /\ sent.ann = 0 /\ sent' = [sent EXCEPT !.ann = 1]
    /\ FwWrites(Entry("announce", 1, "", 0, 1))
    /\ UNCHANGED <<rxbuf, todo>> /\ FwRest /\ ApSide
FwCall ==
    /\ sent.call + sent.junk < MaxJunk /\ sent' = [sent EXCEPT !.call = @ + 1]
    /\ \E len \in 1..2 : FwWrites(Entry("call", sent.call + 1, "", 0, len))
    /\ UNCHANGED <<rxbuf, todo>> /\ FwRest /\ ApSide
FwJunk ==
    /\ sent.call + sent.junk < MaxJunk /\ sent' = [sent EXCEPT !.junk = @ + 1]
    /\ FwWrites(Entry("junk", sent.junk + 1, "", 0, 1))
    /\ UNCHANGED <<rxbuf, todo>> /\ FwRest /\ ApSide

Over == ap \in {"failed", "gone"} /\ UNCHANGED vars

Next ==
    \/ afk_epic_start_ep \/ StartPoll \/ StartGivesUp \/ StartDone
    \/ FirstEntry \/ IfaceEntry \/ IfaceGivesUp \/ IfaceBuffers
    \/ Issue \/ CommandEntry \/ HandleReleased \/ CommandTimeout \/ WorkEntry
    \/ Stop \/ StopPoll \/ StopGivesUp \/ StopFree
    \/ FwMessage \/ FwReads \/ FwReply \/ FwAnnounce \/ FwCall \/ FwJunk
    \/ Over

Spec == Init /\ [][Next]_vars

-----------------------------------------------------------------------------
(* Properties                                                              *)

\* A ring is a queue: whatever the lengths of the entries and wherever the ring wraps, it is empty
\* exactly when nothing is in flight, and a reader finds the oldest entry in flight, all of it
RingsFifo ==
    \A r \in {<<tx, txq>>, <<rx, rxq>>} :
       /\ Empty(r[1]) <=> r[2] = <<>>
       /\ r[2] # <<>> => /\ Peek(r[1]) # -1
                        /\ EntryAt(r[1], Peek(r[1])) = Head(r[2])
                        /\ Whole(r[1], Peek(r[1]))

\* A command that succeeds returns the result of its own arguments, even after earlier ones timed
\* out and are answered late.  The legacy protocol has nothing to tell responses apart by: it is only
\* right as long as no published command was given up.
ReplyMatches == res.ok /\ (epic.v2 \/ ~lost) => res.data = res.n

=============================================================================
