----------------------------- MODULE UartProxy ------------------------------
(***************************************************************************)
(* The proxy, src/uartproxy.c: requests of a host over a serial line or    *)
(* USB, their checksums, and the frames of replies and events.             *)
(*                                                                         *)
(* A stream is a sequence of tokens: the synchronisation word with the     *)
(* request type, the rest of the request, each piece of a payload, and the *)
(* word after a payload that is sent without a checksum.  On the way to    *)
(* the proxy a token may be lost or damaged.  A checksum is what it is     *)
(* taken over: it matches if nothing was lost, damaged or replaced.        *)
(*                                                                         *)
(* Entered from an exception or the hypervisor (Hook), the proxy stays     *)
(* with the device it has, and another CPU sends events meanwhile.         *)
(***************************************************************************)
EXTENDS Integers, Sequences, FiniteSets, SequencesExt

CONSTANTS
    Types,          \* of requests: "nop", "proxy", "proxy last" (a call that leaves the proxy), "read", "write", "unknown"
    Payload,        \* pieces in the payload of a write or a read
    MaxSends,       \* bound: requests sent, with those sent by a host that gave up waiting for its reply twice
    MaxFaults,      \* bound: tokens lost or damaged
    MaxEvents       \* bound: events sent

VARIABLES
    hook,           \* uartproxy_run was given a reason (start)
    stream,         \* of every device: tokens on the way to the proxy
    px,             \* the proxy: place, device, type and rest of the request, what a write has read, status
    disable_data_csums,
    wire,           \* history, of every device: the last parts of frames sent
    lock,           \* iodev_lock of the device in use
    tracer,         \* the CPU that sends events
    peer,           \* of every device: the request its host waits for, whether it takes checksums as disabled
    acked,          \* the last write answered with ST_OK
    tally           \* requests sent, replies not waited for, faults, events
proxyVars == <<hook, stream, px, disable_data_csums, wire, lock, tracer, peer, acked, tally>>

Devices == {"uart", "usb"}
Nobody == "nobody"
Nothing == [k |-> "nothing"]
LastParts == 3
Sync(t) == [k |-> "sync", t |-> t]
Rest(n, t, off) == [k |-> "rest", n |-> n, t |-> t, off |-> off, good |-> TRUE]
Piece(n, i) == [k |-> "piece", n |-> n, i |-> i, good |-> TRUE]
End == [k |-> "end"]
Pieces(n) == [i \in 1..Payload |-> Piece(n, i)]

\* Between two requests
Between(pc, v) == [pc |-> pc, dev |-> v, t |-> "none", rest |-> Rest(0, "none", FALSE), mem |-> <<>>, st |-> "ok"]

Init ==
    /\ hook \in BOOLEAN
    /\ stream = [v \in Devices |-> <<>>]
    /\ \E v \in IF hook THEN Devices ELSE {"uart"} : px = Between("boot", v)
    /\ disable_data_csums = FALSE
    /\ wire = [v \in Devices |-> [i \in 1..LastParts |-> Nothing]] /\ lock = Nobody
    /\ tracer = "idle"
    /\ peer = [v \in Devices |-> [wait |-> 0, off |-> FALSE]]
    /\ acked = [n |-> 0, mem |-> <<>>, dev |-> "uart"]
    /\ tally = [reqs |-> 0, giveups |-> 0, faults |-> 0, events |-> 0]

-----------------------------------------------------------------------------
(* The host and the line                                                   *)

Request(n, t, off) ==
    <<Sync(t), Rest(n, t, off)>> \o (IF t = "write" THEN Pieces(n) \o (IF off THEN <<End>> ELSE <<>>) ELSE <<>>)

Damaged(tok) == IF tok.k \in {"rest", "piece"} THEN [tok EXCEPT !.good = FALSE] ELSE [k |-> "noise"]

\* From a hook only the current device is listened to, and no host uses another
Listening == IF hook THEN {px.dev} ELSE Devices

\* A host sends when it waits for nothing, or has given up waiting
HostSends ==
    /\ \E v \in Listening, t \in Types :
       LET n == tally.reqs + 1
           g == tally.giveups + (IF peer[v].wait = 0 THEN 0 ELSE 1)
           q == Request(n, t, peer[v].off) IN
       /\ n + g <= MaxSends
       /\ \/ stream' = [stream EXCEPT ![v] = @ \o q] /\ tally' = [tally EXCEPT !.reqs = n, !.giveups = g]
          \/ /\ tally.faults < MaxFaults
             /\ \E i \in 1..Len(q) : \E hit \in {RemoveAt(q, i), ReplaceAt(q, i, Damaged(q[i]))} :
                   stream' = [stream EXCEPT ![v] = @ \o hit]
             /\ tally' = [tally EXCEPT !.reqs = n, !.giveups = g, !.faults = @ + 1]
       /\ peer' = [peer EXCEPT ![v].wait = n]
    /\ UNCHANGED <<hook, px, disable_data_csums, wire, lock, tracer, acked>>

-----------------------------------------------------------------------------
(* Requests                                                                *)

Go(pc) == px' = [px EXCEPT !.pc = pc]
Sends(v, part) == wire' = [wire EXCEPT ![v] = LET w == Append(@, part) IN SubSeq(w, Len(w) - LastParts + 1, Len(w))]
Reply(tail) == [k |-> "reply", tail |-> tail]      \* the parts that are to follow it

\* The boot message: to the UART only, or with its reason to the device in use
Boot ==
    /\ px.pc = "boot" /\ lock = Nobody
    /\ Sends(IF hook THEN px.dev ELSE "uart", Reply(0)) /\ Go("scan")
    /\ UNCHANGED <<hook, stream, disable_data_csums, lock, tracer, peer, acked, tally>>

\* Anything up to the next synchronisation word is skipped
Scan ==
    /\ px.pc = "scan"
    /\ \E v \in Listening :
       /\ stream[v] # <<>>
       /\ stream' = [stream EXCEPT ![v] = Tail(@)]
       /\ px' = IF Head(stream[v]).k = "sync" THEN [px EXCEPT !.pc = "rest", !.dev = v, !.t = Head(stream[v]).t] ELSE px
    /\ UNCHANGED <<hook, disable_data_csums, wire, lock, tracer, peer, acked, tally>>

\* From a hook the proxy gives up when its device is gone
Gone == px.pc = "scan" /\ hook /\ px.dev = "usb" /\ Go("left") /\ UNCHANGED <<hook, stream, disable_data_csums, wire, lock, tracer, peer, acked, tally>>

\* iodev_read of n tokens: all of them, or what there is when the device goes away (USB)
Read(n, got) ==
    LET s == stream[px.dev] IN
    \/ Len(s) >= n /\ got = SubSeq(s, 1, n) /\ stream' = [stream EXCEPT ![px.dev] = SubSeq(s, n + 1, Len(s))]
    \/ Len(s) < n /\ px.dev = "usb" /\ got = s /\ stream' = [stream EXCEPT ![px.dev] = <<>>]
CanGet(n) == {SubSeq(stream[px.dev], 1, i) : i \in {j \in 0..n : j <= Len(stream[px.dev])}}

ReadRest ==
    /\ px.pc = "rest"
    /\ \E got \in CanGet(1) :
       /\ Read(1, got)
       /\ IF got = <<>> THEN px' = Between("scan", px.dev) /\ UNCHANGED wire
          ELSE IF ~(got[1].k = "rest" /\ got[1].good /\ got[1].t = px.t)      \* checksum over type and rest
               THEN lock = Nobody /\ Sends(px.dev, Reply(0)) /\ px' = Between("scan", px.dev)
          ELSE px' = [px EXCEPT !.pc = "act", !.rest = got[1], !.st = "ok", !.mem = <<>>] /\ UNCHANGED wire
    /\ UNCHANGED <<hook, disable_data_csums, lock, tracer, peer, acked, tally>>

\* mutant: a host on the UART gets the features it asks for
FeaturesAny == TRUE

Features == px.dev # "uart"

\* REQ_NOP: the host asks for all features
Nop == px.t = "nop" /\ disable_data_csums' = Features /\ Go("reply")

ProxyReq == px.t \in {"proxy", "proxy last"} /\ Go("reply") /\ UNCHANGED disable_data_csums

\* REQ_MEMREAD, and the probe of REQ_MEMWRITE: the memory may fault
MemRead == px.t = "read" /\ UNCHANGED disable_data_csums /\ \E st \in {"ok", "xfrerr"} : px' = [px EXCEPT !.pc = "reply", !.st = st]
MemProbe ==
    /\ px.t = "write" /\ UNCHANGED disable_data_csums
    /\ \/ Go("payload") \/ px' = [px EXCEPT !.pc = "reply", !.st = "xfrerr"]

BadCmd == px.t = "unknown" /\ UNCHANGED disable_data_csums /\ px' = [px EXCEPT !.pc = "reply", !.st = "badcmd"]

Act ==
    /\ px.pc = "act" /\ (Nop \/ ProxyReq \/ MemRead \/ MemProbe \/ BadCmd)
    /\ UNCHANGED <<hook, stream, wire, lock, tracer, peer, acked, tally>>

\* The payload's checksum, or the sentinel of both sides in its place
SumMatches(got) == IF disable_data_csums THEN px.rest.off ELSE ~px.rest.off /\ got = Pieces(px.rest.n)

ReadPayload ==
    /\ px.pc = "payload"
    /\ \E got \in CanGet(Payload) :
       /\ Read(Payload, got)
       /\ LET whole == Len(got) = Payload /\ SumMatches(got) IN
          px' = [px EXCEPT !.mem = got, !.pc = IF whole /\ disable_data_csums THEN "end" ELSE "reply",
                           !.st = IF whole THEN "ok" ELSE "xfrerr"]
    /\ UNCHANGED <<hook, disable_data_csums, wire, lock, tracer, peer, acked, tally>>

ReadEnd ==
    /\ px.pc = "end"
    /\ \E got \in CanGet(1) :
       /\ Read(1, got)
       /\ px' = [px EXCEPT !.pc = "reply", !.st = IF got = <<End>> THEN "ok" ELSE "xfrerr"]
    /\ UNCHANGED <<hook, disable_data_csums, wire, lock, tracer, peer, acked, tally>>

-----------------------------------------------------------------------------
(* Frames                                                                  *)

TakeLock(who) == lock = Nobody /\ lock' = who

LockReply ==
    /\ px.pc = "reply" /\ TakeLock("proxy") /\ Go("queue")
    /\ UNCHANGED <<hook, stream, disable_data_csums, wire, tracer, peer, acked, tally>>

SendsData == px.t = "read" /\ px.st = "ok"

QueueReply ==
    /\ px.pc = "queue"
    /\ Sends(px.dev, Reply(IF ~SendsData THEN 0 ELSE IF disable_data_csums THEN 2 ELSE 1))
    /\ peer' = [peer EXCEPT ![px.dev] =
                  IF peer[px.dev].wait # px.rest.n THEN @
                  ELSE [@ EXCEPT !.wait = 0, !.off = IF px.t = "nop" THEN disable_data_csums ELSE @]]
    /\ acked' = IF px.t = "write" /\ px.st = "ok" THEN [n |-> px.rest.n, mem |-> px.mem, dev |-> px.dev] ELSE acked
    /\ Go(IF SendsData THEN "data" ELSE "unlock")
    /\ UNCHANGED <<hook, stream, disable_data_csums, lock, tracer, tally>>

QueueData ==
    /\ px.pc = "data" /\ Sends(px.dev, [k |-> "data"])
    /\ Go(IF disable_data_csums THEN "sentinel" ELSE "unlock")
    /\ UNCHANGED <<hook, stream, disable_data_csums, lock, tracer, peer, acked, tally>>

QueueSentinel ==
    /\ px.pc = "sentinel" /\ Sends(px.dev, [k |-> "sentinel"]) /\ Go("unlock")
    /\ UNCHANGED <<hook, stream, disable_data_csums, lock, tracer, peer, acked, tally>>

\* Unlocked and flushed; a proxy call may have asked to leave
Unlock ==
    /\ px.pc = "unlock" /\ lock' = Nobody /\ px' = Between(IF px.t = "proxy last" THEN "left" ELSE "scan", px.dev)
    /\ UNCHANGED <<hook, stream, disable_data_csums, wire, tracer, peer, acked, tally>>

\* The guest goes on and comes back to the proxy
Hooked == hook /\ px.pc = "left" /\ Go("boot") /\ UNCHANGED <<hook, stream, disable_data_csums, wire, lock, tracer, peer, acked, tally>>

\* uartproxy_send_event, by another CPU
EventStep(from, to, part) == tracer = from /\ tracer' = to /\ Sends(px.dev, [k |-> part]) /\ UNCHANGED <<lock, tally>>
uartproxy_send_event ==
    /\ hook
    /\ \/ /\ tracer = "idle" /\ tally.events < MaxEvents /\ TakeLock("tracer")
          /\ tracer' = "header" /\ tally' = [tally EXCEPT !.events = @ + 1] /\ UNCHANGED wire
       \/ EventStep("header", "body", "event") \/ EventStep("body", "sum", "event data") \/ EventStep("sum", "unlock", "event sum")
       \/ tracer = "unlock" /\ tracer' = "idle" /\ lock' = Nobody /\ UNCHANGED <<wire, tally>>
    /\ UNCHANGED <<hook, stream, px, disable_data_csums, peer, acked>>

Next ==
    \/ HostSends \/ Boot \/ Scan \/ Gone \/ ReadRest \/ Act \/ ReadPayload \/ ReadEnd
    \/ LockReply \/ QueueReply \/ QueueData \/ QueueSentinel \/ Unlock \/ Hooked \/ uartproxy_send_event
Spec == Init /\ [][Next]_proxyVars

-----------------------------------------------------------------------------
(* Properties                                                              *)

\* A write answered with ST_OK has put into memory what the host sent with that request: over USB nothing of
\* it is lost or replaced even with checksums disabled, and over the UART none of it is damaged either, though
\* the flag that disables checksums is shared by all devices and host and proxy may disagree on it
\* (REQ_NOP, REQ_MEMWRITE).
WritesWhole ==
    acked.n # 0 =>
       /\ Len(acked.mem) = Payload
       /\ \A i \in 1..Payload : acked.mem[i].k = "piece" /\ acked.mem[i].n = acked.n /\ acked.mem[i].i = i
       /\ acked.dev = "uart" => acked.mem = Pieces(acked.n)

\* Frames are never torn: a reply is followed by its data and their end, an event by its data and checksum, and
\* nothing comes between, though two CPUs send (iodev_lock in uartproxy_run and uartproxy_send_event).
FramesWhole ==
    \A v \in Devices :
       LET a == wire[v][1]
           b == wire[v][2]
           c == wire[v][3] IN
       /\ c.k = "data" <=> b.k = "reply" /\ b.tail > 0
       /\ c.k = "sentinel" <=> b.k = "data" /\ a.tail = 2
       /\ c.k = "event data" <=> b.k = "event"
       /\ c.k = "event sum" <=> b.k = "event data"
=============================================================================
