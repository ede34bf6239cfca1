------------------------------ MODULE HvVirtio ------------------------------
(* The virtio devices of the hypervisor (src/hv/hv_virtio.c): registers     *)
(* that handle_virtio emulates under bhl, the available ring it passes on to *)
(* the host one buffer at a time, and the used ring and interrupt by which   *)
(* virtio_put_buffer gives buffers back.  The driver in the guest is the     *)
(* environment: its CPUs add a buffer and then write QNOTIFY, its interrupt  *)
(* handler acknowledges what it read and then empties the used rings.  It    *)
(* selects only queues the device has.  To tell the host of a buffer is an   *)
(* exception to the proxy (hv_exc_proxy), which gives bhl away before and    *)
(* after while another CPU is pinned or switched to.                         *)
EXTENDS Integers, Sequences, FiniteSets, TLC

CONSTANTS
  Cpus,         \* CPUs of the guest that add buffers
  Queues,       \* 1 .. num_qus
  Sizes,        \* sizes the driver may give each queue
  IdxMod,       \* the range of each queue's ring indices: 2^16, which every size divides
  UsedReset,    \* the driver may reset a device whose queues it has used
  Interfere     \* while a CPU tells the host of a buffer, the host may switch to it, and another may notify that queue

VARIABLES
  vdev,         \* status, currq, irqstatus, the line of aic_set_sw, and qs
  drv,          \* the driver: what it does, and its size and last used index of each queue
  avail,        \* available rings: idx and ring
  used,         \* used rings: idx and ring
  kicks,        \* each CPU: where it is, for which queue, and the buffer it has read from the ring
  free,         \* descriptors the driver may use
  held,         \* buffers the host was told of and has not given back
  due,          \* buffers made available that the host was not told of
  owed          \* buffers given back that the driver has not seen

virtioVars == <<vdev, drv, avail, used, kicks, free, held, due, owed>>

Next16(q, i) == (i + 1) % IdxMod[q]
AreaRegs == <<"desc", "avail", "used">>
EmptyRing == [idx |-> 0, ring |-> <<>>]
NoIds == [q \in Queues |-> {}]
NoSeq == [q \in Queues |-> <<>>]
Idle == [at |-> "idle", q |-> 0, id |-> 0]

-----------------------------------------------------------------------------
(* The device. *)

hv_map_virtio ==
  [status |-> 0, currq |-> 0, irqstatus |-> FALSE, line |-> FALSE,
   qs |-> [q \in Queues |-> [size |-> 0, ready |-> FALSE, area |-> {}, avail_seen |-> 0]]]

Init ==
  /\ vdev = hv_map_virtio
  /\ drv = [pc |-> "status", q |-> 1, area |-> 1, size |-> [q \in Queues |-> 0], last |-> [q \in Queues |-> 0]]
  /\ avail = [q \in Queues |-> EmptyRing] /\ used = [q \in Queues |-> EmptyRing]
  /\ kicks = [c \in Cpus |-> Idle]
  /\ free = NoIds /\ held = NoIds /\ due = NoSeq /\ owed = NoSeq

Rings == <<avail, used, kicks, free, held, due, owed>>

(* bhl is free: no CPU is in the loop of notify_buffers, at its head, or   *)
(* about to be handled by the proxy, or done with it.                      *)
Bhl == \A c \in Cpus : kicks[c].at \notin {"notify", "proxy", "switch"}

(* Registers the driver writes while it sets the device up, in its order. *)
WriteStatus ==
  /\ drv.pc = "status" /\ Bhl
  /\ vdev' = [vdev EXCEPT !.status = 1]
  /\ drv' = [drv EXCEPT !.pc = "sel"]
  /\ UNCHANGED Rings

WriteQSel ==
  /\ drv.pc = "sel" /\ Bhl
  /\ vdev' = [vdev EXCEPT !.currq = drv.q]
  /\ drv' = [drv EXCEPT !.pc = "size"]
  /\ UNCHANGED Rings

WriteQSize ==
  /\ drv.pc = "size" /\ Bhl /\ ~vdev.qs[vdev.currq].ready
  /\ \E n \in Sizes[drv.q] :
       /\ vdev' = [vdev EXCEPT !.qs[vdev.currq].size = n]
       /\ drv' = [drv EXCEPT !.pc = "area", !.area = 1, !.size[drv.q] = n]
       /\ free' = [free EXCEPT ![drv.q] = 0 .. n - 1]
  /\ UNCHANGED <<avail, used, kicks, held, due, owed>>

(* Each write assembles the addresses again from all the area registers. *)
WriteArea ==
  /\ drv.pc = "area" /\ Bhl
  /\ vdev' = [vdev EXCEPT !.qs[vdev.currq].area = @ \cup {AreaRegs[drv.area]}]
  /\ drv' = [drv EXCEPT !.pc = IF drv.area = Len(AreaRegs) THEN "ready" ELSE "area", !.area = @ + 1]
  /\ UNCHANGED Rings

WriteQReady ==
  /\ drv.pc = "ready" /\ Bhl
  /\ vdev' = [vdev EXCEPT !.qs[vdev.currq].ready = TRUE]
  /\ drv' = IF drv.q + 1 \in Queues THEN [drv EXCEPT !.pc = "sel", !.q = @ + 1] ELSE [drv EXCEPT !.pc = "idle"]
  /\ UNCHANGED Rings

-----------------------------------------------------------------------------
(* Buffers.  A CPU of the guest adds one and owes the device a QNOTIFY. *)

Add(c, q) ==
  /\ vdev.qs[q].ready /\ kicks[c].at = "idle"
  /\ \E id \in free[q] :
       /\ avail' = [avail EXCEPT ![q] = [idx |-> Next16(q, @.idx), ring |-> ((@.idx % drv.size[q]) :> id) @@ @.ring]]
       /\ due' = [due EXCEPT ![q] = Append(@, id)]
       /\ free' = [free EXCEPT ![q] = @ \ {id}]
  /\ kicks' = [kicks EXCEPT ![c] = [at |-> "kick", q |-> q, id |-> 0]]
  /\ UNCHANGED <<vdev, drv, used, held, owed>>

WriteQNotify(c) ==
  /\ kicks[c].at = "kick" /\ Bhl
  /\ Interfere \/ \A d \in Cpus : kicks[d].q = kicks[c].q => kicks[d].at \in {"idle", "kick"}
  /\ kicks' = [kicks EXCEPT ![c].at = "notify"]
  /\ UNCHANGED <<vdev, drv, avail, used, free, held, due, owed>>

(* Whether the loop of notify_buffers goes on; below, one that does not    *)
(* expect the index to wrap around (mutant: < instead of !=).              *)
MoreBelow(q) == vdev.qs[q].avail_seen < avail[q].idx
More(q) == avail[q].idx # vdev.qs[q].avail_seen

(* The head of the loop of notify_buffers, which reads the ring.           *)
notify_buffers(c) ==
  LET q == kicks[c].q IN
  /\ kicks[c].at = "notify"
  /\ kicks' = [kicks EXCEPT ![c] =
                 IF More(q) THEN [at |-> "proxy", q |-> q, id |-> avail[q].ring[vdev.qs[q].avail_seen % vdev.qs[q].size]]
                            ELSE Idle]
  /\ UNCHANGED <<vdev, drv, avail, used, free, held, due, owed>>

(* hv_exc_proxy gives bhl away while another CPU is pinned or switched to, *)
(* before it handles the exception, and hv_maybe_switch_cpu after it.      *)
ProxyYield(c) ==
  /\ \/ kicks[c].at = "proxy" /\ kicks' = [kicks EXCEPT ![c].at = "proxy_spin"]
     \/ kicks[c].at = "switch" /\ kicks' = [kicks EXCEPT ![c].at = "switch_spin"]
     \/ kicks[c].at = "proxy_spin" /\ Bhl /\ kicks' = [kicks EXCEPT ![c].at = "proxy"]
     \/ kicks[c].at = "switch_spin" /\ Bhl /\ kicks' = [kicks EXCEPT ![c].at = "switch"]
  /\ UNCHANGED <<vdev, drv, avail, used, free, held, due, owed>>

(* The host is told of the buffer that was read.  A CPU that is switched   *)
(* to tells it once more, in hv_exc_proxy before, hv_maybe_switch_cpu      *)
(* after.                                                                  *)
notify_avail(c) ==
  LET q == kicks[c].q IN
  /\ kicks[c].at = "proxy" \/ (Interfere /\ kicks[c].at = "switch")
  /\ held' = [held EXCEPT ![q] = @ \cup {kicks[c].id}]
  /\ due' = [due EXCEPT ![q] = IF @ = <<>> THEN @ ELSE Tail(@)]
  /\ \/ kicks' = [kicks EXCEPT ![c].at = "switch"]
     \/ Interfere /\ kicks[c].at = "proxy" /\ UNCHANGED kicks
  /\ UNCHANGED <<vdev, drv, avail, used, free, owed>>

(* hv_exc_proxy has returned: avail_seen++.                                *)
Seen(c) ==
  /\ kicks[c].at = "switch"
  /\ vdev' = [vdev EXCEPT !.qs[kicks[c].q].avail_seen = Next16(kicks[c].q, @)]
  /\ kicks' = [kicks EXCEPT ![c] = [at |-> "notify", q |-> kicks[c].q, id |-> 0]]
  /\ UNCHANGED <<drv, avail, used, free, held, due, owed>>

(* The host gives back any buffer it was told of, in any order. *)
virtio_put_buffer(q, id) ==
  /\ id \in held[q]
  /\ used' = [used EXCEPT ![q] = [idx |-> Next16(q, @.idx), ring |-> ((@.idx % vdev.qs[q].size) :> id) @@ @.ring]]
  /\ vdev' = [vdev EXCEPT !.irqstatus = TRUE, !.line = TRUE]
  /\ held' = [held EXCEPT ![q] = @ \ {id}]
  /\ owed' = [owed EXCEPT ![q] = Append(@, id)]
  /\ UNCHANGED <<drv, avail, kicks, free, due>>

-----------------------------------------------------------------------------
(* The interrupt: the driver reads IRQ_STATUS, acknowledges that, and then *)
(* empties the used rings one after the other.                             *)

ReadStatus ==
  /\ drv.pc = "idle" /\ vdev.line /\ Bhl
  /\ drv' = [drv EXCEPT !.pc = IF vdev.irqstatus THEN "ack" ELSE "idle"]
  /\ UNCHANGED vdev /\ UNCHANGED Rings

IrqAck ==
  /\ drv.pc = "ack" /\ Bhl
  /\ vdev' = [vdev EXCEPT !.irqstatus = FALSE, !.line = FALSE]
  /\ drv' = [drv EXCEPT !.pc = "drain", !.q = 1]
  /\ UNCHANGED Rings

Drain ==
  LET q == drv.q IN
  /\ drv.pc = "drain"
  /\ IF drv.last[q] # used[q].idx
     THEN /\ free' = [free EXCEPT ![q] = @ \cup {used[q].ring[drv.last[q] % drv.size[q]]}]
          /\ owed' = [owed EXCEPT ![q] = IF @ = <<>> THEN @ ELSE Tail(@)]
          /\ drv' = [drv EXCEPT !.last[q] = Next16(q, @)]
     ELSE /\ drv' = IF q + 1 \in Queues THEN [drv EXCEPT !.q = @ + 1] ELSE [drv EXCEPT !.pc = "idle"]
          /\ UNCHANGED <<free, owed>>
  /\ UNCHANGED <<vdev, avail, used, kicks, held, due>>

(* A driver that goes away clears QREADY of each queue and resets the      *)
(* device (DEV_STATUS), which only stores the status; the one that comes   *)
(* next starts with empty rings, while avail_seen stays.  The runs let it  *)
(* go only when the index is where it began (UsedReset).                   *)
Reset ==
  /\ drv.pc = "idle" /\ held = NoIds /\ \A c \in Cpus : kicks[c].at = "idle"
  /\ UsedReset \/ \A q \in Queues : vdev.qs[q].avail_seen = 0
  /\ vdev' = [vdev EXCEPT !.status = 0, !.currq = Cardinality(Queues),
                          !.qs = [q \in Queues |-> [vdev.qs[q] EXCEPT !.ready = FALSE]]]
  /\ drv' = [drv EXCEPT !.pc = "status", !.q = 1, !.last = [q \in Queues |-> 0]]
  /\ avail' = [q \in Queues |-> EmptyRing] /\ used' = [q \in Queues |-> EmptyRing]
  /\ free' = NoIds /\ due' = NoSeq /\ owed' = NoSeq
  /\ UNCHANGED <<kicks, held>>

Next ==
  \/ WriteStatus \/ WriteQSel \/ WriteQSize \/ WriteArea \/ WriteQReady
  \/ \E c \in Cpus : (\E q \in Queues : Add(c, q)) \/ WriteQNotify(c) \/ notify_buffers(c)
  \/ \E c \in Cpus : ProxyYield(c) \/ notify_avail(c) \/ Seen(c)
  \/ \E q \in Queues : \E id \in held[q] : virtio_put_buffer(q, id)
  \/ ReadStatus \/ IrqAck \/ Drain \/ Reset

Spec == Init /\ [][Next]_virtioVars

-----------------------------------------------------------------------------
(* What lies between the index of one side and that of the other in a ring *)
(* is exactly what was put there and not taken, in that order.             *)
Pending(ring, from, mod, size, seq) ==
  /\ (ring.idx - from) % mod = Len(seq)
  /\ \A k \in 1 .. Len(seq) : ring.ring[((from + k - 1) % mod) % size] = seq[k]

(* Of what the host was told and avail_seen does not count yet, there is   *)
(* at most one buffer: that of the CPU which has just been handled.        *)
Told(q) == Cardinality({c \in Cpus : kicks[c].q = q /\ kicks[c].at \in {"switch", "switch_spin"}})

(* notify_buffers tells the host of every buffer once and in order, and    *)
(* virtio_put_buffer gives each back once, however often the indices wrap, *)
(* whoever adds while the loop runs and whatever happens while bhl is      *)
(* given away in it, if no other CPU enters the loop of the same queue     *)
(* then and the host switches to no CPU that is in it (Interfere).         *)
BuffersOnce ==
  \A q \in Queues : vdev.qs[q].ready =>
    /\ Pending(avail[q], (vdev.qs[q].avail_seen + Told(q)) % IdxMod[q], IdxMod[q], vdev.qs[q].size, due[q])
    /\ Pending(used[q], drv.last[q], IdxMod[q], drv.size[q], owed[q])
    /\ Cardinality(free[q]) + Len(due[q]) + Cardinality(held[q]) + Len(owed[q]) = drv.size[q]

(* A buffer the host was not told of has a CPU on its way to notify_buffers *)
(* or in it.                                                                *)
KickedBuffers == \A q \in Queues : due[q] # <<>> => \E c \in Cpus : kicks[c].q = q

(* A buffer that was given back is seen: the line is up (virtio_put_buffer, *)
(* IRQ_ACK) or the handler is still to look at that queue.                  *)
InterruptNotLost ==
  \A q \in Queues : owed[q] # <<>> =>
    vdev.line \/ drv.pc = "ack" \/ (drv.pc = "drain" /\ drv.q <= q)
=============================================================================
