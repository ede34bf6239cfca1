------------------------------ MODULE Console ------------------------------
(***************************************************************************)
(* The console of src/iodev.c: text printed by any CPU goes to every       *)
(* device used as a console, as far as the device takes it without         *)
(* waiting, and into a ring (con_buf) from which devices that are behind   *)
(* are served later.                                                       *)
(*                                                                         *)
(* A character is its place in the stream of all that was printed, so that *)
(* what a device has output shows what is missing, repeated or misplaced.  *)
(* The MMU is on.  Before that the locks are not used: the boot CPU does   *)
(* the same without them, and what a secondary prints until its own is on  *)
(* goes straight to the UARTs (iodev_console_write), beside the stream.    *)
(***************************************************************************)
EXTENDS Integers, Sequences, Functions

CONSTANTS
    CPUs,
    D,          \* devices are 1..D, in the order of iodevs
    Size,       \* CONSOLE_BUFFER_SIZE
    Lengths,    \* lengths of texts printed
    Toggled,    \* devices whose use as a console is changed, that come and go, or are rewound
    Chatty,     \* devices whose driver prints while it holds the device's lock.  The console must not
                \* use them: console_lock and the device's lock are then taken in both orders
    MaxChars,   \* bound: characters printed
    MaxChanges  \* bound: changes of use, registrations and rewinds

Devs == 1..D
Nobody == "nobody"

VARIABLES
    console_lock, dev_lock,     \* recursive spin locks: owner and count
    in_iodev,
    con_buf, con_wp, con_rp,
    usage, present,             \* per device: USAGE_CONSOLE, iodevs[id] is not NULL
    pc, dev, length, wrote,     \* per CPU: place and locals of iodev_console_write
    event,                      \* per CPU: the device of iodev_handle_events, or 0
    held,                       \* per CPU: the device it has locked to use it itself, or 0
    total, changes,             \* characters printed, changes made
    out, off                    \* history, per device: what it has output; all before off was dropped

locks == <<console_lock, dev_lock, in_iodev>>
ring == <<con_buf, con_wp, total>>
where == <<dev, length, wrote, event, held>>
setup == <<usage, present, changes>>
vars == <<locks, ring, con_rp, pc, where, setup, out, off>>

Free == [owner |-> Nobody, count |-> 0]

Init ==
    /\ console_lock = Free /\ dev_lock = [d \in Devs |-> Free] /\ in_iodev = 0
    /\ con_buf = [i \in 0..Size - 1 |-> -1] /\ con_wp = 0 /\ con_rp = [d \in Devs |-> 0]
    /\ usage = [d \in Devs |-> d \notin Chatty] /\ present = [d \in Devs |-> TRUE]
    /\ pc = [c \in CPUs |-> "idle"] /\ dev = [c \in CPUs |-> 0] /\ length = [c \in CPUs |-> 0]
    /\ wrote = [c \in CPUs |-> 0] /\ event = [c \in CPUs |-> 0] /\ held = [c \in CPUs |-> 0]
    /\ total = 0 /\ changes = 0
    /\ out = [d \in Devs |-> <<>>] /\ off = [d \in Devs |-> 0]

-----------------------------------------------------------------------------
(* Spin locks, src/utils.c: the owner may lock again                       *)

Locks(l, c) == IF l.owner = c THEN [l EXCEPT !.count = @ + 1] ELSE [owner |-> c, count |-> 1]
MayLock(l, c) == l.owner \in {c, Nobody}

Unlocks(l) == IF l.count = 1 THEN Free ELSE [l EXCEPT !.count = @ - 1]

\* A call on device d by c that takes and releases its lock waits for others to release it
MayUse(d, c) == MayLock(dev_lock[d], c)

Goto(c, l) == pc' = [pc EXCEPT ![c] = l]

\* The place between two calls
Rest(c) == IF held[c] = 0 THEN "idle" ELSE "held"

-----------------------------------------------------------------------------
(* iodev_console_write                                                     *)

\* printf: some text, or nothing at all (iodev_console_kick)
Call(c, n) ==
    /\ pc[c] = Rest(c) /\ held[c] \in Chatty \cup {0}
    /\ total + n + FoldFunction(+, 0, length) <= MaxChars
    /\ Goto(c, "lock")
    /\ length' = [length EXCEPT ![c] = n]
    /\ UNCHANGED <<locks, ring, con_rp, dev, wrote, event, held, setup, out, off>>

\* Text printed by a driver that the console itself has called (in_iodev) goes straight to the UARTs:
\* it takes and releases the lock its CPU already has and leaves everything as it was.  That of a secondary
\* whose MMU is off takes no lock at all and leaves the stream, the ring and the positions alone too.
Lock(c) ==
    /\ pc[c] = "lock" /\ MayLock(console_lock, c)
    /\ console_lock' = Locks(console_lock, c)
    /\ in_iodev = 0 /\ in_iodev' = 1
    /\ Goto(c, "device") /\ dev' = [dev EXCEPT ![c] = 1]
    /\ UNCHANGED <<dev_lock, ring, con_rp, length, wrote, event, held, setup, out, off>>

NextDevice(c) ==
    /\ Goto(c, "device") /\ dev' = [dev EXCEPT ![c] = @ + 1]
    /\ wrote' = [wrote EXCEPT ![c] = 0]

\* Where a device that is no console goes on: after all that is printed now
Skipped(c) == con_wp + length[c]

SkipDevice(c) ==
    /\ pc[c] = "device" /\ dev[c] \in Devs
    /\ LET d == dev[c]
       IN  \/ /\ ~present[d]
              /\ UNCHANGED <<con_rp, off>>
           \/ /\ present[d] /\ ~usage[d]
              /\ con_rp' = [con_rp EXCEPT ![d] = Skipped(c)]
              /\ off' = [off EXCEPT ![d] = total + length[c]]
           \/ /\ present[d] /\ usage[d] /\ MayUse(d, c)   \* iodev_can_write says no
              /\ UNCHANGED <<con_rp, off>>
    /\ NextDevice(c)
    /\ UNCHANGED <<locks, ring, length, event, held, setup, out>>

\* What the ring no longer holds is lost to the device
Clamped(d) == IF con_wp > Size /\ con_wp - Size > con_rp[d] THEN con_wp - Size ELSE con_rp[d]

UseDevice(c) ==
    /\ pc[c] = "device" /\ dev[c] \in Devs
    /\ present[dev[c]] /\ usage[dev[c]] /\ MayUse(dev[c], c)
    /\ con_rp' = [con_rp EXCEPT ![dev[c]] = Clamped(dev[c])]
    /\ Goto(c, "flush")
    /\ UNCHANGED <<locks, ring, where, setup, out, off>>

\* Device d takes the characters s
Output(d, s) == out' = [out EXCEPT ![d] = @ \o s]

\* The part of the ring, without a wrap, that device d has still to output
Block(d) == LET rp == con_rp[d] % Size
            IN  IF con_wp - con_rp[d] < Size - rp THEN con_wp - con_rp[d] ELSE Size - rp

\* The device takes n characters of the ring; none if it is full or has gone
Flush(c, n) ==
    /\ pc[c] = "flush" /\ con_rp[dev[c]] < con_wp
    /\ LET d == dev[c]
       IN  /\ n \in 0..Block(d)
           /\ IF present[d] THEN MayUse(d, c) ELSE n = 0
           /\ Output(d, [i \in 1..n |-> con_buf[(con_rp[d] % Size) + i - 1]])
           /\ con_rp' = [con_rp EXCEPT ![d] = @ + n]
           /\ IF n = 0 THEN NextDevice(c) ELSE UNCHANGED <<pc, dev, wrote>>
    /\ UNCHANGED <<locks, ring, length, event, held, setup, off>>

Flushed(c) ==
    /\ pc[c] = "flush" /\ con_rp[dev[c]] >= con_wp
    /\ Goto(c, "current")
    /\ UNCHANGED <<locks, ring, con_rp, where, setup, out, off>>

\* (mutant) the position is not advanced when the device does not take all of the text
TakenWhole(c, n) == IF wrote[c] + n = length[c] THEN n ELSE 0

\* By how much con_rp advances when the device takes n characters of the text
Taken(c, n) == n

\* The device takes n characters of the text being printed
Current(c, n) ==
    /\ pc[c] = "current" /\ wrote[c] < length[c]
    /\ LET d == dev[c]
       IN  /\ n \in 0..length[c] - wrote[c]
           /\ IF present[d] THEN MayUse(d, c) ELSE n = 0
           /\ Output(d, [i \in 1..n |-> total + wrote[c] + i - 1])
           /\ con_rp' = [con_rp EXCEPT ![d] = @ + Taken(c, n)]
           /\ IF n = 0 THEN NextDevice(c)
                       ELSE wrote' = [wrote EXCEPT ![c] = @ + n] /\ UNCHANGED <<pc, dev>>
    /\ UNCHANGED <<locks, ring, length, event, held, setup, off>>

CurrentDone(c) ==
    /\ pc[c] = "current" /\ wrote[c] = length[c]
    /\ NextDevice(c)
    /\ UNCHANGED <<locks, ring, con_rp, length, event, held, setup, out, off>>

\* The first character of a text of n that goes into the ring
Kept(n) == IF n > Size THEN n - Size ELSE 0

\* The text goes into the ring; a call from iodev_handle_events returns there
Store(c) ==
    /\ pc[c] = "device" /\ dev[c] \notin Devs
    /\ LET n == length[c]
           k == IF n > Size THEN Size ELSE n
           from == con_wp + n - k
       IN  /\ con_buf' = [i \in 0..Size - 1 |->
                            IF \E j \in 0..k - 1 : (from + j) % Size = i
                              THEN total + Kept(n) + (CHOOSE j \in 0..k - 1 : (from + j) % Size = i)
                              ELSE con_buf[i]]
           /\ con_wp' = con_wp + n
           /\ total' = total + n
    /\ in_iodev' = in_iodev - 1
    /\ console_lock' = Unlocks(console_lock)
    /\ Goto(c, IF event[c] = 0 THEN Rest(c) ELSE "event_end")
    /\ dev' = [dev EXCEPT ![c] = 0] /\ length' = [length EXCEPT ![c] = 0]
    /\ UNCHANGED <<dev_lock, con_rp, wrote, event, held, setup, out, off>>

-----------------------------------------------------------------------------
(* iodev_handle_events                                                     *)

EventCall(c, d) ==
    /\ pc[c] = "idle" /\ present[d] /\ d \notin Chatty
    /\ event' = [event EXCEPT ![c] = d]
    /\ Goto(c, "event")
    /\ UNCHANGED <<locks, ring, con_rp, dev, length, wrote, held, setup, out, off>>

\* The driver handles its events, with in_iodev set; then the console goes on if the device is ready
\* (iodev_can_write), and the lock is kept until that has returned
Event(c) ==
    /\ pc[c] = "event" /\ MayLock(console_lock, c) /\ in_iodev = 0
    /\ console_lock' = Locks(console_lock, c)
    /\ Goto(c, "event_ready")
    /\ UNCHANGED <<dev_lock, in_iodev, ring, con_rp, where, setup, out, off>>

EventReady(c) ==
    /\ pc[c] = "event_ready" /\ MayUse(event[c], c)
    /\ \/ Goto(c, "lock")
       \/ Goto(c, "event_end")
    /\ UNCHANGED <<locks, ring, con_rp, where, setup, out, off>>

EventEnd(c) ==
    /\ pc[c] = "event_end"
    /\ console_lock' = Unlocks(console_lock)
    /\ Goto(c, Rest(c)) /\ event' = [event EXCEPT ![c] = 0]
    /\ UNCHANGED <<dev_lock, in_iodev, ring, con_rp, dev, length, wrote, held, setup, out, off>>

-----------------------------------------------------------------------------
(* Other users of the devices                                              *)

\* iodev_lock, iodev_write and the like: the device is used for something else than the console
Hold(c, d) ==
    /\ pc[c] = "idle" /\ present[d] /\ MayUse(d, c)
    /\ dev_lock' = [dev_lock EXCEPT ![d] = Locks(@, c)]
    /\ held' = [held EXCEPT ![c] = d]
    /\ Goto(c, "held")
    /\ UNCHANGED <<console_lock, in_iodev, ring, con_rp, dev, length, wrote, event, setup, out, off>>

Release(c) ==
    /\ pc[c] = "held"
    /\ dev_lock' = [dev_lock EXCEPT ![held[c]] = Unlocks(@)]
    /\ held' = [held EXCEPT ![c] = 0]
    /\ Goto(c, "idle")
    /\ UNCHANGED <<console_lock, in_iodev, ring, con_rp, dev, length, wrote, event, setup, out, off>>

Change == changes < MaxChanges /\ changes' = changes + 1

\* iodev_set_usage, at any time and without a lock
SetUsage(d) ==
    /\ Change
    /\ usage' = [usage EXCEPT ![d] = ~@]
    /\ UNCHANGED <<locks, ring, con_rp, pc, where, present, out, off>>

\* iodev_register_device and iodev_unregister_device take no lock either; their callers see to it
\* that nothing uses the device
Register(d) ==
    /\ Change
    /\ console_lock = Free /\ dev_lock[d] = Free /\ \A c \in CPUs : event[c] # d
    /\ present' = [present EXCEPT ![d] = ~@]
    /\ UNCHANGED <<locks, ring, con_rp, pc, where, usage, out, off>>

\* The oldest character of the ring
Retained == IF con_wp > Size THEN con_wp - Size ELSE 0

\* iodev_console_rewind: what the device had output is gone, and shown again
iodev_console_rewind(d) ==
    /\ Change
    /\ present[d] /\ console_lock = Free
    /\ con_rp' = [con_rp EXCEPT ![d] = Retained]
    /\ out' = [out EXCEPT ![d] = <<>>] /\ off' = [off EXCEPT ![d] = 0]
    /\ UNCHANGED <<locks, ring, pc, where, usage, present>>

Next ==
    \/ \E c \in CPUs :
          \/ \E n \in Lengths : Call(c, n)
          \/ Lock(c) \/ SkipDevice(c) \/ UseDevice(c) \/ Flushed(c) \/ CurrentDone(c) \/ Store(c)
          \/ \E n \in 0..MaxChars : Flush(c, n) \/ Current(c, n)
          \/ \E d \in Devs : EventCall(c, d) \/ Hold(c, d)
          \/ Event(c) \/ EventReady(c) \/ EventEnd(c) \/ Release(c)
    \/ \E d \in Toggled : SetUsage(d) \/ Register(d) \/ iodev_console_rewind(d)

Spec == Init /\ [][Next]_vars

-----------------------------------------------------------------------------
(* Properties                                                              *)

\* The variables have their types; every lock is held exactly when it is counted
TypeOK ==
    /\ \A l \in {console_lock} \cup {dev_lock[d] : d \in Devs} :
          l.owner \in CPUs \cup {Nobody} /\ l.count \in 0..2 /\ (l.owner = Nobody <=> l.count = 0)
    /\ in_iodev \in {0, 1} /\ con_wp \in 0..MaxChars
    /\ con_buf \in [0..Size - 1 -> -1..MaxChars - 1]
    /\ con_rp \in [Devs -> 0..MaxChars]
    /\ pc \in [CPUs -> {"idle", "held", "lock", "device", "flush", "current", "event", "event_ready",
                        "event_end"}]
    /\ dev \in [CPUs -> 0..D + 1] /\ event \in [CPUs -> 0..D] /\ held \in [CPUs -> 0..D]
    /\ \A c \in CPUs : wrote[c] <= length[c]

\* Every device outputs what was printed in its order and nothing twice, however often it takes only
\* a part, falls behind the ring, stops being a console and becomes one again; only a rewind makes
\* it start over (iodev_console_write)
InOrder == \A d \in Devs, i, j \in 1..MaxChars :
              i < j /\ j \in DOMAIN out[d] => out[d][i] < out[d][j]

\* What a device has not output it will still be given, also while a text is being written: the ring
\* has it and the device's position is not beyond it.  Excepted is what the ring no longer holds and
\* what was printed before the device last was found not to be a console (iodev_console_write)
NothingLost ==
    \A d \in Devs, p \in 0..total - 1 :
       \/ \E i \in DOMAIN out[d] : out[d][i] = p
       \/ p < off[d] \/ p < total - Size
       \/ con_rp[d] <= p /\ con_buf[p % Size] = p

\* What the console promises for each of its devices (iodev.c)
ConsoleSound == InOrder /\ NothingLost
=============================================================================
