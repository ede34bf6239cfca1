---------------------------- MODULE ConsoleProof ----------------------------
(***************************************************************************)
(* Proofs about Console: what a device has output is in order, and what it *)
(* has not output is still to come, for any number of CPUs and devices,    *)
(* any size of the ring and texts of any length.                           *)
(***************************************************************************)
EXTENDS Console, TLAPS

\* What the constants are taken to be: numbers and lengths, devices, and a name that is no CPU
Sane ==
    /\ D \in Nat /\ Size \in Nat \ {0} /\ Lengths \subseteq Nat /\ Toggled \subseteq Devs
    /\ Nobody \notin CPUs

-----------------------------------------------------------------------------
(* Remainders and sequences                                                *)

\* Remainder and quotient
LEMMA ModDef ==
    ASSUME NEW a \in Nat, NEW S \in Nat \ {0}
    PROVE  a % S \in 0..S - 1 /\ a \div S \in Nat /\ a % S = a - S * (a \div S)
  <1>1. a % S \in 0..S - 1
    OBVIOUS
  <1>2. a \div S \in Nat
    OBVIOUS
  <1>3. a % S = a - S * (a \div S)
    OBVIOUS
  <1> QED
    BY <1>1, <1>2, <1>3, Zenon

\* A remainder is the only one
LEMMA ModUnique ==
    ASSUME NEW a \in Nat, NEW S \in Nat \ {0}, NEW q \in Nat, NEW r \in 0..S - 1, a = S * q + r
    PROVE  a % S = r
  OBVIOUS

\* Steps within a round of the ring
LEMMA ModAdd ==
    ASSUME NEW a \in Nat, NEW S \in Nat \ {0}, NEW k \in Nat, (a % S) + k < S
    PROVE  (a + k) % S = (a % S) + k
  <1>1. PICK q \in Nat : q = a \div S
    BY ModDef, Zenon
  <1>2. PICK r \in 0..S - 1 : r = a % S
    BY ModDef, Zenon
  <1>3. r = a - S * q
    BY <1>1, <1>2, ModDef, Zenon
  <1>4. S * q \in Nat
    OBVIOUS
  <1>5. a + k = S * q + (r + k) /\ r + k \in 0..S - 1
    BY <1>2, <1>3, <1>4
  <1> QED
    BY <1>2, <1>5, ModUnique

\* Positions less than a round apart are at different places of the ring
LEMMA ModInj ==
    ASSUME NEW a \in Nat, NEW b \in Nat, NEW S \in Nat \ {0}, a < b, b < a + S
    PROVE  a % S # b % S
  <1>1. SUFFICES ASSUME a % S = b % S PROVE FALSE
    BY Zenon
  <1>2. PICK q \in Nat : q = a \div S
    BY ModDef, Zenon
  <1>3. PICK t \in Nat : t = b \div S
    BY ModDef, Zenon
  <1>4. a - S * q = b - S * t
    BY <1>1, <1>2, <1>3, ModDef
  <1>5. b - a = S * t - S * q
    BY <1>4
  <1>6. CASE t <= q
    <2>1. S * t <= S * q
      BY <1>6
    <2> QED
      BY <1>5, <2>1
  <1>7. CASE q + 1 <= t
    <2>1. S * q + S <= S * t
      BY <1>7
    <2> QED
      BY <1>5, <2>1
  <1> QED
    BY <1>6, <1>7

\* A list of n characters
LEMMA Listed ==
    ASSUME NEW n \in Nat, NEW t \in [1..n -> Nat]
    PROVE  t \in Seq(Nat) /\ Len(t) = n
  <1>1. t \in Seq(Nat)
    OBVIOUS
  <1>2. DOMAIN t = 1..n
    BY Zenon
  <1> QED
    BY <1>1, <1>2

\* One sequence after another
LEMMA Concat ==
    ASSUME NEW s \in Seq(Nat), NEW t \in Seq(Nat)
    PROVE  /\ s \o t \in Seq(Nat) /\ Len(s) \in Nat /\ Len(t) \in Nat /\ Len(s \o t) = Len(s) + Len(t)
           /\ \A i \in 1..Len(s) : (s \o t)[i] = s[i] /\ s[i] \in Nat
           /\ \A i \in 1..Len(t) : (s \o t)[Len(s) + i] = t[i]
  <1>1. s \o t \in Seq(Nat)
    OBVIOUS
  <1>2. Len(s) \in Nat /\ Len(t) \in Nat /\ Len(s \o t) = Len(s) + Len(t)
    OBVIOUS
  <1>3. \A i \in 1..Len(s) : (s \o t)[i] = s[i] /\ s[i] \in Nat
    OBVIOUS
  <1>4. \A i \in 1..Len(t) : (s \o t)[Len(s) + i] = t[i]
    OBVIOUS
  <1> QED
    BY <1>1, <1>2, <1>3, <1>4, Zenon

\* What a device has output is in order and before its position
Ordered(s, e) == (\A i, j \in DOMAIN s : i < j => s[i] < s[j]) /\ (\A i \in DOMAIN s : s[i] < e)

\* Characters that follow each other from position a on
Follows(t, a) == \A i \in 1..Len(t) : t[i] = a + i - 1

\* A character is among those output
Has(s, p) == \E i \in DOMAIN s : s[i] = p

\* Such characters go to the end of what a device has output
LEMMA Extend ==
    ASSUME NEW s \in Seq(Nat), NEW t \in Seq(Nat), NEW a \in Nat, Ordered(s, a), Follows(t, a)
    PROVE  /\ s \o t \in Seq(Nat) /\ Ordered(s \o t, a + Len(t))
           /\ \A p : Has(s, p) => Has(s \o t, p)
           /\ \A p \in Nat : a <= p /\ p < a + Len(t) => Has(s \o t, p)
  <1> DEFINE n == Len(t)
             m == Len(s)
             r == s \o t
  <1>1. r \in Seq(Nat) /\ Len(r) = m + n /\ m \in Nat /\ n \in Nat
    BY Concat, Zenon
  <1>2. DOMAIN s = 1..m /\ DOMAIN r = 1..m + n
    BY <1>1
  <1>3. \A i \in 1..m : r[i] = s[i] /\ s[i] \in Nat /\ s[i] < a
    BY <1>2, Concat, Zenon DEF Ordered
  <1>4. \A i : \A k \in 1..n : i = m + k => r[i] = a + k - 1
    <2>1. \A k \in 1..n : r[m + k] = a + k - 1
      BY Concat, Zenon DEF Follows
    <2> QED
      BY <2>1, Zenon
  <1>5. \A i, j \in 1..m : i < j => r[i] < r[j]
    BY <1>2, <1>3, Zenon DEF Ordered
  <1> HIDE DEF n, m, r
  <1>6. \A i \in 1..m + n : i \in 1..m \/ \E k \in 1..n : i = m + k
    <2> TAKE i \in 1..m + n
    <2>1. CASE i > m
      <3>1. i - m \in 1..n /\ i = m + (i - m)
        BY <1>1, <2>1
      <3> QED
        BY <3>1, Zenon
    <2> QED
      BY <1>1, <2>1
  <1>7. ASSUME NEW i \in 1..m + n, NEW j \in 1..m + n, i < j
        PROVE  r[i] < r[j]
    <2>1. CASE j \in 1..m
      BY <1>1, <1>5, <1>7, <2>1
    <2>2. ASSUME NEW k \in 1..n, j = m + k
          PROVE  r[i] < r[j]
      <3>1. r[j] = a + k - 1
        BY <1>4, <2>2, Zenon
      <3>2. CASE i \in 1..m
        BY <1>3, <3>1, <3>2
      <3>3. ASSUME NEW l \in 1..n, i = m + l
            PROVE  r[i] < r[j]
        <4>1. r[i] = a + l - 1
          BY <1>4, <3>3, Zenon
        <4>2. l < k
          BY <1>1, <1>7, <2>2, <3>3
        <4> QED
          BY <3>1, <4>1, <4>2
      <3> QED
        BY <1>6, <3>2, <3>3, Zenon
    <2> QED
      BY <1>6, <2>1, <2>2, Zenon
  <1>8. ASSUME NEW i \in 1..m + n
        PROVE  r[i] < a + n
    <2>1. CASE i \in 1..m
      <3>1. r[i] \in Nat /\ r[i] < a
        BY <1>3, <2>1, Zenon
      <3> QED
        BY <1>1, <3>1
    <2>2. ASSUME NEW k \in 1..n, i = m + k
          PROVE  r[i] < a + n
      <3>1. r[i] = a + k - 1
        BY <1>4, <2>2, Zenon
      <3> QED
        BY <1>1, <3>1
    <2> QED
      BY <1>6, <2>1, <2>2, Zenon
  <1>9. ASSUME NEW p, Has(s, p)
        PROVE  Has(r, p)
    <2>1. PICK i \in DOMAIN s : s[i] = p
      BY <1>9, Zenon DEF Has
    <2>2. 1..m \subseteq 1..m + n
      BY <1>1
    <2> QED
      BY <1>2, <1>3, <2>1, <2>2, Zenon DEF Has
  <1>10. ASSUME NEW p \in Nat, a <= p, p < a + n
         PROVE  Has(r, p)
    <2>1. PICK k \in 1..n : k = p - a + 1
      BY <1>1, <1>10
    <2>2. r[m + k] = a + k - 1
      BY <1>4, Zenon
    <2>3. r[m + k] = p /\ m + k \in DOMAIN r
      BY <1>1, <1>2, <1>10, <2>1, <2>2
    <2> QED
      BY <2>3, Zenon DEF Has
  <1>11. Ordered(r, a + n)
    BY <1>2, <1>7, <1>8, Zenon DEF Ordered
  <1> QED
    BY <1>1, <1>9, <1>10, <1>11, Zenon DEF n, r

-----------------------------------------------------------------------------
(* The invariant                                                           *)

\* Where a CPU is in the part of iodev_console_write that console_lock protects
Writing == {"device", "flush", "current"}

\* How often a CPU has taken console_lock: by iodev_handle_events, and by iodev_console_write
DepthAt(p, v) == (IF v # 0 /\ p # "event" THEN 1 ELSE 0) + (IF p \in Writing THEN 1 ELSE 0)
Depth(c) == DepthAt(pc[c], event[c])

\* The types of what the proof is about
Types ==
    /\ total \in Nat /\ con_wp = total
    /\ con_buf \in [0..Size - 1 -> Int]
    /\ con_rp \in [Devs -> Nat] /\ off \in [Devs -> Nat] /\ out \in [Devs -> Seq(Nat)]
    /\ length \in [CPUs -> Nat] /\ wrote \in [CPUs -> Nat] /\ dev \in [CPUs -> Nat]
    /\ event \in [CPUs -> Nat]
    /\ pc \in [CPUs -> {"idle", "held", "lock", "device", "flush", "current", "event", "event_ready",
                        "event_end"}]
    /\ console_lock \in [owner : CPUs \cup {Nobody}, count : Nat]

\* console_lock is held by the CPU that is between its locks and unlocks, as often as it has taken it
Held(c) ==
    /\ Depth(c) > 0 => console_lock.owner = c
    /\ console_lock.owner = c => console_lock.count = Depth(c)
    /\ pc[c] \in {"idle", "held"} => event[c] = 0
    /\ pc[c] \in {"event", "event_ready", "event_end"} => event[c] # 0

\* Where the writer is, and where its device is
Writer(c) ==
    /\ pc[c] # "current" => wrote[c] = 0
    /\ wrote[c] <= length[c]
    /\ pc[c] = "device" => dev[c] \in 1..D + 1
    /\ pc[c] = "flush" => dev[c] \in Devs /\ total <= con_rp[dev[c]] + Size /\ con_rp[dev[c]] <= total
    /\ pc[c] = "current" => dev[c] \in Devs /\ con_rp[dev[c]] = total + wrote[c]

\* The ring has the last Size characters
Ring == \A p \in 0..total - 1 : total <= p + Size => con_buf[p % Size] = p

\* The writer has given device d what it takes of the text, or has skipped it
Passed(c, d) == pc[c] \in Writing /\ (d < dev[c] \/ (d = dev[c] /\ pc[c] = "current"))

\* A device is behind, or at most as far as the text being written
Extent(d) == con_rp[d] <= total \/ \E c \in CPUs : Passed(c, d) /\ con_rp[d] <= total + length[c]

\* What is before a device's position was output, or dropped
Covered(d) ==
    \A p \in 0..con_rp[d] - 1 : p < off[d] \/ p < total - Size \/ Has(out[d], p)

\* The state of one device
Device(d) == Extent(d) /\ Ordered(out[d], con_rp[d]) /\ Covered(d)

\* The inductive invariant
ConInv == Types /\ Ring /\ (\A c \in CPUs : Held(c) /\ Writer(c)) /\ (\A d \in Devs : Device(d))

\* console_lock admits one writer
LEMMA OneWriter ==
    ASSUME \A c \in CPUs : Held(c), NEW c \in CPUs, NEW e \in CPUs, pc[c] \in Writing, pc[e] \in Writing
    PROVE  c = e
  <1>1. Depth(c) > 0 /\ Depth(e) > 0
    BY DEF Depth, DepthAt
  <1> QED
    BY <1>1, Zenon DEF Held

\* and none while it is free
LEMMA NoWriter ==
    ASSUME Sane, \A c \in CPUs : Held(c), console_lock = Free, NEW c \in CPUs
    PROVE  pc[c] \notin Writing
  <1>1. pc[c] \in Writing => Depth(c) > 0
    BY DEF Depth, DepthAt
  <1> QED
    BY <1>1, Zenon DEF Held, Free, Sane

\* A lock that is taken is a lock
LEMMA LockTyped ==
    ASSUME NEW l \in [owner : CPUs \cup {Nobody}, count : Nat], NEW c \in CPUs
    PROVE  Locks(l, c) \in [owner : CPUs \cup {Nobody}, count : Nat]
  <1>1. CASE l.owner = c
    <2>1. Locks(l, c) = [l EXCEPT !.count = @ + 1]
      BY <1>1, Zenon DEF Locks
    <2> QED
      BY <2>1
  <1>2. CASE l.owner # c
    <2>1. Locks(l, c) = [owner |-> c, count |-> 1]
      BY <1>2, Zenon DEF Locks
    <2> QED
      BY <2>1
  <1> QED
    BY <1>1, <1>2, Zenon

\* A CPU moves on, and takes or releases console_lock as it does
LEMMA HeldStep ==
    ASSUME Sane, Types, \A e \in CPUs : Held(e), NEW c \in CPUs,
           \A e \in CPUs \ {c} : pc'[e] = pc[e] /\ event'[e] = event[e],
           pc'[c] \in {"idle", "held"} => event'[c] = 0,
           pc'[c] \in {"event", "event_ready", "event_end"} => event'[c] # 0,
           \/ console_lock' = console_lock /\ Depth(c)' = Depth(c)
           \/ MayLock(console_lock, c) /\ console_lock' = Locks(console_lock, c) /\ Depth(c)' = Depth(c) + 1
           \/ Depth(c) > 0 /\ console_lock' = Unlocks(console_lock) /\ Depth(c)' = Depth(c) - 1
    PROVE  \A e \in CPUs : Held(e)'
  <1>0. /\ console_lock \in [owner : CPUs \cup {Nobody}, count : Nat]
        /\ Nobody \notin CPUs
        /\ Depth(c) \in Nat /\ Depth(c)' \in Nat
        /\ \A e \in CPUs \ {c} : Depth(e)' = Depth(e) /\ Depth(e) \in Nat
    <2>1. console_lock \in [owner : CPUs \cup {Nobody}, count : Nat] /\ Nobody \notin CPUs
      BY Zenon DEF Sane, Types
    <2>2. \A p, v : DepthAt(p, v) \in Nat
      BY DEF DepthAt
    <2> QED
      BY <2>1, <2>2, Zenon DEF Depth
  <1>1. CASE console_lock' = console_lock /\ Depth(c)' = Depth(c)
    BY <1>0, <1>1 DEF Held
  <1>2. CASE MayLock(console_lock, c) /\ console_lock' = Locks(console_lock, c) /\ Depth(c)' = Depth(c) + 1
    <2>1. console_lock'.owner = c /\ console_lock.owner \in {c, Nobody}
      BY <1>0, <1>2, Zenon DEF MayLock, Locks
    <2>2. console_lock'.count = Depth(c)'
      BY <1>0, <1>2, <2>1 DEF MayLock, Locks, Held
    <2> QED
      BY <1>0, <2>1, <2>2 DEF Held
  <1>3. CASE Depth(c) > 0 /\ console_lock' = Unlocks(console_lock) /\ Depth(c)' = Depth(c) - 1
    <2>1. console_lock.owner = c /\ console_lock.count = Depth(c)
      BY <1>3, Zenon DEF Held
    <2>2. CASE Depth(c) = 1
      BY <1>0, <1>3, <2>1, <2>2 DEF Unlocks, Free, Held
    <2>3. CASE Depth(c) # 1
      BY <1>0, <1>3, <2>1, <2>3 DEF Unlocks, Held
    <2> QED
      BY <2>2, <2>3, Zenon
  <1> QED
    BY <1>1, <1>2, <1>3, Zenon

\* A CPU moves on, and with it at most the device it writes to
LEMMA DataStep ==
    ASSUME Sane, ConInv, NEW c \in CPUs, UNCHANGED <<total, con_buf>>,
           \A e \in CPUs \ {c} : /\ pc'[e] = pc[e] /\ dev'[e] = dev[e]
                                 /\ length'[e] = length[e] /\ wrote'[e] = wrote[e],
           pc[c] \in Writing \/ UNCHANGED con_rp,
           \A d \in Devs : Passed(c, d) => Passed(c, d)' /\ length'[c] = length[c],
           \A d \in Devs : Device(d)' \/ (con_rp'[d] = con_rp[d] /\ out'[d] = out[d] /\ off'[d] = off[d]),
           Writer(c)'
    PROVE  Ring' /\ (\A e \in CPUs : Writer(e)') /\ (\A d \in Devs : Device(d)')
  <1>1. Ring'
    BY Zenon DEF ConInv, Ring
  <1>2. ASSUME NEW e \in CPUs \ {c}
        PROVE  Writer(e)'
    <2>1. Writer(e)
      BY Zenon DEF ConInv
    <2>2. CASE UNCHANGED con_rp
      BY <2>1, <2>2, Zenon DEF Writer
    <2>3. CASE pc[c] \in Writing
      <3>1. pc[e] \notin Writing
        BY <2>3, OneWriter, Zenon DEF ConInv
      <3> QED
        BY <2>1, <3>1, Zenon DEF Writer, Writing
    <2> QED
      BY <2>2, <2>3, Zenon
  <1>3. ASSUME NEW d \in Devs, con_rp'[d] = con_rp[d], out'[d] = out[d], off'[d] = off[d]
        PROVE  Device(d)'
    <2>1. Device(d)
      BY Zenon DEF ConInv
    <2>2. Extent(d)'
      <3>1. CASE con_rp[d] <= total
        BY <1>3, <3>1, Zenon DEF Extent
      <3>2. ASSUME NEW e \in CPUs, Passed(e, d), con_rp[d] <= total + length[e]
            PROVE  Extent(d)'
        <4>1. Passed(e, d)' /\ length'[e] = length[e]
          BY <3>2, Zenon DEF Passed
        <4> QED
          BY <1>3, <3>2, <4>1, Zenon DEF Extent
      <3> QED
        BY <2>1, <3>1, <3>2, Zenon DEF Device, Extent
    <2>3. Covered(d)'
      BY <1>3, <2>1, Zenon DEF Device, Covered
    <2> QED
      BY <1>3, <2>1, <2>2, <2>3, Zenon DEF Device
  <1> QED
    BY <1>1, <1>2, <1>3, Zenon

\* The writer finds a device no further than all that is in the ring
LEMMA Behind ==
    ASSUME ConInv, NEW c \in CPUs, pc[c] \in {"device", "flush"}, dev[c] \in Devs
    PROVE  con_rp[dev[c]] <= total
  <1>1. Extent(dev[c])
    BY Zenon DEF ConInv, Device
  <1>2. ASSUME NEW e \in CPUs, Passed(e, dev[c])
        PROVE  FALSE
    <2>1. e = c
      BY <1>2, OneWriter, Zenon DEF ConInv, Passed, Writing
    <2> QED
      BY <1>2, <2>1 DEF Passed, ConInv, Types, Devs
  <1> QED
    BY <1>1, <1>2, Zenon DEF Extent

-----------------------------------------------------------------------------
(* The steps                                                               *)

\* A step that only moves its CPU to a place where it does not write
LEMMA AsideStep ==
    ASSUME Sane, ConInv, NEW c \in CPUs, UNCHANGED <<ring, con_rp, out, off, dev, wrote>>,
           NEW x, pc' = [pc EXCEPT ![c] = x], pc[c] \notin Writing, x \notin Writing,
           length' = length \/ \E n \in Nat : length' = [length EXCEPT ![c] = n]
    PROVE  Ring' /\ (\A e \in CPUs : Writer(e)') /\ (\A d \in Devs : Device(d)')
  <1>1. wrote[c] = 0
    BY Zenon DEF ConInv, Writer, Writing
  <1>2. /\ pc'[c] = x /\ length'[c] \in Nat
        /\ \A e \in CPUs \ {c} : pc'[e] = pc[e] /\ length'[e] = length[e]
    BY Zenon DEF ConInv, Types
  <1>3. Writer(c)'
    BY <1>1, <1>2 DEF Writer, Writing
  <1>4. \A d \in Devs : ~Passed(c, d)
    BY Zenon DEF Passed
  <1> QED
    BY <1>2, <1>3, <1>4, DataStep, Zenon DEF ring

\* printf, and the calls and returns that do not write
LEMMA AsideSteps ==
    ASSUME Sane, ConInv, NEW c \in CPUs,
           \/ \E n \in Lengths : Call(c, n)
           \/ \E d \in Devs : EventCall(c, d) \/ Hold(c, d)
           \/ Event(c) \/ EventReady(c) \/ EventEnd(c) \/ Release(c)
    PROVE  ConInv'
  <1>0. Types /\ (\A e \in CPUs : Held(e)) /\ event[c] \in Nat /\ Rest(c) \in {"idle", "held"}
    BY Zenon DEF ConInv, Types, Rest
  <1>1. CASE \E n \in Lengths : Call(c, n)
    <2>1. PICK n \in Lengths : Call(c, n)
      BY <1>1, Zenon
    <2>2. n \in Nat
      BY Zenon DEF Sane
    <2>3. /\ pc[c] \in {"idle", "held"} /\ pc' = [pc EXCEPT ![c] = "lock"]
          /\ length' = [length EXCEPT ![c] = n]
          /\ UNCHANGED <<console_lock, ring, con_rp, out, off, dev, wrote, event>>
      BY <1>0, <2>1, Zenon DEF Call, Goto, locks
    <2>4. Types'
      BY <1>0, <2>2, <2>3, Zenon DEF Types, ring
    <2>5. Depth(c)' = Depth(c)
      BY <1>0, <2>3, Zenon DEF Depth, DepthAt, Types, Writing
    <2>6. \A e \in CPUs : Held(e)'
      BY <1>0, <2>3, <2>5, HeldStep, Zenon DEF Types
    <2>7. Ring' /\ (\A e \in CPUs : Writer(e)') /\ (\A d \in Devs : Device(d)')
      BY <2>2, <2>3, AsideStep, Zenon DEF Writing
    <2> QED
      BY <2>4, <2>6, <2>7, Zenon DEF ConInv
  <1>2. ASSUME NEW d \in Devs, EventCall(c, d)
        PROVE  ConInv'
    <2>1. d \in Nat /\ d # 0
      BY DEF Devs, Sane
    <2>2. /\ pc[c] = "idle" /\ pc' = [pc EXCEPT ![c] = "event"]
          /\ event' = [event EXCEPT ![c] = d]
          /\ UNCHANGED <<console_lock, ring, con_rp, out, off, dev, wrote, length>>
      BY <1>2, Zenon DEF EventCall, Goto, locks
    <2>3. Types'
      BY <1>0, <2>1, <2>2, Zenon DEF Types, ring
    <2>4. Depth(c)' = Depth(c)
      BY <1>0, <2>1, <2>2, Zenon DEF Depth, DepthAt, Types, Writing, Held
    <2>5. \A e \in CPUs : Held(e)'
      BY <1>0, <2>1, <2>2, <2>4, HeldStep, Zenon DEF Types
    <2>6. Ring' /\ (\A e \in CPUs : Writer(e)') /\ (\A e \in Devs : Device(e)')
      BY <2>2, AsideStep, Zenon DEF Writing
    <2> QED
      BY <2>3, <2>5, <2>6, Zenon DEF ConInv
  <1>3. CASE (\E d \in Devs : Hold(c, d)) \/ EventReady(c) \/ Release(c)
    <2>1. /\ UNCHANGED <<console_lock, ring, con_rp, out, off, dev, wrote, length, event>>
          /\ \/ pc[c] \in {"idle", "held"} /\ \E x \in {"idle", "held"} : pc' = [pc EXCEPT ![c] = x]
             \/ pc[c] = "event_ready" /\ \E x \in {"lock", "event_end"} : pc' = [pc EXCEPT ![c] = x]
      BY <1>3, Zenon DEF Hold, EventReady, Release, Goto, locks, where
    <2>2. PICK x \in {"idle", "held", "lock", "event_end"} :
             /\ pc' = [pc EXCEPT ![c] = x]
             /\ \/ pc[c] \in {"idle", "held"} /\ x \in {"idle", "held"}
                \/ pc[c] = "event_ready" /\ x \in {"lock", "event_end"}
      BY <2>1, Zenon
    <2>3. Types'
      BY <1>0, <2>1, <2>2, Zenon DEF Types, ring
    <2>4. Depth(c)' = Depth(c)
      BY <1>0, <2>1, <2>2, Zenon DEF Depth, DepthAt, Types, Writing
    <2>5. \A e \in CPUs : Held(e)'
      <3>1. Held(c)
        BY <1>0, Zenon
      <3>2. event'[c] = event[c] /\ pc'[c] = x
        BY <1>0, <2>1, <2>2, Zenon DEF Types
      <3>3. /\ pc'[c] \in {"idle", "held"} => event'[c] = 0
            /\ pc'[c] \in {"event", "event_ready", "event_end"} => event'[c] # 0
        BY <2>2, <3>1, <3>2, Zenon DEF Held
      <3> QED
        BY <1>0, <2>1, <2>2, <2>4, <3>3, HeldStep, Zenon DEF Types
    <2>6. Ring' /\ (\A e \in CPUs : Writer(e)') /\ (\A e \in Devs : Device(e)')
      BY <2>1, <2>2, AsideStep, Zenon DEF Writing
    <2> QED
      BY <2>3, <2>5, <2>6, Zenon DEF ConInv
  <1>4. CASE Event(c)
    <2>1. /\ pc[c] = "event" /\ pc' = [pc EXCEPT ![c] = "event_ready"]
          /\ MayLock(console_lock, c) /\ console_lock' = Locks(console_lock, c)
          /\ UNCHANGED <<ring, con_rp, out, off, dev, wrote, length, event>>
      BY <1>4, Zenon DEF Event, Goto, where
    <2>2. Types'
      <3>1. console_lock' \in [owner : CPUs \cup {Nobody}, count : Nat]
        BY <1>0, <2>1, LockTyped, Zenon DEF Types
      <3> QED
        BY <1>0, <2>1, <3>1, Zenon DEF Types, ring
    <2>3. Depth(c)' = Depth(c) + 1
      BY <1>0, <2>1 DEF Depth, DepthAt, Types, Writing, Held
    <2>4. \A e \in CPUs : Held(e)'
      <3>1. event[c] # 0
        BY <1>0, <2>1, Zenon DEF Held
      <3> QED
        BY <1>0, <2>1, <2>3, <3>1, HeldStep, Zenon DEF Types
    <2>5. Ring' /\ (\A e \in CPUs : Writer(e)') /\ (\A e \in Devs : Device(e)')
      BY <2>1, AsideStep, Zenon DEF Writing
    <2> QED
      BY <2>2, <2>4, <2>5, Zenon DEF ConInv
  <1>5. CASE EventEnd(c)
    <2>1. PICK x \in {"idle", "held"} :
             /\ pc[c] = "event_end" /\ pc' = [pc EXCEPT ![c] = x] /\ event' = [event EXCEPT ![c] = 0]
             /\ console_lock' = Unlocks(console_lock)
             /\ UNCHANGED <<ring, con_rp, out, off, dev, wrote, length>>
      BY <1>0, <1>5, Zenon DEF EventEnd, Goto
    <2>2. event[c] # 0
      BY <1>0, <2>1, Zenon DEF Held
    <2>3. Depth(c) = 1 /\ Depth(c)' = 0
      BY <1>0, <2>1, <2>2 DEF Depth, DepthAt, Types, Writing
    <2>4. Types'
      <3>1. console_lock.count = 1
        BY <1>0, <2>3 DEF Held
      <3>2. console_lock' \in [owner : CPUs \cup {Nobody}, count : Nat]
        BY <2>1, <3>1, Zenon DEF Unlocks, Free
      <3> QED
        BY <1>0, <2>1, <3>2, Zenon DEF Types, ring
    <2>5. \A e \in CPUs : Held(e)'
      <3>1. /\ pc'[c] = x /\ event'[c] = 0
            /\ \A e \in CPUs \ {c} : pc'[e] = pc[e] /\ event'[e] = event[e]
        BY <1>0, <2>1, Zenon DEF Types
      <3> QED
        BY <1>0, <2>1, <2>3, <3>1, HeldStep
    <2>6. Ring' /\ (\A e \in CPUs : Writer(e)') /\ (\A e \in Devs : Device(e)')
      BY <2>1, AsideStep, Zenon DEF Writing
    <2> QED
      BY <2>4, <2>5, <2>6, Zenon DEF ConInv
  <1> QED
    BY <1>1, <1>2, <1>3, <1>4, <1>5, Zenon

\* The writer goes on with the lock as it is
LEMMA WriterHeld ==
    ASSUME Sane, ConInv, NEW c \in CPUs, pc[c] \in Writing, NEW x \in Writing, pc' = [pc EXCEPT ![c] = x],
           UNCHANGED <<console_lock, event>>
    PROVE  \A e \in CPUs : Held(e)'
  <1>1. /\ pc'[c] = x /\ event' = event
        /\ \A e \in CPUs \ {c} : pc'[e] = pc[e]
    BY Zenon DEF ConInv, Types
  <1>2. Depth(c)' = Depth(c)
    BY <1>1, Zenon DEF Depth, DepthAt, Writing
  <1>3. pc'[c] \notin {"idle", "held", "event", "event_ready", "event_end"}
    BY <1>1, Zenon DEF Writing
  <1> QED
    BY <1>1, <1>2, <1>3, HeldStep, Zenon DEF ConInv

\* iodev_console_write begins
LEMMA LockStep ==
    ASSUME Sane, ConInv, NEW c \in CPUs, Lock(c)
    PROVE  ConInv'
  <1>0. Types /\ (\A e \in CPUs : Held(e)) /\ Writer(c)
    BY Zenon DEF ConInv
  <1>1. /\ pc[c] = "lock" /\ pc' = [pc EXCEPT ![c] = "device"] /\ dev' = [dev EXCEPT ![c] = 1]
        /\ MayLock(console_lock, c) /\ console_lock' = Locks(console_lock, c)
        /\ UNCHANGED <<ring, con_rp, out, off, wrote, length, event>>
    BY Zenon DEF Lock, Goto
  <1>2. Types'
    <2>1. console_lock' \in [owner : CPUs \cup {Nobody}, count : Nat]
      BY <1>0, <1>1, LockTyped, Zenon DEF Types
    <2> QED
      BY <1>0, <1>1, <2>1, Zenon DEF Types, ring
  <1>3. /\ pc'[c] = "device" /\ dev'[c] = 1
        /\ \A e \in CPUs \ {c} : pc'[e] = pc[e] /\ dev'[e] = dev[e]
    BY <1>0, <1>1, Zenon DEF Types
  <1>4. Depth(c)' = Depth(c) + 1
    BY <1>1, <1>3 DEF Depth, DepthAt, Writing
  <1>5. \A e \in CPUs : Held(e)'
    BY <1>0, <1>1, <1>3, <1>4, HeldStep, Zenon
  <1>6. Writer(c)'
    BY <1>0, <1>1, <1>3 DEF Writer, Sane
  <1>7. \A d \in Devs : ~Passed(c, d)
    BY <1>1, Zenon DEF Passed, Writing
  <1>8. Ring' /\ (\A e \in CPUs : Writer(e)') /\ (\A d \in Devs : Device(d)')
    BY <1>1, <1>3, <1>6, <1>7, DataStep, Zenon DEF ring
  <1> QED
    BY <1>2, <1>5, <1>8, Zenon DEF ConInv

\* The writer goes on to the next device: what it leaves is passed
LEMMA NextMoves ==
    ASSUME Sane, ConInv, NEW c \in CPUs, NextDevice(c), pc[c] \in Writing, dev[c] \in Devs, UNCHANGED length
    PROVE  /\ pc' = [pc EXCEPT ![c] = "device"] /\ pc'[c] = "device" /\ dev'[c] = dev[c] + 1 /\ wrote'[c] = 0
           /\ dev' \in [CPUs -> Nat] /\ wrote' \in [CPUs -> Nat]
           /\ \A e \in CPUs \ {c} : pc'[e] = pc[e] /\ dev'[e] = dev[e] /\ wrote'[e] = wrote[e]
           /\ Writer(c)'
           /\ \A d \in Devs : Passed(c, d) => Passed(c, d)'
           /\ \A d \in Devs : d = dev[c] => Passed(c, d)'
  <1>1. /\ pc' = [pc EXCEPT ![c] = "device"] /\ dev' = [dev EXCEPT ![c] = @ + 1]
        /\ wrote' = [wrote EXCEPT ![c] = 0]
    BY Zenon DEF NextDevice, Goto
  <1>2. Types /\ dev[c] \in 1..D /\ D \in Nat
    BY Zenon DEF ConInv, Devs, Sane
  <1>3. /\ pc'[c] = "device" /\ dev'[c] = dev[c] + 1 /\ wrote'[c] = 0
        /\ dev' \in [CPUs -> Nat] /\ wrote' \in [CPUs -> Nat]
        /\ \A e \in CPUs \ {c} : pc'[e] = pc[e] /\ dev'[e] = dev[e] /\ wrote'[e] = wrote[e]
    <2>1. dev[c] + 1 \in Nat /\ 0 \in Nat
      BY <1>2
    <2>2. pc'[c] = "device" /\ dev'[c] = dev[c] + 1 /\ wrote'[c] = 0
      BY <1>1, <1>2, Zenon DEF Types
    <2>3. dev' \in [CPUs -> Nat] /\ wrote' \in [CPUs -> Nat]
      BY <1>1, <1>2, <2>1, Zenon DEF Types
    <2>4. \A e \in CPUs \ {c} : pc'[e] = pc[e] /\ dev'[e] = dev[e] /\ wrote'[e] = wrote[e]
      BY <1>1, <1>2, Zenon DEF Types
    <2> QED
      BY <2>2, <2>3, <2>4, Zenon
  <1>4. Writer(c)'
    <2>1. dev[c] + 1 \in 1..D + 1
      BY <1>2
    <2>2. PICK l \in Nat : l = length[c]
      BY <1>2, Zenon DEF Types
    <2>3. 0 <= l
      OBVIOUS
    <2>4. length'[c] = l
      BY <2>2, Zenon
    <2>5. "device" # "current" /\ "device" # "flush"
      OBVIOUS
    <2> QED
      BY <1>3, <2>1, <2>3, <2>4, <2>5, Zenon DEF Writer
  <1>5. \A d \in Devs : Passed(c, d) => Passed(c, d)'
    <2>1. PICK x \in Nat : x = dev[c]
      BY <1>2, Zenon DEF Types
    <2>2. \A d \in Devs : (d < x => d < x + 1) /\ (d = x => d < x + 1)
      BY DEF Devs
    <2> QED
      BY <1>3, <2>1, <2>2, Zenon DEF Passed, Writing
  <1>6. \A d \in Devs : d = dev[c] => Passed(c, d)'
    <2>1. dev[c] < dev[c] + 1
      BY <1>2
    <2> QED
      BY <1>3, <2>1, Zenon DEF Passed, Writing
  <1> QED
    BY <1>1, <1>3, <1>4, <1>5, <1>6, Zenon

\* A device that is skipped: it is gone, it is no console, or it cannot take anything
LEMMA SkipStep ==
    ASSUME Sane, ConInv, NEW c \in CPUs, SkipDevice(c)
    PROVE  ConInv'
  <1>0. Types /\ pc[c] = "device" /\ dev[c] \in Devs
    BY Zenon DEF ConInv, SkipDevice
  <1>1. /\ NextDevice(c)
        /\ UNCHANGED <<console_lock, ring, length, event, out>>
        /\ \/ UNCHANGED <<con_rp, off>>
           \/ /\ con_rp' = [con_rp EXCEPT ![dev[c]] = Skipped(c)]
              /\ off' = [off EXCEPT ![dev[c]] = total + length[c]]
    BY Zenon DEF SkipDevice, locks
  <1>2. PICK d \in Devs : d = dev[c]
    BY <1>0, Zenon
  <1>3. /\ pc' = [pc EXCEPT ![c] = "device"] /\ pc'[c] = "device" /\ dev'[c] = dev[c] + 1 /\ wrote'[c] = 0
        /\ dev' \in [CPUs -> Nat] /\ wrote' \in [CPUs -> Nat]
        /\ \A e \in CPUs \ {c} : pc'[e] = pc[e] /\ dev'[e] = dev[e] /\ wrote'[e] = wrote[e]
        /\ Writer(c)'
        /\ \A e \in Devs : Passed(c, e) => Passed(c, e)'
        /\ Passed(c, d)'
    BY <1>0, <1>1, <1>2, NextMoves, Zenon DEF Writing
  <1>4. Skipped(c) = total + length[c] /\ Skipped(c) \in Nat
    <2>1. con_wp = total /\ total \in Nat /\ length[c] \in Nat
      BY <1>0, Zenon DEF Types
    <2>2. total + length[c] \in Nat
      BY <2>1
    <2> QED
      BY <2>1, <2>2, Zenon DEF Skipped
  <1>5. Types'
    <2>1. con_rp' \in [Devs -> Nat] /\ off' \in [Devs -> Nat]
      <3>1. CASE UNCHANGED <<con_rp, off>>
        BY <1>0, <3>1, Zenon DEF Types
      <3>2. CASE /\ con_rp' = [con_rp EXCEPT ![dev[c]] = Skipped(c)]
                 /\ off' = [off EXCEPT ![dev[c]] = total + length[c]]
        BY <1>0, <1>4, <3>2, Zenon DEF Types
      <3> QED
        BY <1>1, <3>1, <3>2, Zenon
    <2> QED
      BY <1>0, <1>1, <1>3, <2>1, Zenon DEF Types, ring
  <1>6. \A e \in CPUs : Held(e)'
    BY <1>0, <1>1, <1>3, WriterHeld, Zenon DEF Writing
  <1>7. \A e \in Devs : Device(e)' \/ (con_rp'[e] = con_rp[e] /\ out'[e] = out[e] /\ off'[e] = off[e])
    <2>1. CASE UNCHANGED <<con_rp, off>>
      BY <1>1, <2>1, Zenon
    <2>2. CASE /\ con_rp' = [con_rp EXCEPT ![dev[c]] = Skipped(c)]
               /\ off' = [off EXCEPT ![dev[c]] = total + length[c]]
      <3>1. /\ con_rp'[d] = total + length[c] /\ off'[d] = total + length[c] /\ out'[d] = out[d]
            /\ total' = total /\ length' = length /\ total \in Nat /\ length[c] \in Nat
        BY <1>0, <1>1, <1>2, <1>4, <2>2, Zenon DEF Types, ring
      <3>2. Extent(d)'
        BY <1>3, <3>1 DEF Extent
      <3>3. Covered(d)'
        BY <3>1 DEF Covered
      <3>4. Ordered(out[d], con_rp'[d])
        <4>1. Ordered(out[d], con_rp[d]) /\ con_rp[d] <= total /\ con_rp[d] \in Nat /\ out[d] \in Seq(Nat)
          BY <1>0, <1>2, Behind, Zenon DEF ConInv, Device, Types
        <4>2. \A i \in DOMAIN out[d] : out[d][i] \in Nat
          BY <4>1
        <4> QED
          BY <3>1, <4>1, <4>2 DEF Ordered
      <3>5. Device(d)'
        BY <3>1, <3>2, <3>3, <3>4, Zenon DEF Device
      <3>6. \A e \in Devs \ {d} : con_rp'[e] = con_rp[e] /\ out'[e] = out[e] /\ off'[e] = off[e]
        BY <1>0, <1>1, <1>2, <2>2, Zenon DEF Types
      <3> QED
        BY <3>5, <3>6, Zenon
    <2> QED
      BY <1>1, <2>1, <2>2, Zenon
  <1>8. Ring' /\ (\A e \in CPUs : Writer(e)') /\ (\A e \in Devs : Device(e)')
    BY <1>0, <1>1, <1>3, <1>7, DataStep, Zenon DEF ring, Writing
  <1> QED
    BY <1>5, <1>6, <1>8, Zenon DEF ConInv

\* A device is used: what the ring has lost is lost to it
LEMMA UseStep ==
    ASSUME Sane, ConInv, NEW c \in CPUs, UseDevice(c)
    PROVE  ConInv'
  <1>0. Types /\ pc[c] = "device" /\ dev[c] \in Devs /\ Writer(c) /\ Size \in Nat
    BY Zenon DEF ConInv, UseDevice, Sane
  <1>1. /\ pc' = [pc EXCEPT ![c] = "flush"] /\ con_rp' = [con_rp EXCEPT ![dev[c]] = Clamped(dev[c])]
        /\ UNCHANGED <<console_lock, ring, dev, length, wrote, event, out, off>>
    BY Zenon DEF UseDevice, locks, where, Goto
  <1>2. PICK d \in Devs : d = dev[c]
    BY <1>0, Zenon
  <1>3. /\ con_rp[d] <= total /\ con_rp[d] \in Nat /\ total \in Nat /\ con_wp = total
    BY <1>0, <1>2, Behind, Zenon DEF Types
  <1>4. /\ Clamped(d) \in Nat /\ Clamped(d) <= total /\ total <= Clamped(d) + Size
        /\ con_rp[d] <= Clamped(d) /\ (Clamped(d) = con_rp[d] \/ Clamped(d) = total - Size)
    BY <1>0, <1>3 DEF Clamped
  <1>5. /\ pc'[c] = "flush" /\ con_rp'[d] = Clamped(d)
        /\ \A e \in CPUs \ {c} : pc'[e] = pc[e]
        /\ \A e \in Devs \ {d} : con_rp'[e] = con_rp[e]
        /\ con_rp' \in [Devs -> Nat]
    BY <1>0, <1>1, <1>2, <1>4, Zenon DEF Types
  <1>6. Types'
    BY <1>0, <1>1, <1>5, Zenon DEF Types, ring
  <1>7. \A e \in CPUs : Held(e)'
    BY <1>0, <1>1, WriterHeld, Zenon DEF Writing
  <1>8. Writer(c)'
    BY <1>0, <1>1, <1>2, <1>4, <1>5, Zenon DEF Writer, ring
  <1>9. Device(d)'
    <2>1. Device(d) /\ out[d] \in Seq(Nat)
      BY <1>0, Zenon DEF ConInv, Types
    <2>2. Extent(d)'
      BY <1>1, <1>4, <1>5, Zenon DEF Extent, ring
    <2>3. Ordered(out[d], con_rp'[d])
      <3>1. \A i \in DOMAIN out[d] : out[d][i] \in Nat
        BY <2>1
      <3> QED
        BY <1>3, <1>4, <1>5, <2>1, <3>1 DEF Device, Ordered
    <2>4. Covered(d)'
      <3> SUFFICES ASSUME NEW p \in 0..con_rp'[d] - 1
                   PROVE  p < off[d] \/ p < total - Size \/ Has(out[d], p)
        BY <1>1, Zenon DEF Covered, ring
      <3>1. CASE p < con_rp[d]
        BY <1>3, <1>4, <1>5, <2>1, <3>1 DEF Device, Covered
      <3>2. CASE ~(p < con_rp[d])
        BY <1>0, <1>3, <1>4, <1>5, <3>2
      <3> QED
        BY <3>1, <3>2, Zenon
    <2> QED
      BY <1>1, <2>2, <2>3, <2>4, Zenon DEF Device
  <1>10. Ring' /\ (\A e \in CPUs : Writer(e)') /\ (\A e \in Devs : Device(e)')
    <2>1. \A e \in Devs : Passed(c, e) => Passed(c, e)'
      BY <1>0, <1>1, <1>5, Zenon DEF Passed, Writing
    <2> QED
      BY <1>0, <1>1, <1>5, <1>8, <1>9, <2>1, DataStep, Zenon DEF ring, Writing
  <1> QED
    BY <1>6, <1>7, <1>10, Zenon DEF ConInv

\* Nothing is left of the ring for the device, or all of the text is given to it
LEMMA TurnStep ==
    ASSUME Sane, ConInv, NEW c \in CPUs, Flushed(c) \/ CurrentDone(c)
    PROVE  ConInv'
  <1>0. Types /\ Writer(c)
    BY Zenon DEF ConInv
  <1>1. CASE Flushed(c)
    <2>1. /\ pc[c] = "flush" /\ con_rp[dev[c]] >= con_wp /\ pc' = [pc EXCEPT ![c] = "current"]
          /\ UNCHANGED <<console_lock, ring, con_rp, dev, length, wrote, event, out, off>>
      BY <1>1, Zenon DEF Flushed, Goto, locks, where
    <2>2. dev[c] \in Devs /\ con_rp[dev[c]] = total /\ wrote[c] = 0
      BY <1>0, <2>1 DEF Writer, Types
    <2>3. Types'
      BY <1>0, <2>1, Zenon DEF Types, ring
    <2>4. \A e \in CPUs : Held(e)'
      BY <2>1, WriterHeld, Zenon DEF Writing
    <2>5. pc'[c] = "current" /\ \A e \in CPUs \ {c} : pc'[e] = pc[e]
      BY <1>0, <2>1, Zenon DEF Types
    <2>6. Writer(c)'
      BY <1>0, <2>1, <2>2, <2>5 DEF Writer, ring, Types
    <2>7. \A d \in Devs : Passed(c, d) => Passed(c, d)'
      BY <2>1, <2>5, Zenon DEF Passed, Writing
    <2>8. Ring' /\ (\A e \in CPUs : Writer(e)') /\ (\A d \in Devs : Device(d)')
      BY <2>1, <2>5, <2>6, <2>7, DataStep, Zenon DEF ring
    <2> QED
      BY <2>3, <2>4, <2>8, Zenon DEF ConInv
  <1>2. CASE CurrentDone(c)
    <2>1. /\ pc[c] = "current" /\ NextDevice(c)
          /\ UNCHANGED <<console_lock, ring, con_rp, length, event, out, off>>
      BY <1>2, Zenon DEF CurrentDone, locks
    <2>2. dev[c] \in Devs
      BY <1>0, <2>1, Zenon DEF Writer
    <2>3. /\ pc' = [pc EXCEPT ![c] = "device"]
          /\ dev' \in [CPUs -> Nat] /\ wrote' \in [CPUs -> Nat]
          /\ \A e \in CPUs \ {c} : pc'[e] = pc[e] /\ dev'[e] = dev[e] /\ wrote'[e] = wrote[e]
          /\ Writer(c)'
          /\ \A d \in Devs : Passed(c, d) => Passed(c, d)'
      BY <2>1, <2>2, NextMoves, Zenon DEF Writing
    <2>4. Types'
      BY <1>0, <2>1, <2>3, Zenon DEF Types, ring
    <2>5. \A e \in CPUs : Held(e)'
      BY <2>1, <2>3, WriterHeld, Zenon DEF Writing
    <2>6. Ring' /\ (\A e \in CPUs : Writer(e)') /\ (\A d \in Devs : Device(d)')
      BY <2>1, <2>3, DataStep, Zenon DEF ring
    <2> QED
      BY <2>4, <2>5, <2>6, Zenon DEF ConInv
  <1> QED
    BY <1>1, <1>2, Zenon

\* A device takes characters that follow its position
LEMMA GiveDevice ==
    ASSUME Sane, ConInv, NEW d \in Devs, NEW t \in Seq(Nat), Follows(t, con_rp[d]),
           total' = total, off'[d] = off[d], con_rp'[d] = con_rp[d] + Len(t), out'[d] = out[d] \o t, Extent(d)'
    PROVE  Device(d)' /\ out'[d] \in Seq(Nat)
  <1>1. out[d] \in Seq(Nat) /\ con_rp[d] \in Nat /\ Covered(d) /\ Ordered(out[d], con_rp[d]) /\ Len(t) \in Nat
    BY DEF ConInv, Types, Device
  <1>2. /\ out[d] \o t \in Seq(Nat) /\ Ordered(out[d] \o t, con_rp[d] + Len(t))
        /\ \A p : Has(out[d], p) => Has(out[d] \o t, p)
        /\ \A p \in Nat : con_rp[d] <= p /\ p < con_rp[d] + Len(t) => Has(out[d] \o t, p)
    BY <1>1, Extend, Zenon
  <1>3. Covered(d)'
    <2> SUFFICES ASSUME NEW p \in 0..con_rp'[d] - 1
                 PROVE  p < off'[d] \/ p < total' - Size \/ Has(out'[d], p)
      BY Zenon DEF Covered
    <2>1. CASE p < con_rp[d]
      <3>1. p \in 0..con_rp[d] - 1
        BY <1>1, <2>1
      <3> QED
        BY <1>1, <1>2, <3>1, Zenon DEF Covered
    <2>2. CASE ~(p < con_rp[d])
      <3>1. p \in Nat /\ con_rp[d] <= p /\ p < con_rp[d] + Len(t)
        BY <1>1, <2>2
      <3> QED
        BY <1>2, <3>1, Zenon
    <2> QED
      BY <2>1, <2>2, Zenon
  <1> QED
    BY <1>2, <1>3, Zenon DEF Device

\* The writer gives its device characters that follow the device's position
LEMMA GiveStep ==
    ASSUME Sane, ConInv, NEW c \in CPUs, NEW d \in Devs, NEW t \in Seq(Nat), NEW x \in Writing,
           pc[c] \in Writing, Follows(t, con_rp[d]),
           out' = [out EXCEPT ![d] = @ \o t], con_rp' = [con_rp EXCEPT ![d] = @ + Len(t)],
           UNCHANGED <<console_lock, ring, length, event, off>>,
           pc' = [pc EXCEPT ![c] = x], dev' \in [CPUs -> Nat], wrote' \in [CPUs -> Nat],
           \A e \in CPUs \ {c} : dev'[e] = dev[e] /\ wrote'[e] = wrote[e],
           Writer(c)', \A e \in Devs : Passed(c, e) => Passed(c, e)', Extent(d)'
    PROVE  ConInv'
  <1>0. Types /\ Len(t) \in Nat
    BY DEF ConInv
  <1>1. /\ out'[d] = out[d] \o t /\ con_rp'[d] = con_rp[d] + Len(t) /\ con_rp' \in [Devs -> Nat]
        /\ \A e \in Devs \ {d} : con_rp'[e] = con_rp[e] /\ out'[e] = out[e]
        /\ total' = total /\ con_buf' = con_buf /\ con_wp' = con_wp /\ off' = off
    <2>1. /\ con_rp \in [Devs -> Nat] /\ out \in [Devs -> Seq(Nat)]
          /\ total' = total /\ con_buf' = con_buf /\ con_wp' = con_wp /\ off' = off
      BY <1>0, Zenon DEF Types, ring
    <2>2. out'[d] = out[d] \o t /\ \A e \in Devs \ {d} : out'[e] = out[e]
      BY <2>1, Zenon
    <2>3. /\ con_rp'[d] = con_rp[d] + Len(t) /\ con_rp' \in [Devs -> Nat]
          /\ \A e \in Devs \ {d} : con_rp'[e] = con_rp[e]
      BY <1>0, <2>1
    <2> QED
      BY <2>1, <2>2, <2>3, Zenon
  <1>2. Device(d)' /\ out'[d] \in Seq(Nat)
    BY <1>1, GiveDevice, Zenon
  <1>3. out' \in [Devs -> Seq(Nat)]
    BY <1>0, <1>1, <1>2, Zenon DEF Types
  <1>4. pc'[c] = x /\ \A e \in CPUs \ {c} : pc'[e] = pc[e]
    BY <1>0, Zenon DEF Types
  <1>5. Types'
    <2>1. pc' \in [CPUs -> {"idle", "held", "lock", "device", "flush", "current", "event", "event_ready",
                            "event_end"}]
      BY <1>0, Zenon DEF Types, Writing
    <2> QED
      BY <1>0, <1>1, <1>3, <2>1, ZenonT(30) DEF Types
  <1>6. \A e \in CPUs : Held(e)'
    BY WriterHeld, Zenon
  <1>7. Ring' /\ (\A e \in CPUs : Writer(e)') /\ (\A e \in Devs : Device(e)')
    <2>1. \A e \in Devs : Device(e)' \/ (con_rp'[e] = con_rp[e] /\ out'[e] = out[e] /\ off'[e] = off[e])
      BY <1>1, <1>2, Zenon
    <2>2. \A e \in CPUs \ {c} : /\ pc'[e] = pc[e] /\ dev'[e] = dev[e]
                                /\ length'[e] = length[e] /\ wrote'[e] = wrote[e]
      BY <1>4, Zenon
    <2>3. \A e \in Devs : Passed(c, e) => Passed(c, e)' /\ length'[c] = length[c]
      BY Zenon
    <2> QED
      BY <1>1, <2>1, <2>2, <2>3, DataStep, Zenon
  <1> QED
    BY <1>5, <1>6, <1>7, Zenon DEF ConInv

\* The device takes a part of the ring: the ring has there what the device has not yet output
LEMMA FlushStep ==
    ASSUME Sane, ConInv, NEW c \in CPUs, NEW n, Flush(c, n)
    PROVE  ConInv'
  <1>0. /\ Types /\ Writer(c) /\ pc[c] = "flush" /\ con_rp[dev[c]] < con_wp /\ Size \in Nat \ {0}
        /\ D \in Nat
    BY Zenon DEF ConInv, Flush, Sane
  <1>1. PICK d \in Devs : d = dev[c]
    BY <1>0, Zenon DEF Writer
  <1>2. PICK a \in Nat : a = con_rp[d]
    BY <1>0, Zenon DEF Types
  <1>3. a < total /\ total <= a + Size /\ total \in Nat
    BY <1>0, <1>1, <1>2, Zenon DEF Writer, Types
  <1>4. PICK m \in 0..Size - 1 : m = a % Size
    BY <1>0
  <1>5. /\ n \in Nat /\ n <= total - a /\ n <= Size - m
        /\ out' = [out EXCEPT ![d] = @ \o [i \in 1..n |-> con_buf[m + i - 1]]]
        /\ con_rp' = [con_rp EXCEPT ![d] = @ + n]
        /\ IF n = 0 THEN NextDevice(c) ELSE UNCHANGED <<pc, dev, wrote>>
        /\ UNCHANGED <<console_lock, ring, length, event, off>>
    <2>1. n \in 0..Block(d)
      BY <1>1, Zenon DEF Flush
    <2>2. Block(d) = IF total - a < Size - m THEN total - a ELSE Size - m
      BY <1>0, <1>2, <1>4, Zenon DEF Block, Types
    <2>3. n \in Nat /\ n <= total - a /\ n <= Size - m
      BY <1>0, <1>3, <2>1, <2>2
    <2>4. Output(d, [i \in 1..n |-> con_buf[(con_rp[d] % Size) + i - 1]])
      BY <1>1, Zenon DEF Flush
    <2>5. /\ con_rp' = [con_rp EXCEPT ![d] = @ + n]
          /\ IF n = 0 THEN NextDevice(c) ELSE UNCHANGED <<pc, dev, wrote>>
          /\ UNCHANGED <<console_lock, ring, length, event, off>>
      BY <1>1, Zenon DEF Flush, locks
    <2> QED
      BY <1>2, <1>4, <2>3, <2>4, <2>5, Zenon DEF Output
  <1>6. ASSUME NEW i \in 1..n
        PROVE  con_buf[m + i - 1] = a + i - 1
    <2>1. PICK k \in Nat : k = i - 1 /\ k < n
      BY <1>5
    <2>2. (a + k) % Size = m + k
      <3>1. (a % Size) + k < Size
        BY <1>0, <1>4, <1>5, <2>1
      <3> QED
        BY <1>0, <1>4, <3>1, ModAdd, Zenon
    <2>3. a + k \in 0..total - 1 /\ total <= (a + k) + Size
      BY <1>0, <1>3, <1>5, <2>1
    <2>4. con_buf[(a + k) % Size] = a + k
      BY <2>3, Zenon DEF ConInv, Ring
    <2>5. m + i - 1 = m + k /\ a + i - 1 = a + k
      BY <2>1, Zenon
    <2> QED
      BY <2>2, <2>4, <2>5, Zenon
  <1>7. PICK t \in Seq(Nat) : t = [i \in 1..n |-> con_buf[m + i - 1]] /\ Len(t) = n
    <2>1. ASSUME NEW i \in 1..n
          PROVE  con_buf[m + i - 1] \in Nat
      <3>1. a + i - 1 \in Nat
        OBVIOUS
      <3> QED
        BY <1>6, <3>1, Zenon
    <2>2. PICK t : t = [i \in 1..n |-> con_buf[m + i - 1]]
      BY Zenon
    <2>3. t \in [1..n -> Nat]
      BY <2>1, <2>2, Zenon
    <2>a. n \in Nat
      BY <1>5, Zenon
    <2>4. t \in Seq(Nat) /\ Len(t) = n
      BY <2>a, <2>3, Listed, Zenon
    <2> QED
      BY <2>2, <2>4, Zenon
  <1>8. Follows(t, con_rp[d])
    BY <1>2, <1>6, <1>7, Zenon DEF Follows
  <1>9. con_rp'[d] = a + n /\ total' = total
    BY <1>0, <1>2, <1>5, Zenon DEF Types, ring
  <1>10. Extent(d)'
    BY <1>3, <1>5, <1>9 DEF Extent
  <1>11. CASE n = 0
    <2>1. /\ pc' = [pc EXCEPT ![c] = "device"] /\ Writer(c)'
          /\ dev' \in [CPUs -> Nat] /\ wrote' \in [CPUs -> Nat]
          /\ \A e \in CPUs \ {c} : dev'[e] = dev[e] /\ wrote'[e] = wrote[e]
          /\ \A e \in Devs : Passed(c, e) => Passed(c, e)'
      BY <1>0, <1>1, <1>5, <1>11, NextMoves, Zenon DEF Writing
    <2> QED
      BY <1>0, <1>5, <1>7, <1>8, <1>10, <2>1, GiveStep, Zenon DEF Writing
  <1>12. CASE n # 0
    <2>1. UNCHANGED <<pc, dev, wrote>> /\ pc' = [pc EXCEPT ![c] = "flush"]
      BY <1>0, <1>5, <1>12, Zenon DEF Types
    <2>2. Writer(c)'
      <3>1. /\ pc'[c] = "flush" /\ dev'[c] = d /\ wrote'[c] = 0 /\ length'[c] \in Nat
            /\ total <= (a + n) + Size /\ a + n <= total
        BY <1>0, <1>1, <1>3, <1>5, <2>1 DEF Writer, Types
      <3> QED
        BY <1>9, <3>1 DEF Writer
    <2>3. \A e \in Devs : Passed(c, e) => Passed(c, e)'
      BY <2>1, Zenon DEF Passed
    <2>4. dev' \in [CPUs -> Nat] /\ wrote' \in [CPUs -> Nat]
      BY <1>0, <2>1, Zenon DEF Types
    <2> QED
      BY <1>0, <1>5, <1>7, <1>8, <1>10, <2>1, <2>2, <2>3, <2>4, GiveStep, Zenon DEF Writing
  <1> QED
    BY <1>11, <1>12, Zenon

\* The device takes a part of the text being printed
LEMMA CurrentStep ==
    ASSUME Sane, ConInv, NEW c \in CPUs, NEW n, Current(c, n)
    PROVE  ConInv'
  <1>0. Types /\ Writer(c) /\ pc[c] = "current" /\ D \in Nat
    BY Zenon DEF ConInv, Current, Sane
  <1>1. PICK d \in Devs : d = dev[c]
    BY <1>0, Zenon DEF Writer
  <1>2. PICK a \in Nat, w \in Nat, l \in Nat : a = con_rp[d] /\ w = wrote[c] /\ l = length[c]
    BY <1>0, Zenon DEF Types
  <1>3. a = total + w /\ w < l /\ total \in Nat
    BY <1>0, <1>1, <1>2, Zenon DEF Writer, Types, Current
  <1>4. /\ n \in Nat /\ n <= l - w
        /\ out' = [out EXCEPT ![d] = @ \o [i \in 1..n |-> total + w + i - 1]]
        /\ con_rp' = [con_rp EXCEPT ![d] = @ + n]
        /\ IF n = 0 THEN NextDevice(c) ELSE wrote' = [wrote EXCEPT ![c] = @ + n] /\ UNCHANGED <<pc, dev>>
        /\ UNCHANGED <<console_lock, ring, length, event, off>>
    <2>1. n \in 0..l - w
      BY <1>2, Zenon DEF Current
    <2>2. n \in Nat /\ n <= l - w
      BY <2>1
    <2>3. Output(d, [i \in 1..n |-> total + wrote[c] + i - 1])
      BY <1>1, Zenon DEF Current
    <2>4. /\ con_rp' = [con_rp EXCEPT ![d] = @ + n]
          /\ IF n = 0 THEN NextDevice(c) ELSE wrote' = [wrote EXCEPT ![c] = @ + n] /\ UNCHANGED <<pc, dev>>
          /\ UNCHANGED <<console_lock, ring, length, event, off>>
      BY <1>1, Zenon DEF Current, Taken, locks
    <2> QED
      BY <1>2, <2>2, <2>3, <2>4, Zenon DEF Output
  <1>5. PICK t \in Seq(Nat) : t = [i \in 1..n |-> total + w + i - 1] /\ Len(t) = n
    <2>1. \A i \in 1..n : total + w + i - 1 \in Nat
      BY <1>3, <1>4
    <2>2. PICK t : t = [i \in 1..n |-> total + w + i - 1]
      BY Zenon
    <2>3. t \in [1..n -> Nat]
      BY <2>1, <2>2, Zenon
    <2>4. t \in Seq(Nat) /\ Len(t) = n
      BY <1>4, <2>3, Listed, Zenon
    <2> QED
      BY <2>2, <2>4, Zenon
  <1>6. Follows(t, con_rp[d])
    BY <1>2, <1>3, <1>5, Zenon DEF Follows
  <1>7. con_rp'[d] = a + n /\ total' = total /\ length' = length
    BY <1>0, <1>2, <1>4, Zenon DEF Types, ring
  <1>8. con_rp'[d] <= total' + length'[c]
    <2>1. n \in Nat /\ n <= l - w
      BY <1>4, Zenon
    <2>2. a + n <= total + l
      BY <1>3, <2>1
    <2> QED
      BY <1>2, <1>7, <2>2, Zenon
  <1>9. CASE n = 0
    <2>1. /\ pc' = [pc EXCEPT ![c] = "device"] /\ Writer(c)'
          /\ dev' \in [CPUs -> Nat] /\ wrote' \in [CPUs -> Nat]
          /\ \A e \in CPUs \ {c} : dev'[e] = dev[e] /\ wrote'[e] = wrote[e]
          /\ \A e \in Devs : Passed(c, e) => Passed(c, e)'
          /\ \A e \in Devs : e = dev[c] => Passed(c, e)'
      BY <1>0, <1>1, <1>4, <1>9, NextMoves, Zenon DEF Writing
    <2>2. Extent(d)'
      BY <1>1, <1>8, <2>1, Zenon DEF Extent
    <2> QED
      BY <1>0, <1>4, <1>5, <1>6, <2>1, <2>2, GiveStep, Zenon DEF Writing
  <1>10. CASE n # 0
    <2>1. /\ UNCHANGED <<pc, dev>> /\ pc' = [pc EXCEPT ![c] = "current"]
          /\ wrote' = [wrote EXCEPT ![c] = @ + n] /\ wrote \in [CPUs -> Nat]
      BY <1>0, <1>4, <1>10, Zenon DEF Types
    <2>2. wrote'[c] = w + n /\ wrote' \in [CPUs -> Nat] /\ \A e \in CPUs \ {c} : wrote'[e] = wrote[e]
      <3>1. w + n \in Nat
        BY <1>2, <1>4, SMTT(30)
      <3> QED
        BY <1>2, <2>1, <3>1, Zenon
    <2>3. Writer(c)'
      <3>0. pc'[c] = "current" /\ dev'[c] = d /\ length'[c] = l /\ n \in Nat /\ n <= l - w
        BY <1>0, <1>1, <1>2, <1>4, <2>1, Zenon
      <3>1. w + n <= l /\ a + n = total + (w + n)
        BY <1>3, <3>0
      <3> QED
        BY <1>7, <2>2, <3>0, <3>1, Zenon DEF Writer
    <2>4. \A e \in Devs : Passed(c, e) => Passed(c, e)'
      BY <2>1, Zenon DEF Passed
    <2>5. Passed(c, d)'
      BY <1>0, <1>1, <2>1, Zenon DEF Passed, Writing
    <2>6. Extent(d)'
      BY <1>8, <2>5, Zenon DEF Extent
    <2>7. dev' \in [CPUs -> Nat]
      BY <1>0, <2>1, Zenon DEF Types
    <2> QED
      BY <1>0, <1>4, <1>5, <1>6, <2>1, <2>2, <2>3, <2>4, <2>6, <2>7, GiveStep, Zenon DEF Writing
  <1> QED
    BY <1>9, <1>10, Zenon

\* The text that goes into the ring: the ring then has the last Size characters again
LEMMA StoreRing ==
    ASSUME Sane, Ring, NEW b \in [0..Size - 1 -> Int], con_buf = b, total \in Nat, NEW n \in Nat,
           NEW k \in Nat, NEW from \in Nat, k = IF n > Size THEN Size ELSE n, from = total + n - k,
           con_buf' = [i \in 0..Size - 1 |->
                         IF \E j \in 0..k - 1 : (from + j) % Size = i
                           THEN from + (CHOOSE j \in 0..k - 1 : (from + j) % Size = i)
                           ELSE con_buf[i]],
           total' = total + n
    PROVE  Ring' /\ con_buf' \in [0..Size - 1 -> Int]
  <1>0. Size \in Nat \ {0} /\ k <= Size /\ k <= n /\ from + k = total + n /\ total <= from
    BY DEF Sane
  <1>1. ASSUME NEW p \in Nat, p < total + n, total + n <= p + Size
        PROVE  con_buf'[p % Size] = p
    <2>0. PICK i \in 0..Size - 1 : i = p % Size
      BY <1>0, ModDef, Zenon
    <2>1. CASE p >= from
      <3>1. PICK j0 \in 0..k - 1 : p = from + j0
        <4>1. p - from \in 0..k - 1 /\ p = from + (p - from)
          BY <1>0, <1>1, <2>1
        <4> QED
          BY <4>1, Zenon
      <3>2. (from + j0) % Size = i
        BY <2>0, <3>1, Zenon
      <3>3. PICK j : j = CHOOSE z \in 0..k - 1 : (from + z) % Size = i
        BY Zenon
      <3>4. j \in 0..k - 1 /\ (from + j) % Size = i
        BY <3>2, <3>3, Zenon
      <3>5. from + j = p
        <4>1. from + j \in Nat /\ p \in Nat /\ j \in Int /\ j0 \in Int
          BY <1>0, <3>4
        <4>2. CASE from + j < p
          <5>1. p < (from + j) + Size
            BY <1>0, <3>1, <3>4
          <5> QED
            BY <1>0, <2>0, <3>4, <4>1, <4>2, <5>1, ModInj, ZenonT(30)
        <4>3. CASE p < from + j
          <5>1. from + j < p + Size
            BY <1>0, <3>1, <3>4
          <5> QED
            BY <1>0, <2>0, <3>4, <4>1, <4>3, <5>1, ModInj, Zenon
        <4> QED
          BY <4>1, <4>2, <4>3
      <3>6. con_buf'[i] = from + j
        BY <3>2, <3>3, Zenon
      <3> QED
        BY <2>0, <3>5, <3>6, Zenon
    <2>2. CASE p < from
      <3>1. k = n /\ from = total /\ p < total /\ n <= Size /\ total <= p + Size
        BY <1>0, <1>1, <2>2
      <3>2. ASSUME NEW j \in 0..k - 1
            PROVE  (from + j) % Size # i
        <4>1. from + j \in Nat /\ p < from + j /\ from + j < p + Size
          BY <1>0, <1>1, <3>1
        <4> QED
          BY <1>0, <2>0, <4>1, ModInj, Zenon
      <3>3. con_buf'[i] = con_buf[i]
        BY <3>2, Zenon
      <3>4. con_buf[p % Size] = p
        BY <1>1, <3>1 DEF Ring
      <3> QED
        BY <2>0, <3>3, <3>4, Zenon
    <2> QED
      BY <1>0, <1>1, <2>1, <2>2
  <1>2. Ring'
    <2> SUFFICES ASSUME NEW p \in 0..total' - 1, total' <= p + Size
                 PROVE  con_buf'[p % Size] = p
      BY Zenon DEF Ring
    <2>1. p \in Nat /\ p < total + n /\ total + n <= p + Size
      OBVIOUS
    <2> QED
      BY <1>1, <2>1, Zenon
  <1>3. con_buf' \in [0..Size - 1 -> Int]
    <2>1. ASSUME NEW i \in 0..Size - 1
          PROVE  con_buf'[i] \in Int
      <3>1. CASE \E j \in 0..k - 1 : (from + j) % Size = i
        <4>1. PICK j : j = CHOOSE z \in 0..k - 1 : (from + z) % Size = i
          BY Zenon
        <4>2. j \in 0..k - 1
          BY <3>1, <4>1, Zenon
        <4>3. con_buf'[i] = from + j
          BY <3>1, <4>1, Zenon
        <4>4. from + j \in Int
          BY <4>2
        <4> QED
          BY <4>3, <4>4, Zenon
      <3>2. CASE ~\E j \in 0..k - 1 : (from + j) % Size = i
        BY <3>2, Zenon
      <3> QED
        BY <3>1, <3>2, Zenon
    <2> QED
      BY <2>1, Zenon
  <1> QED
    BY <1>2, <1>3, Zenon

\* The text goes into the ring, and the writer releases the lock
LEMMA StoreStep ==
    ASSUME Sane, ConInv, NEW c \in CPUs, Store(c)
    PROVE  ConInv'
  <1>0. /\ Types /\ Ring /\ Writer(c) /\ (\A e \in CPUs : Held(e)) /\ pc[c] = "device" /\ dev[c] \notin Devs
        /\ Size \in Nat \ {0} /\ D \in Nat
    BY Zenon DEF ConInv, Store, Sane
  <1>1. PICK n \in Nat : n = length[c]
    BY <1>0, Zenon DEF Types
  <1>2. PICK k \in Nat : k = IF n > Size THEN Size ELSE n
    BY <1>0, Zenon
  <1>3. PICK from \in Nat : from = total + n - k
    <2>1. total + n - k \in Nat
      BY <1>0, <1>2 DEF Types
    <2> QED
      BY <2>1, Zenon
  <1>4. con_wp = total /\ total \in Nat /\ con_wp + n - k = from /\ total + Kept(n) = from
    <2>1. con_wp = total /\ total \in Nat
      BY <1>0, Zenon DEF Types
    <2> QED
      BY <1>0, <1>2, <1>3, <2>1 DEF Kept
  <1>5. PICK x \in {"idle", "held", "event_end"} :
           /\ pc' = [pc EXCEPT ![c] = x]
           /\ x = "event_end" <=> event[c] # 0
    BY Zenon DEF Store, Goto, Rest
  <1>6. /\ con_buf' = [i \in 0..Size - 1 |->
                         IF \E j \in 0..k - 1 : (from + j) % Size = i
                           THEN from + (CHOOSE j \in 0..k - 1 : (from + j) % Size = i)
                           ELSE con_buf[i]]
        /\ con_wp' = con_wp + n /\ total' = total + n
        /\ console_lock' = Unlocks(console_lock)
        /\ dev' = [dev EXCEPT ![c] = 0] /\ length' = [length EXCEPT ![c] = 0]
        /\ UNCHANGED <<con_rp, wrote, event, out, off>>
    <2>1. /\ con_buf' = [i \in 0..Size - 1 |->
                         IF \E j \in 0..k - 1 : (con_wp + n - k + j) % Size = i
                           THEN total + Kept(n) + (CHOOSE j \in 0..k - 1 : (con_wp + n - k + j) % Size = i)
                           ELSE con_buf[i]]
          /\ con_wp' = con_wp + n /\ total' = total + n
      BY <1>1, <1>2 DEF Store
    <2>2. /\ console_lock' = Unlocks(console_lock)
          /\ dev' = [dev EXCEPT ![c] = 0] /\ length' = [length EXCEPT ![c] = 0]
          /\ UNCHANGED <<con_rp, wrote, event, out, off>>
      BY Zenon DEF Store
    <2> QED
      BY <1>4, <2>1, <2>2, Zenon
  <1>7. Ring' /\ con_buf' \in [0..Size - 1 -> Int]
    <2>1. con_buf \in [0..Size - 1 -> Int]
      BY <1>0, Zenon DEF Types
    <2>2. total' = total + n
      BY <1>6, Zenon
    <2> QED
      BY <1>0, <1>2, <1>3, <1>4, <1>6, <2>1, <2>2, StoreRing, Zenon
  <1>8. /\ pc'[c] = x /\ dev'[c] = 0 /\ length'[c] = 0 /\ event' = event
        /\ \A e \in CPUs \ {c} : pc'[e] = pc[e] /\ dev'[e] = dev[e] /\ length'[e] = length[e]
    BY <1>0, <1>5, <1>6, ZenonT(30) DEF Types
  <1>9. Depth(c) > 0 /\ Depth(c) \in Nat /\ Depth(c)' = Depth(c) - 1
    <2>1. DepthAt("device", event[c]) = DepthAt(x, event[c]) + 1 /\ DepthAt(x, event[c]) \in Nat
      BY <1>5 DEF DepthAt, Writing
    <2> QED
      BY <1>0, <1>8, <2>1 DEF Depth
  <1>10. Types'
    <2>1. console_lock' \in [owner : CPUs \cup {Nobody}, count : Nat]
      <3>1. console_lock \in [owner : CPUs \cup {Nobody}, count : Nat] /\ console_lock.count = Depth(c)
        BY <1>0, <1>9, Zenon DEF Types, Held
      <3>2. CASE Depth(c) = 1
        BY <1>6, <3>1, <3>2, Zenon DEF Unlocks, Free
      <3>3. CASE Depth(c) # 1
        BY <1>6, <1>9, <3>1, <3>3 DEF Unlocks
      <3> QED
        BY <3>2, <3>3, Zenon
    <2>2. total' \in Nat /\ con_wp' = total'
      BY <1>4, <1>6
    <2>3. /\ length' \in [CPUs -> Nat] /\ dev' \in [CPUs -> Nat]
          /\ pc' \in [CPUs -> {"idle", "held", "lock", "device", "flush", "current", "event", "event_ready",
                               "event_end"}]
      BY <1>0, <1>5, <1>6, Zenon DEF Types
    <2> QED
      BY <1>0, <1>6, <1>7, <2>1, <2>2, <2>3, Zenon DEF Types
  <1>11. \A e \in CPUs : Held(e)'
    BY <1>0, <1>5, <1>6, <1>8, <1>9, HeldStep, ZenonT(30)
  <1>12. ASSUME NEW e \in CPUs
         PROVE  Writer(e)'
    <2>1. CASE e = c
      BY <1>0, <1>6, <1>8, <2>1 DEF Writer
    <2>2. CASE e # c
      <3>1. pc[e] \notin Writing
        BY <1>0, <2>2, OneWriter, Zenon DEF Writing
      <3>2. Writer(e)
        BY Zenon DEF ConInv
      <3> QED
        BY <1>6, <1>8, <2>2, <3>1, <3>2, Zenon DEF Writer, Writing
    <2> QED
      BY <2>1, <2>2, Zenon
  <1>13. ASSUME NEW d \in Devs
         PROVE  Device(d)'
    <2>1. Device(d) /\ con_rp[d] \in Nat
      BY <1>0, Zenon DEF ConInv, Types
    <2>2. con_rp[d] <= total + n
      <3>1. CASE con_rp[d] <= total
        BY <1>4, <2>1, <3>1
      <3>2. ASSUME NEW e \in CPUs, Passed(e, d), con_rp[d] <= total + length[e]
            PROVE  con_rp[d] <= total + n
        <4>1. e = c
          BY <1>0, <3>2, OneWriter, Zenon DEF Passed, Writing
        <4> QED
          BY <1>1, <3>2, <4>1, Zenon
      <3> QED
        BY <2>1, <3>1, <3>2, Zenon DEF Device, Extent
    <2>3. Extent(d)'
      BY <1>6, <2>2, Zenon DEF Extent
    <2>4. Covered(d)'
      <3> SUFFICES ASSUME NEW p \in 0..con_rp'[d] - 1
                   PROVE  p < off'[d] \/ p < total' - Size \/ Has(out'[d], p)
        BY Zenon DEF Covered
      <3>0. con_rp' = con_rp /\ off' = off /\ out' = out /\ total' = total + n
        BY <1>6, Zenon
      <3>1. p < off[d] \/ p < total - Size \/ Has(out[d], p)
        BY <2>1, <3>0, Zenon DEF Device, Covered
      <3>2. p < total - Size => p < total' - Size
        BY <1>0, <1>4, <3>0
      <3>3. off'[d] = off[d] /\ (Has(out[d], p) => Has(out'[d], p))
        BY <3>0, Zenon
      <3> QED
        BY <3>1, <3>2, <3>3, Zenon
    <2> QED
      BY <1>6, <2>1, <2>3, <2>4, Zenon DEF Device
  <1> QED
    BY <1>7, <1>10, <1>11, <1>12, <1>13, Zenon DEF ConInv

\* A step that changes nothing the invariant is about
LEMMA SameStep ==
    ASSUME ConInv, UNCHANGED <<console_lock, ring, con_rp, pc, dev, length, wrote, event, out, off>>
    PROVE  ConInv'
  <1>1. Types' /\ Ring'
    BY Zenon DEF ConInv, Types, Ring, ring
  <1>2. \A c \in CPUs : Held(c)' /\ Writer(c)'
    BY Zenon DEF ConInv, Held, Depth, Writer, ring
  <1>3. \A d \in Devs : Device(d)'
    <2>1. \A d \in Devs : Extent(d)'
      BY Zenon DEF ConInv, Device, Extent, Passed, ring
    <2>2. \A d \in Devs : Covered(d)'
      BY Zenon DEF ConInv, Device, Covered, ring
    <2> QED
      BY <2>1, <2>2, Zenon DEF ConInv, Device
  <1> QED
    BY <1>1, <1>2, <1>3, Zenon DEF ConInv

\* iodev_console_rewind, while nobody writes: the device starts over at the oldest character there is
LEMMA RewindStep ==
    ASSUME Sane, ConInv, NEW d \in Devs, iodev_console_rewind(d)
    PROVE  ConInv'
  <1>0. Types /\ Size \in Nat \ {0} /\ \A c \in CPUs : pc[c] \notin Writing
    BY NoWriter, Zenon DEF ConInv, Sane, iodev_console_rewind
  <1>1. /\ con_rp' = [con_rp EXCEPT ![d] = Retained] /\ out' = [out EXCEPT ![d] = <<>>]
        /\ off' = [off EXCEPT ![d] = 0]
        /\ UNCHANGED <<console_lock, con_buf, con_wp, total, pc, dev, length, wrote, event>>
    BY Zenon DEF iodev_console_rewind, locks, ring, where
  <1>2. Retained \in Nat /\ Retained <= total /\ (Retained = 0 \/ Retained = total - Size) /\ total \in Nat
    BY <1>0 DEF Retained, Types
  <1>3. Types'
    <2>1. con_rp' \in [Devs -> Nat] /\ off' \in [Devs -> Nat]
      BY <1>0, <1>1, <1>2, Zenon DEF Types
    <2>2. out' \in [Devs -> Seq(Nat)]
      BY <1>0, <1>1 DEF Types
    <2> QED
      BY <1>0, <1>1, <2>1, <2>2, Zenon DEF Types
  <1>4. Ring'
    BY <1>1, Zenon DEF ConInv, Ring
  <1>5. \A c \in CPUs : Held(c)'
    BY <1>1, Zenon DEF ConInv, Held, Depth
  <1>6. \A c \in CPUs : Writer(c)'
    BY <1>0, <1>1, Zenon DEF ConInv, Writer, Writing
  <1>7. ASSUME NEW e \in Devs
        PROVE  Device(e)'
    <2>1. CASE e = d
      <3>1. con_rp'[e] = Retained /\ out'[e] = <<>> /\ off'[e] = 0 /\ total' = total
        BY <1>0, <1>1, <2>1, Zenon DEF Types
      <3>2. Extent(e)'
        BY <1>2, <3>1, Zenon DEF Extent
      <3>3. Ordered(<<>>, Retained)
        BY DEF Ordered
      <3>4. Covered(e)'
        <4> SUFFICES ASSUME NEW p \in 0..con_rp'[e] - 1
                     PROVE  p < off'[e] \/ p < total' - Size \/ Has(out'[e], p)
          BY Zenon DEF Covered
        <4> QED
          BY <1>0, <1>2, <3>1
      <3> QED
        BY <3>1, <3>2, <3>3, <3>4, Zenon DEF Device
    <2>2. CASE e # d
      <3>1. con_rp'[e] = con_rp[e] /\ out'[e] = out[e] /\ off'[e] = off[e] /\ total' = total
        BY <1>0, <1>1, <2>2, Zenon DEF Types
      <3>2. Device(e)
        BY Zenon DEF ConInv
      <3>3. Extent(e)'
        BY <1>1, <3>1, <3>2, Zenon DEF Device, Extent, Passed
      <3>4. Covered(e)'
        BY <3>1, <3>2, Zenon DEF Device, Covered
      <3> QED
        BY <3>1, <3>2, <3>3, <3>4, Zenon DEF Device
    <2> QED
      BY <2>1, <2>2, Zenon
  <1> QED
    BY <1>3, <1>4, <1>5, <1>6, <1>7, Zenon DEF ConInv

\* Nothing is printed yet
LEMMA ConInit ==
    ASSUME Sane, Init
    PROVE  ConInv
  <1>0. Size \in Nat \ {0} /\ Nobody \notin CPUs
    BY Zenon DEF Sane
  <1>1. Types
    <2>1. /\ total = 0 /\ con_wp = 0 /\ con_rp \in [Devs -> Nat] /\ off \in [Devs -> Nat]
          /\ length \in [CPUs -> Nat] /\ wrote \in [CPUs -> Nat] /\ dev \in [CPUs -> Nat]
          /\ event \in [CPUs -> Nat]
      BY Zenon DEF Init
    <2>2. con_buf \in [0..Size - 1 -> Int]
      BY DEF Init
    <2>3. out \in [Devs -> Seq(Nat)]
      BY DEF Init
    <2>4. pc \in [CPUs -> {"idle", "held", "lock", "device", "flush", "current", "event", "event_ready",
                            "event_end"}]
      BY Zenon DEF Init
    <2>5. console_lock \in [owner : CPUs \cup {Nobody}, count : Nat]
      BY Zenon DEF Init, Free
    <2> QED
      BY <2>1, <2>2, <2>3, <2>4, <2>5, Zenon DEF Types
  <1>2. Ring
    BY DEF Init, Ring
  <1>3. \A c \in CPUs : Held(c)
    BY <1>0 DEF Init, Held, Depth, DepthAt, Writing, Free
  <1>4. \A c \in CPUs : Writer(c)
    BY DEF Init, Writer
  <1>5. \A d \in Devs : Device(d)
    BY DEF Init, Device, Extent, Ordered, Covered
  <1> QED
    BY <1>1, <1>2, <1>3, <1>4, <1>5, Zenon DEF ConInv

\* Every step keeps the invariant
LEMMA ConStep ==
    ASSUME Sane, ConInv, [Next]_vars
    PROVE  ConInv'
  <1>1. ASSUME NEW c \in CPUs,
               \/ \E n \in Lengths : Call(c, n)
               \/ \E d \in Devs : EventCall(c, d) \/ Hold(c, d)
               \/ Event(c) \/ EventReady(c) \/ EventEnd(c) \/ Release(c)
        PROVE  ConInv'
    BY <1>1, AsideSteps, Zenon
  <1>2. ASSUME NEW c \in CPUs,
               Lock(c) \/ SkipDevice(c) \/ UseDevice(c) \/ Flushed(c) \/ CurrentDone(c) \/ Store(c)
        PROVE  ConInv'
    BY <1>2, LockStep, SkipStep, UseStep, TurnStep, StoreStep, Zenon
  <1>3. ASSUME NEW c \in CPUs, NEW n \in 0..MaxChars, Flush(c, n) \/ Current(c, n)
        PROVE  ConInv'
    BY <1>3, FlushStep, CurrentStep, Zenon
  <1>4. ASSUME NEW d \in Toggled, SetUsage(d) \/ Register(d)
        PROVE  ConInv'
    BY <1>4, SameStep, Zenon DEF SetUsage, Register, locks, where
  <1>5. ASSUME NEW d \in Toggled, iodev_console_rewind(d)
        PROVE  ConInv'
    BY <1>5, RewindStep, Zenon DEF Sane
  <1>6. CASE UNCHANGED vars
    BY <1>6, SameStep, Zenon DEF vars, locks, where
  <1> QED
    BY <1>1, <1>2, <1>3, <1>4, <1>5, <1>6, Zenon DEF Next

\* What the invariant says of the devices: what they have output, and what is still to come
LEMMA ConSound ==
    ASSUME Sane, ConInv
    PROVE  ConsoleSound
  <1>1. InOrder
    <2> SUFFICES ASSUME NEW d \in Devs, NEW i \in 1..MaxChars, NEW j \in 1..MaxChars, i < j, j \in DOMAIN out[d]
                 PROVE  out[d][i] < out[d][j]
      BY Zenon DEF InOrder
    <2>1. out[d] \in Seq(Nat) /\ Ordered(out[d], con_rp[d])
      BY Zenon DEF ConInv, Types, Device
    <2>2. i \in DOMAIN out[d]
      BY <2>1
    <2> QED
      BY <2>1, <2>2, Zenon DEF Ordered
  <1>2. NothingLost
    <2> SUFFICES ASSUME NEW d \in Devs, NEW p \in 0..total - 1
                 PROVE  \/ \E i \in DOMAIN out[d] : out[d][i] = p
                        \/ p < off[d] \/ p < total - Size
                        \/ con_rp[d] <= p /\ con_buf[p % Size] = p
      BY Zenon DEF NothingLost
    <2>1. con_rp[d] \in Nat /\ total \in Nat /\ Size \in Nat /\ Covered(d) /\ Ring
      BY Zenon DEF ConInv, Types, Device, Sane
    <2>2. CASE p < con_rp[d]
      <3>1. p \in 0..con_rp[d] - 1
        BY <2>1, <2>2
      <3> QED
        BY <2>1, <3>1, Zenon DEF Covered, Has
    <2>3. CASE ~(p < con_rp[d]) /\ ~(p < total - Size)
      <3>1. con_rp[d] <= p /\ total <= p + Size
        BY <2>1, <2>3
      <3> QED
        BY <2>1, <3>1, Zenon DEF Ring
    <2> QED
      BY <2>2, <2>3, Zenon
  <1> QED
    BY <1>1, <1>2, Zenon DEF ConsoleSound

\* For any number of CPUs and devices, any ring and texts of any length, whoever prints, uses the
\* devices, changes their use or rewinds them in whatever order: every device outputs what was printed
\* in its order and nothing twice, and what it has not output is in the ring and before it
\* (iodev_console_write, iodev_handle_events, iodev_console_rewind)
THEOREM ConsoleTheorem ==
    ASSUME Sane
    PROVE  Spec => []ConsoleSound
  <1>1. Init => ConInv
    BY ConInit, Zenon
  <1>2. ConInv /\ [Next]_vars => ConInv'
    BY ConStep, Zenon
  <1>3. ConInv => ConsoleSound
    BY ConSound, Zenon
  <1> QED
    BY <1>1, <1>2, <1>3, PTL DEF Spec

=============================================================================
