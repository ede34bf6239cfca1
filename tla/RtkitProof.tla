----------------------------- MODULE RtkitProof -----------------------------
(***************************************************************************)
(* Proofs about Rtkit, for any set of devices, any depth of the mailboxes  *)
(* and any number of messages that nobody expects.                         *)
(***************************************************************************)
EXTENDS Rtkit, TLAPS

-----------------------------------------------------------------------------
(* Mailboxes                                                               *)

Mailbox(q) == \E S : q \in Seq(S)

Content(q) == {q[i] : i \in 1..Len(q)}

\* A message is sent
LEMMA Sent ==
    ASSUME NEW q, Mailbox(q), NEW m
    PROVE  /\ Mailbox(Append(q, m))
           /\ Len(q) \in Nat /\ Len(Append(q, m)) = Len(q) + 1
           /\ \A i \in 1..Len(q) : Append(q, m)[i] = q[i]
           /\ Append(q, m)[Len(q) + 1] = m
           /\ Content(Append(q, m)) = Content(q) \cup {m}
  <1>1. PICK S : q \in Seq(S)
    BY DEF Mailbox
  <1> DEFINE T == S \cup {m}
  <1>2. q \in Seq(T) /\ m \in T
    BY <1>1
  <1> HIDE DEF T
  <1>3. /\ Append(q, m) \in Seq(T) /\ Len(q) \in Nat /\ Len(Append(q, m)) = Len(q) + 1
        /\ \A i \in 1..Len(q) : Append(q, m)[i] = q[i]
        /\ Append(q, m)[Len(q) + 1] = m
    BY <1>2
  <1>4. Content(Append(q, m)) = Content(q) \cup {m}
    BY <1>3 DEF Content
  <1> QED
    BY <1>3, <1>4 DEF Mailbox

\* A message is taken
LEMMA Taken ==
    ASSUME NEW q, Mailbox(q), q # <<>>
    PROVE  /\ Mailbox(Tail(q))
           /\ Len(q) \in Nat \ {0} /\ Len(Tail(q)) = Len(q) - 1
           /\ Head(q) = q[1]
           /\ \A i \in 1..(Len(q) - 1) : Tail(q)[i] = q[i + 1]
           /\ Head(q) \in Content(q) /\ Content(Tail(q)) \subseteq Content(q)
  <1>1. PICK S : q \in Seq(S)
    BY DEF Mailbox
  <1>2. /\ Tail(q) \in Seq(S) /\ Len(q) \in Nat \ {0} /\ Len(Tail(q)) = Len(q) - 1 /\ Head(q) = q[1]
        /\ \A i \in 1..(Len(q) - 1) : Tail(q)[i] = q[i + 1]
    BY <1>1
  <1>3. Head(q) \in Content(q) /\ Content(Tail(q)) \subseteq Content(q)
    BY <1>2 DEF Content
  <1> QED
    BY <1>2, <1>3 DEF Mailbox

\* The empty one
LEMMA Empty == Mailbox(<<>>) /\ Content(<<>>) = {} /\ Len(<<>>) = 0
  <1>1. <<>> \in Seq({}) /\ Len(<<>>) = 0
    OBVIOUS
  <1> QED
    BY <1>1 DEF Mailbox, Content

-----------------------------------------------------------------------------
(* The coprocessor's state                                                 *)

\* It is a record of these fields
IopOK(r) ==
    r = [run |-> r.run, st |-> r.st, ap |-> r.ap, agreed |-> r.agreed, started |-> r.started,
         asked |-> r.asked, told |-> r.told, sent |-> r.sent]

\* What a message makes of the fields: it changes at most these
IopDoes(m) ==
    \/ /\ m.type = "iop_power" /\ m.val = "init" /\ iop.st # "on"
       /\ iop'.st = "hello" /\ iop'.agreed = 0 /\ iop'.started = {} /\ iop'.asked = {}
       /\ iop'.sent = {} /\ iop'.told = iop.told /\ iop'.ap = iop.ap
       /\ Say(Mgmt("hello", dev.ver))
    \/ /\ m.type = "hello_ack"
       /\ iop'.st = "epmap" /\ iop'.agreed = m.val
       /\ UNCHANGED <<iop.started, iop.asked, iop.told, iop.sent, iop.ap>>
       /\ Say(Mgmt("epmap", [eps |-> dev.eps, done |-> FALSE]))
    \/ /\ m.type = "epmap_reply" /\ ~m.val
       /\ UNCHANGED iop
       /\ Say(Mgmt("epmap", [eps |-> {}, done |-> TRUE]))
    \/ /\ m.type = "epmap_reply" /\ m.val
       /\ iop'.st = "on"
       /\ UNCHANGED <<iop.agreed, iop.started, iop.asked, iop.told, iop.sent, iop.ap>>
       /\ UNCHANGED i2a
    \/ /\ m.type = "start_ep"
       /\ iop'.started = iop.started \cup {m.val}
       /\ UNCHANGED <<iop.st, iop.agreed, iop.asked, iop.told, iop.sent, iop.ap>>
       /\ UNCHANGED i2a
    \/ /\ m.type = "buffer"
       /\ iop'.told = iop.told \cup {m.val}
       /\ UNCHANGED <<iop.st, iop.agreed, iop.started, iop.asked, iop.sent, iop.ap>>
       /\ UNCHANGED i2a
    \/ /\ m.type = "ap_power"
       /\ iop'.ap = m.val
       /\ UNCHANGED <<iop.st, iop.agreed, iop.started, iop.asked, iop.told, iop.sent>>
       /\ Say(Mgmt("ap_power_ack", m.val))
    \/ /\ m.type = "iop_power" /\ m.val # "init"
       /\ iop'.st = m.val
       /\ UNCHANGED <<iop.agreed, iop.started, iop.asked, iop.told, iop.sent, iop.ap>>
       /\ Say(Mgmt("iop_power_ack", m.val))
    \/ /\ m.type \notin {"hello_ack", "epmap_reply", "start_ep", "buffer", "ap_power"}
       /\ m.type = "iop_power" => m.val = "init" /\ iop.st = "on"
       /\ UNCHANGED <<iop, i2a>>

\* So does IopTakes
LEMMA TakesDoes ==
    ASSUME IopOK(iop), IopTakes
    PROVE  IopOK(iop') /\ iop'.run = iop.run /\ IopDoes(Head(a2i))
  <1> DEFINE m == Head(a2i)
  <1>1. CASE m.type = "iop_power" /\ m.val = "init" /\ iop.st # "on"
    <2>1. /\ iop' = [iop EXCEPT !.st = "hello", !.agreed = 0, !.started = {}, !.asked = {},
                                !.sent = {}]
          /\ Say(Mgmt("hello", dev.ver))
      BY <1>1 DEF IopTakes
    <2> QED
      BY <1>1, <2>1, Zenon DEF IopOK, IopDoes
  <1>2. CASE m.type = "hello_ack"
    <2>1. /\ iop' = [iop EXCEPT !.agreed = m.val, !.st = "epmap"]
          /\ Say(Mgmt("epmap", [eps |-> dev.eps, done |-> FALSE]))
      BY <1>2 DEF IopTakes
    <2> QED
      BY <1>2, <2>1, Zenon DEF IopOK, IopDoes
  <1>3. CASE m.type = "epmap_reply" /\ ~m.val
    <2>1. UNCHANGED iop /\ Say(Mgmt("epmap", [eps |-> {}, done |-> TRUE]))
      BY <1>3 DEF IopTakes
    <2> QED
      BY <1>3, <2>1 DEF IopOK, IopDoes
  <1>4. CASE m.type = "epmap_reply" /\ m.val
    <2>1. iop' = [iop EXCEPT !.st = "on"] /\ UNCHANGED i2a
      BY <1>4 DEF IopTakes
    <2> QED
      BY <1>4, <2>1 DEF IopOK, IopDoes
  <1>5. CASE m.type = "start_ep"
    <2>1. iop' = [iop EXCEPT !.started = @ \cup {m.val}] /\ UNCHANGED i2a
      BY <1>5 DEF IopTakes
    <2> QED
      BY <1>5, <2>1 DEF IopOK, IopDoes
  <1>6. CASE m.type = "buffer"
    <2>1. iop' = [iop EXCEPT !.told = @ \cup {m.val}] /\ UNCHANGED i2a
      BY <1>6 DEF IopTakes
    <2> QED
      BY <1>6, <2>1 DEF IopOK, IopDoes
  <1>7. CASE m.type = "ap_power"
    <2>1. iop' = [iop EXCEPT !.ap = m.val] /\ Say(Mgmt("ap_power_ack", m.val))
      BY <1>7 DEF IopTakes
    <2> QED
      BY <1>7, <2>1 DEF IopOK, IopDoes
  <1>8. CASE m.type = "iop_power" /\ m.val # "init"
    <2>1. iop' = [iop EXCEPT !.st = m.val] /\ Say(Mgmt("iop_power_ack", m.val))
      BY <1>8 DEF IopTakes
    <2> QED
      BY <1>8, <2>1 DEF IopOK, IopDoes
  <1>9. CASE /\ m.type \notin {"hello_ack", "epmap_reply", "start_ep", "buffer", "ap_power"}
             /\ m.type = "iop_power" => m.val = "init" /\ iop.st = "on"
    <2>1. UNCHANGED <<iop, i2a>>
      BY <1>9 DEF IopTakes
    <2> QED
      BY <1>9, <2>1 DEF IopOK, IopDoes
  <1> QED
    BY <1>1, <1>2, <1>3, <1>4, <1>5, <1>6, <1>7, <1>8, <1>9

\* The steps of the AP that touch the coprocessor
LEMMA IopKept ==
    ASSUME IopOK(iop), Next
    PROVE  /\ IopOK(iop')
           /\ \/ iop'.told = iop.told
              \/ iop'.told = {} /\ a2i' = <<>> /\ i2a' = <<>> /\ iop' = ColdIop /\ rtkit_free
              \/ IopTakes
  <1>1. CASE IopTakes
    BY <1>1, TakesDoes
  <1>2. CASE IopReports
    <2>1. \/ iop' = [iop EXCEPT !.sent = @ \cup {"on"}]
          \/ \E e : iop' = [iop EXCEPT !.asked = @ \cup {e}]
      BY <1>2 DEF IopReports
    <2> QED
      BY <2>1 DEF IopOK
  <1>3. CASE BootStart \/ PowerSwitched
    <2>1. \E b \in BOOLEAN : iop' = [iop EXCEPT !.run = b]
      BY <1>3, Zenon DEF BootStart, PowerSwitched
    <2> QED
      BY <2>1 DEF IopOK
  <1>4. CASE rtkit_free
    BY <1>4 DEF rtkit_free, IopOK, ColdIop
  <1>5. CASE ~(IopTakes \/ IopReports \/ BootStart \/ PowerSwitched \/ rtkit_free)
    <2>1. iop' = iop
      BY <1>5 DEF Next, Running, Calls, World, vars, RecvMessage, RecvEmpty, RecvTimeout, BootHello,
                  BootEpmap, BootStartEp, WaitAgain, BootIopOn, BootApOn, ApQuiesced, rtkit_recv,
                  rtkit_send, SwitchPower, Expire, Terminated, IopExtra
    <2> QED
      BY <2>1
  <1> QED
    BY <1>1, <1>2, <1>3, <1>4, <1>5

-----------------------------------------------------------------------------
(* Buffers                                                                 *)

\* What a reply may tell the IOP of, or has told it of
GrantOK(g) ==
    /\ g.session \in 1..session
    /\ g.session = session /\ pc # "freed" => g.n \in mapped

BufferInv ==
    /\ IopOK(iop) /\ Mailbox(a2i) /\ Mailbox(i2a) /\ session \in Nat \ {0}
    /\ mapped \subseteq alloced
    /\ \A g \in iop.told : GrantOK(g)
    /\ \A m \in Content(a2i) : m.type = "buffer" => GrantOK(m.val)

\* A step of the AP within a session keeps it, when what it sends is no buffer or one that is mapped
LEMMA BufferKept ==
    ASSUME BufferInv, IopOK(iop'), iop'.told = iop.told, session' = session, pc # "freed",
           mapped \subseteq mapped', mapped' \subseteq alloced',
           Mailbox(a2i'), Mailbox(i2a'),
           \A m \in Content(a2i') :
              \/ m \in Content(a2i) \/ m.type # "buffer"
              \/ m.val.session = session /\ m.val.n \in mapped'
    PROVE  BufferInv'
  BY DEF BufferInv, GrantOK

\* How a step of the AP may change the mailbox to the IOP
Mails(T) == a2i' = a2i \/ \E m : m.type \in T /\ a2i' = Append(a2i, m)

\* A send that is no buffer
LEMMA PlainMail ==
    ASSUME Mailbox(a2i), NEW T, "buffer" \notin T, Mails(T)
    PROVE  Mailbox(a2i') /\ \A m \in Content(a2i') : m \in Content(a2i) \/ m.type # "buffer"
  <1>1. CASE a2i' = a2i
    BY <1>1
  <1>2. ASSUME NEW m, m.type \in T, a2i' = Append(a2i, m)
        PROVE  Mailbox(a2i') /\ \A x \in Content(a2i') : x \in Content(a2i) \/ x.type # "buffer"
    BY <1>2, Sent
  <1> QED
    BY <1>1, <1>2 DEF Mails

\* What a buffer request does to the memory and to the mailbox
LEMMA RequestMail ==
    ASSUME BufferInv, NEW e, NEW own, NEW ok,
           HandleBufferRequest(e, own, ok) \/ HandleOslogRequest(own, ok)
    PROVE  /\ mapped \subseteq mapped' /\ mapped' \subseteq alloced' /\ Mailbox(a2i')
           /\ \A m \in Content(a2i') :
                 m \in Content(a2i) \/ (m.val.session = session /\ m.val.n \in mapped')
  <1>1. \/ UNCHANGED mem
        \/ mapped' = mapped \cup {FreshBuffer} /\ alloced' = alloced \cup {FreshBuffer}
    BY DEF HandleBufferRequest, HandleOslogRequest, AllocFails, AllocBuffer, mem
  <1>2. \/ a2i' = a2i
        \/ /\ mapped' = mapped \cup {FreshBuffer}
           /\ \E x : a2i' = Append(a2i, Grant(x))
    BY DEF HandleBufferRequest, HandleOslogRequest, AllocBuffer, asc_send, asc_send_fails
  <1>3. \A x : Grant(x).val.session = session /\ Grant(x).val.n = FreshBuffer
    BY DEF Grant, Msg
  <1>4. mapped \subseteq mapped' /\ mapped' \subseteq alloced'
    BY <1>1 DEF BufferInv, mem
  <1>5. CASE a2i' = a2i
    BY <1>4, <1>5 DEF BufferInv
  <1>6. ASSUME NEW x, mapped' = mapped \cup {FreshBuffer}, a2i' = Append(a2i, Grant(x))
        PROVE  /\ Mailbox(a2i')
               /\ \A m \in Content(a2i') :
                     m \in Content(a2i) \/ (m.val.session = session /\ m.val.n \in mapped')
    BY <1>3, <1>6, Sent DEF BufferInv
  <1> QED
    BY <1>2, <1>4, <1>5, <1>6

\* Every step keeps the invariant of the buffers
LEMMA BufferStep ==
    ASSUME BufferInv, Next
    PROVE  BufferInv'
  <1>0. /\ IopOK(iop) /\ Mailbox(a2i) /\ Mailbox(i2a) /\ IopOK(iop') /\ mapped \subseteq alloced
        /\ session \in Nat \ {0}
    BY IopKept DEF BufferInv
  <1>1. CASE IopTakes
    <2>1. UNCHANGED <<session, pc, mapped, alloced>> /\ a2i # <<>> /\ a2i' = Tail(a2i)
      BY <1>1 DEF IopTakes, Quiet, control, mem
    <2>2. iop'.told = iop.told \/ (Head(a2i).type = "buffer" /\ iop'.told = iop.told \cup {Head(a2i).val})
      BY <1>0, <1>1, TakesDoes DEF IopDoes
    <2>3. Mailbox(i2a')
      <3>1. i2a' = i2a \/ \E m : i2a' = Append(i2a, m)
        <4>1. IopDoes(Head(a2i))
          BY <1>0, <1>1, TakesDoes
        <4>2. i2a' = i2a \/ \E m : Say(m)
          BY <4>1 DEF IopDoes
        <4> QED
          BY <4>2 DEF Say
      <3>2. ASSUME NEW m, i2a' = Append(i2a, m)
            PROVE  Mailbox(i2a')
        BY <1>0, <3>2, Sent
      <3> QED
        BY <1>0, <3>1, <3>2
    <2>4. Mailbox(a2i') /\ Head(a2i) \in Content(a2i) /\ Content(a2i') \subseteq Content(a2i)
      BY <1>0, <2>1, Taken
    <2> QED
      BY <1>0, <2>1, <2>2, <2>3, <2>4 DEF BufferInv, GrantOK
  <1>2. CASE IopReports \/ IopExtra
    <2>1. UNCHANGED <<session, pc, mapped, alloced, a2i, iop.told>>
      <3>1. UNCHANGED <<session, pc, mapped, alloced, a2i>>
        BY <1>2 DEF IopReports, IopExtra, Quiet, control, mem
      <3>2. iop' = iop \/ IopReports
        BY <1>2 DEF IopExtra
      <3>3. iop'.told = iop.told
        BY <1>0, <3>2 DEF IopReports, IopOK
      <3> QED
        BY <3>1, <3>3
    <2>2. Mailbox(i2a')
      <3>1. \E m : i2a' = Append(i2a, m)
        BY <1>2 DEF IopReports, IopExtra, Say
      <3> QED
        BY <1>0, <3>1, Sent
    <2> QED
      BY <1>0, <2>1, <2>2 DEF BufferInv, GrantOK
  <1>3. CASE rtkit_free
    <2>1. CASE iop' = ColdIop /\ i2a' = <<>> /\ a2i' = <<>>
      <3>1. mapped' \subseteq alloced' /\ session' \in {session, session + 1}
        BY <1>0, <1>3 DEF rtkit_free, FreeBuffers
      <3> QED
        BY <1>0, <2>1, <3>1, Empty DEF BufferInv, ColdIop
    <2>2. CASE UNCHANGED <<iop, i2a, a2i>>
      <3>1. /\ mapped' \subseteq alloced'
            /\ \/ session' = session + 1
               \/ session' = session /\ pc' = "freed"
        BY <1>0, <1>3 DEF rtkit_free, FreeBuffers
      <3> QED
        BY <1>0, <2>2, <3>1 DEF BufferInv, GrantOK
    <2> QED
      BY <1>3, <2>1, <2>2 DEF rtkit_free
  <1>4. CASE Terminated
    BY <1>4 DEF Terminated, vars, control, mem, BufferInv, GrantOK
  <1>5. CASE RecvMessage
    <2>1. pc # "freed" /\ session' = session /\ iop' = iop
      BY <1>5 DEF RecvMessage, World
    <2>2. Mailbox(i2a')
      BY <1>0, <1>5, Taken DEF RecvMessage, asc_can_recv
    <2>3. \/ Mails({"log"}) /\ UNCHANGED mem
          \/ \E e, own, ok : HandleBufferRequest(e, own, ok) \/ HandleOslogRequest(own, ok)
      BY <1>5 DEF RecvMessage, Mails, asc_send, asc_send_fails
    <2>4. CASE Mails({"log"}) /\ UNCHANGED mem
      BY <1>0, <2>1, <2>2, <2>4, PlainMail, BufferKept DEF mem
    <2>5. ASSUME NEW e, NEW own, NEW ok,
                 HandleBufferRequest(e, own, ok) \/ HandleOslogRequest(own, ok)
          PROVE  BufferInv'
      BY <1>0, <2>1, <2>2, <2>5, RequestMail, BufferKept
    <2> QED
      BY <2>3, <2>4, <2>5
  <1>6. ASSUME Mails({"iop_power", "hello_ack", "epmap_reply", "start_ep", "ap_power"}),
               pc # "freed", UNCHANGED <<session, mapped, alloced>>, iop'.told = iop.told,
               i2a' = i2a \/ (i2a # <<>> /\ i2a' = Tail(i2a))
        PROVE  BufferInv'
    BY <1>0, <1>6, PlainMail, Taken, BufferKept, Zenon
  <1>7. CASE BootStart \/ BootHello \/ BootEpmap \/ BootStartEp
    <2>1. /\ pc # "freed" /\ UNCHANGED <<session, mapped, alloced>>
          /\ i2a' = i2a \/ (i2a # <<>> /\ i2a' = Tail(i2a))
      BY <1>7 DEF BootStart, BootHello, BootEpmap, BootStartEp, World, mem, asc_can_recv
    <2>2. Mails({"iop_power", "hello_ack", "epmap_reply", "start_ep", "ap_power"})
      BY <1>7 DEF BootStart, BootHello, BootEpmap, BootStartEp, SendThen, Mails, asc_send,
                  asc_send_fails, Mgmt, Msg
    <2>3. iop'.told = iop.told
      BY <1>0, <1>7 DEF BootStart, BootHello, BootEpmap, BootStartEp, World, IopOK
    <2> QED
      BY <1>6, <2>1, <2>2, <2>3
  <1>8. CASE BootIopOn \/ BootApOn \/ ApQuiesced \/ SwitchPower("quiesce") \/ SwitchPower("sleep")
    <2>1. pc # "freed" /\ UNCHANGED <<session, mapped, alloced, i2a, iop>>
      BY <1>8 DEF BootIopOn, BootApOn, ApQuiesced, SwitchPower, World, mem
    <2>2. Mails({"iop_power", "hello_ack", "epmap_reply", "start_ep", "ap_power"})
      BY <1>8 DEF BootIopOn, BootApOn, ApQuiesced, SwitchPower, Continue, Mails, asc_send,
                  asc_send_fails, Mgmt, Msg
    <2> QED
      BY <1>6, <2>1, <2>2
  <1>9. CASE RecvEmpty \/ RecvTimeout \/ WaitAgain \/ PowerSwitched \/ rtkit_recv \/ Expire
    <2>1. pc # "freed" /\ UNCHANGED <<session, mapped, alloced, i2a, a2i>>
      BY <1>9 DEF RecvEmpty, RecvTimeout, WaitAgain, PowerSwitched, rtkit_recv, Expire, World, mem
    <2>2. iop'.told = iop.told
      BY <1>0, <1>9 DEF RecvEmpty, RecvTimeout, WaitAgain, PowerSwitched, rtkit_recv, Expire, World,
                        IopOK
    <2> QED
      BY <1>6, <2>1, <2>2 DEF Mails
  <1>10. CASE rtkit_send
    <2>1. pc # "freed" /\ UNCHANGED <<session, mapped, alloced, i2a, iop>>
      BY <1>10 DEF rtkit_send, World, mem
    <2>2. a2i' = Append(a2i, UserMessage)
      BY <1>10 DEF rtkit_send, asc_send
    <2>3. UserMessage.type # "buffer"
      BY DEF UserMessage, Msg
    <2>4. Mailbox(a2i') /\ Content(a2i') = Content(a2i) \cup {UserMessage}
      BY <1>0, <2>2, Sent, Zenon
    <2> QED
      BY <1>0, <2>1, <2>3, <2>4, BufferKept
  <1> QED
    BY <1>1, <1>2, <1>3, <1>4, <1>5, <1>7, <1>8, <1>9, <1>10 DEF Next, Running, Calls

\* Memory that has been freed is out of the IOP's reach, and what it has been told of in a session is
\* mapped for it until the session is freed, whatever cannot be allocated, mapped, unmapped or sent
THEOREM BuffersTheorem == Spec => []BuffersSafe
  <1>1. Init => BufferInv
    BY Empty DEF Init, BufferInv, IopOK, ColdIop
  <1>2. BufferInv /\ [Next]_vars => BufferInv'
    <2>1. BufferInv /\ UNCHANGED vars => BufferInv'
      BY DEF BufferInv, GrantOK, vars, control, mem
    <2> QED
      BY <2>1, BufferStep
  <1>3. BufferInv => BuffersSafe
    BY DEF BufferInv, GrantOK, BuffersSafe, FreedUnreachable, GrantedMapped
  <1> QED
    BY <1>1, <1>2, <1>3, PTL DEF Spec

-----------------------------------------------------------------------------
(* Crashes                                                                 *)

\* Nobody is in a wait any more once the IOP has crashed
CrashInv == Mailbox(a2i) /\ Mailbox(i2a) /\ crashed \in BOOLEAN /\ (crashed => pc \in {"up", "down"})

\* What CrashIsFinal says of a step
Final ==
    crashed /\ pc # "down" =>
      /\ crashed' /\ iop_power' = iop_power /\ ap_power' = ap_power
      /\ Len(i2a') >= Len(i2a)
      /\ Len(a2i') > Len(a2i) => a2i' = Append(a2i, UserMessage)

\* Every step keeps the invariant of a crash, and does what one may do after it
LEMMA CrashStep ==
    ASSUME BufferInv, BufferInv', CrashInv, Next
    PROVE  CrashInv' /\ Final
  <1>0. Mailbox(a2i') /\ Mailbox(i2a') /\ Mailbox(a2i) /\ Mailbox(i2a)
    BY DEF BufferInv
  <1>1. CASE IopTakes \/ IopReports \/ IopExtra
    <2>1. UNCHANGED <<crashed, iop_power, ap_power, pc>>
      BY <1>1 DEF IopTakes, IopReports, IopExtra, Quiet, rtk, control
    <2>2. a2i' = a2i \/ (a2i # <<>> /\ a2i' = Tail(a2i))
      BY <1>1 DEF IopTakes, IopReports, IopExtra
    <2>3. i2a' = i2a \/ \E m : Say(m)
      <3>1. CASE IopTakes
        <4>1. IopDoes(Head(a2i))
          BY <3>1, TakesDoes DEF BufferInv
        <4> QED
          BY <4>1 DEF IopDoes
      <3> QED
        BY <1>1, <3>1 DEF IopReports, IopExtra
    <2>4. Len(a2i) \in Nat /\ Len(i2a) \in Nat
      BY <1>0 DEF Mailbox
    <2>5. Len(a2i') <= Len(a2i)
      BY <1>0, <2>2, <2>4, Taken
    <2>6. Len(i2a') >= Len(i2a)
      BY <1>0, <2>3, <2>4, Sent DEF Say
    <2> QED
      BY <1>0, <2>1, <2>5, <2>6 DEF CrashInv, Final
  <1>2. CASE SwitchPower("quiesce") \/ SwitchPower("sleep")
    <2>1. UNCHANGED <<crashed, iop_power, ap_power, i2a>> /\ pc = "up"
      BY <1>2 DEF SwitchPower, rtk
    <2>2. crashed => a2i' = a2i /\ pc' = "down"
      BY <1>2 DEF SwitchPower, Alive
    <2>3. Len(a2i) \in Nat /\ Len(i2a) \in Nat
      BY <1>0 DEF Mailbox
    <2> QED
      BY <1>0, <2>1, <2>2, <2>3 DEF CrashInv, Final
  <1>3. CASE RecvMessage
    <2>1. ~crashed /\ crashed' \in BOOLEAN /\ (crashed' => RecvFailed)
      <3>1. pc = "recv" /\ (crashed' = crashed \/ (crashed' = TRUE /\ RecvFailed))
        BY <1>3 DEF RecvMessage, rtk
      <3>2. ~crashed
        <4>1. pc = "recv"
          BY <3>1
        <4>2. crashed => pc \in {"up", "down"}
          BY Zenon DEF CrashInv
        <4> QED
          BY <4>1, <4>2
      <3>3. crashed \in BOOLEAN
        BY Zenon DEF CrashInv
      <3>4. crashed = FALSE
        BY <3>2, <3>3
      <3> QED
        BY <3>1, <3>2, <3>4, Zenon
    <2> QED
      BY <1>0, <2>1 DEF CrashInv, Final, RecvFailed, Goto
  <1>4. CASE rtkit_free
    BY <1>0, <1>4, Zenon DEF rtkit_free, CrashInv, Final
  <1>5. CASE Terminated
    BY <1>0, <1>5 DEF Terminated, CrashInv, Final, vars, rtk, control
  <1>6. CASE \/ Expire \/ WaitAgain \/ RecvEmpty \/ RecvTimeout \/ BootStart \/ BootHello
             \/ BootEpmap \/ BootStartEp \/ BootIopOn \/ BootApOn \/ ApQuiesced \/ PowerSwitched
    <2>1. pc \notin {"up", "down"} /\ crashed' = crashed
      BY <1>6 DEF Expire, WaitAgain, RecvEmpty, RecvTimeout, BootStart, BootHello, BootEpmap,
                  BootStartEp, BootIopOn, BootApOn, ApQuiesced, PowerSwitched, rtk
    <2> QED
      BY <1>0, <2>1 DEF CrashInv, Final
  <1>7. CASE rtkit_recv
    BY <1>0, <1>7 DEF rtkit_recv, Alive, CrashInv, Final, rtk
  <1>8. CASE rtkit_send
    <2>1. UNCHANGED <<crashed, iop_power, ap_power, pc, i2a>> /\ a2i' = Append(a2i, UserMessage)
      BY <1>8 DEF rtkit_send, asc_send, rtk, control
    <2>2. Len(i2a) \in Nat
      BY <1>0 DEF Mailbox
    <2> QED
      BY <1>0, <2>1, <2>2 DEF CrashInv, Final
  <1> QED
    BY <1>1, <1>2, <1>3, <1>4, <1>5, <1>6, <1>7, <1>8 DEF Next, Running, Calls

\* Once rtkit_recv has seen a crash, nothing is taken from the IOP, no change of power is begun or succeeds and only
\* the user's own messages are sent, until rtkit_free
THEOREM CrashTheorem == Spec => CrashIsFinal
  <1>1. Init => BufferInv /\ CrashInv
    <2>1. Init => BufferInv
      BY Empty DEF Init, BufferInv, IopOK, ColdIop
    <2>2. Init => CrashInv
      BY Empty, Zenon DEF Init, CrashInv
    <2> QED
      BY <2>1, <2>2
  <1>2. BufferInv /\ CrashInv /\ [Next]_vars => (BufferInv /\ CrashInv)' /\ [Final]_vars
    <2>1. BufferInv /\ CrashInv /\ UNCHANGED vars => (BufferInv /\ CrashInv)'
      BY DEF BufferInv, CrashInv, GrantOK, vars, rtk, control, mem
    <2> QED
      BY <2>1, BufferStep, CrashStep
  <1>3. Spec => [][Final]_vars
    BY <1>1, <1>2, PTL DEF Spec
  <1> QED
    BY <1>3 DEF CrashIsFinal, Final
=============================================================================
