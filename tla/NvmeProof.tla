----------------------------- MODULE NvmeProof -----------------------------
(***************************************************************************)
(* Proofs about Nvme, for any size of the queues, any reads, any number of *)
(* sessions and commands and whatever the controller does wrong, as long   *)
(* as no reset of ANS has failed (unreset): then nothing is known of it.   *)
(***************************************************************************)
EXTENDS Nvme, TLAPS

\* What the constants are taken to be
Sane ==
    /\ Types \subseteq {"t8103", "t8132"} /\ QueueSize \in Nat \ {0} /\ MaxCount \in Nat /\ Lbas \subseteq Nat
    /\ MaxInits \in Nat

AdminKinds == {"create_cq", "create_sq", "undo_cq", "delete_sq", "delete_cq"}
IoKinds == {"flush", "multi", "verify", "single"}
Kinds == AdminKinds \cup IoKinds
QueueOf(kind) == IF kind \in AdminKinds THEN "admin" ELSE "io"

\* Where the call in progress is: at the command it waits for, if it does
At == IF pc = "poll" THEN cmd.c.kind ELSE pc

\* nvme_init before it enables the controller, after it has, and on its way out
Early == {"rtkit_boot", "boot_status", "out_rtkit", "setup", "wait_disabled"}
Creating == {"create_cq", "create_sq", "undo_cq"}
Leaving == {"out_disable_ctrl", "out_wait_shutdown", "out_wait_disabled"}
Initing == Early \cup {"wait_enabled"} \cup Creating \cup Leaving \cup {"out_shutdown"}
\* The calls that need an initialized controller
Serving == {"delete_sq", "delete_cq", "wait_shutdown", "wait_off"} \cup IoKinds

Nothing == [x \in Queues |-> {}]

Command == [kind : Kinds, id : Nat, gen : Nat, lba : Int, n : Int]
Request == [lba : Nat, n : Nat, i : Nat]
Slots == 0..QueueSize - 1
Completion == [phase : {0, 1}, id : Nat, tag : {0, 1}, good : BOOLEAN]

DevType ==
    [run : BOOLEAN, boot : BOOLEAN, cfs : BOOLEAN, en : BOOLEAN, rdy : BOOLEAN, shn : BOOLEAN, shst : BOOLEAN,
     tcbs : Int, asq : Int, iocq : Int, iosq : Int, ioreg : Int]

Typed ==
    /\ type \in {"t8103", "t8132"} /\ pc \in Pcs
    /\ initialized \in BOOLEAN /\ reboot_required \in BOOLEAN /\ adopting \in BOOLEAN
    /\ ngen \in 0..MaxInits /\ gen \in 0..ngen /\ alloced \subseteq 1..ngen
    /\ dev \in DevType
    /\ pend \in [Queues -> SUBSET Command] /\ ncmd \in Nat
    /\ pc = "poll" => cmd.c \in Command /\ cmd.x = QueueOf(cmd.c.kind) /\ cmd.c.gen = gen

\* What a call may rely on
Life ==
    /\ At \in Initing => ~initialized /\ ~reboot_required
    /\ At \in Serving => initialized
    /\ initialized => ~reboot_required
    /\ adopting => type = "t8132"

\* The queue memory in use
Memory ==
    /\ At # "idle" \/ initialized => gen \in alloced
    /\ type = "t8103" => alloced = IF pc = "idle" /\ ~initialized THEN {} ELSE {gen}
    /\ type = "t8103" /\ pc = "idle" /\ ~initialized => gen = 0

\* The controller
Controller ==
    /\ dev.boot => dev.run
    /\ dev.en \/ dev.rdy => dev.boot
    /\ ~dev.rdy => pend = Nothing /\ dev.iocq = 0 /\ dev.iosq = 0
    /\ initialized \/ At \in {"setup", "wait_disabled", "wait_enabled"} \cup Creating \cup Leaving => dev.boot
    /\ At \in {"boot_status", "out_shutdown"} => dev.run
    /\ type = "t8103" /\ ((pc = "idle" /\ ~initialized) \/ At \in Early) => ~dev.en /\ ~dev.rdy
    /\ At = "wait_disabled" => dev.tcbs = gen
    /\ At \in {"wait_disabled", "wait_off"} => ~dev.en
    /\ \A x \in Queues : \A c \in pend[x] : c.gen \in alloced /\ QueueOf(c.kind) = x

Quiet == pc = "idle" /\ ret = [op |-> "shutdown", ok |-> TRUE] => ~dev.en /\ ~dev.rdy

LifeInv == Typed /\ Life /\ Memory /\ Controller /\ DmaSafe /\ Quiet

-----------------------------------------------------------------------------
\* The controller works for this session's queues
Using == initialized \/ At \in Creating

\* The completion queues in all memory ever allocated
Memories == [Gens -> [Queues -> [Slots -> Completion]]]

\* The command in progress or the last one
Issued(m) == m = [c |-> m.c, x |-> m.x, got |-> m.got] /\ m.c.kind \in Kinds \cup {"none"}

QueueTypes ==
    /\ q \in [Queues -> [head : Slots, phase : {0, 1}, failed : BOOLEAN]]
    /\ dq \in [Queues -> [tail : Slots, phase : {0, 1}]]
    /\ cqes \in Memories
    /\ Issued(cmd)

Blank(g) == \A x \in Queues, i \in Slots : cqes[g][x][i].phase = 0
Unused == \A g \in Gens : g > ngen => Blank(g)

\* Queues that the controller does not know of yet
Prepared ==
    /\ At \in Early \cup {"wait_enabled"} => Blank(gen) /\ q = [x \in Queues |-> NewQueue]
    /\ At \in Early =>
          /\ dev.en \/ dev.rdy => dev.asq # gen /\ dev.iocq # gen
          /\ \A x \in Queues : \A c \in pend[x] : c.gen # gen
    /\ At = "wait_enabled" => pend = Nothing /\ dev.asq = gen /\ dev.iocq = 0 /\ (dev.rdy => dq = Start)

\* Queues in use
Known ==
    Using => /\ dev.asq = gen /\ dev.iocq \in {0, gen} /\ (dev.en => dev.rdy)
             /\ \A x \in Queues : \A c \in pend[x] : c.gen = gen

\* The phase of a slot when all completions are taken, and where the next one goes
Old(x, i) == IF i < q[x].head THEN q[x].phase ELSE 1 - q[x].phase
Here(x) == [tail |-> q[x].head, phase |-> q[x].phase]
There(x) == [tail |-> Advance(q[x]).head, phase |-> Advance(q[x]).phase]

Taken(x) == (\A i \in Slots : cqes[gen][x][i].phase = Old(x, i)) /\ (dev.rdy => dq[x] = Here(x))
Answered(x) ==
    /\ \A i \in Slots \ {q[x].head} : cqes[gen][x][i].phase = Old(x, i)
    /\ cqes[gen][x][q[x].head].phase = q[x].phase /\ cqes[gen][x][q[x].head].id = cmd.c.id
    /\ dev.rdy => dq[x] = There(x)
    /\ pend[x] = {}

Waits(x) == pc = "poll" /\ cmd.x = x
InStep(x) == IF Waits(x) THEN (Taken(x) /\ pend[x] \subseteq {cmd.c}) \/ Answered(x)
                         ELSE Taken(x) /\ pend[x] = {}
Synced == Using => \A x \in Queues : ~q[x].failed => InStep(x)

QueueInv == /\ QueueTypes /\ Unused /\ Prepared /\ Known /\ Synced
            /\ pc = "poll" => ~q[cmd.x].failed
            /\ CompletionMatches

-----------------------------------------------------------------------------
Reading == {"multi", "verify", "single"}
Done(j) == buf[j] = req.lba + j

DataTypes ==
    /\ buf \in [0..MaxCount - 1 -> Int] /\ bounce \in Int \ {Fill}
    /\ \A c \in pend["io"] : c.lba \in Nat
    /\ broken \in BOOLEAN /\ (multi_verified => ~broken)

\* The command in progress has been executed, and well
Served == Waits("io") /\ pend["io"] = {} /\ cqes[gen]["io"][q["io"].head].phase = q["io"].phase
                      /\ cqes[gen]["io"][q["io"].head].good
Good(kind) == (pc = kind /\ ok) \/ (pc = "poll" /\ cmd.c.kind = kind /\ Served)

Multi ==
    At \in {"multi", "verify"} /\ ~q["io"].failed =>
        /\ req.n \in 2..MaxCount
        /\ broken => buf[req.n - 1] = Fill
        /\ ~broken /\ (At = "verify" \/ Good("multi")) => \A j \in 0..req.n - 1 : Done(j)

Single ==
    At = "single" /\ ~q["io"].failed =>
        /\ req.i < req.n /\ req.n \in 1..MaxCount
        /\ \A j \in 0..req.i - 1 : Done(j)
        /\ Good("single") => Done(req.i)

Argument ==
    pc = "poll" => /\ cmd.c.kind = "multi" => cmd.c.lba = req.lba /\ cmd.c.n = req.n
                   /\ cmd.c.kind = "single" => cmd.c.lba = req.lba + req.i /\ cmd.c.n = req.i

Delivered ==
    pc = "idle" /\ ret = [op |-> "read", ok |-> TRUE] => initialized /\ ~q["io"].failed /\ \A j \in 0..req.n - 1 : Done(j)
Working == pc \in IoKinds /\ ok => ~q["io"].failed

DataInv == DataTypes /\ Multi /\ Single /\ Argument /\ Delivered /\ Working
-----------------------------------------------------------------------------
(* The steps of the controller and of a call, as far as LifeInv is         *)
(* concerned                                                               *)

\* All but the controller
calls == <<type, pc, cmd, ret, initialized, reboot_required, adopting, gen, alloced, ngen, ncmd>>

\* What calls hold between nvme_init and its failure, or nvme_shutdown
kept == <<type, initialized, reboot_required, adopting, gen, alloced, ngen>>

\* A step of the controller
LEMMA DeviceKeeps ==
    ASSUME LifeInv, UNCHANGED calls, dev' \in DevType, pend' \in [Queues -> SUBSET Command],
           \A x \in Queues : \A c \in pend'[x] : c \in pend[x],
           dev'.run = dev.run, dev'.en = dev.en, dev'.tcbs = dev.tcbs, dev'.asq = dev.asq,
           dev.boot => dev'.boot, dev'.boot => dev.run, dev'.rdy => dev.rdy \/ dev.en,
           ~dev'.rdy => pend' = Nothing /\ dev'.iocq = 0 /\ dev'.iosq = 0,
           \A g \in {dev'.iocq, dev'.iosq} :
              g \in {0, dev.iocq, dev.iosq} \/ \E x \in Queues : \E c \in pend[x] : g = c.gen
    PROVE  LifeInv'
  <1>0. Typed /\ Life /\ Memory /\ Controller /\ DmaSafe /\ Quiet
    BY Zenon DEF LifeInv
  <1>1. Typed'
    BY <1>0 DEF Typed, calls
  <1>2. Life'
    BY <1>0 DEF Life, At, calls
  <1>3. Memory'
    BY <1>0 DEF Memory, At, calls
  <1>4. Controller'
    BY <1>0 DEF Controller, At, calls
  <1>5. DmaSafe'
    BY <1>0 DEF DmaSafe, Controller, calls
  <1>6. Quiet'
    BY <1>0 DEF Quiet, calls
  <1> QED
    BY <1>1, <1>2, <1>3, <1>4, <1>5, <1>6, Zenon DEF LifeInv

\* A call goes on
LEMMA GoesOn ==
    ASSUME LifeInv, UNCHANGED <<kept, pend, ncmd>>, pc # "idle", pc' \in Pcs \ {"idle", "poll"},
           At \in Initing <=> pc' \in Initing, pc' \in Serving => At \in Serving,
           dev' \in DevType, Controller', DmaSafe'
    PROVE  LifeInv'
  <1>0. Typed /\ Life /\ Memory /\ Controller /\ DmaSafe /\ Quiet
    BY Zenon DEF LifeInv
  <1>1. Typed'
    BY <1>0 DEF Typed, kept
  <1>2. Life'
    BY <1>0 DEF Life, At, kept
  <1>3. Memory'
    <2>1. At # "idle"
      BY <1>0 DEF At, Typed, Command, Kinds, AdminKinds, IoKinds
    <2> QED
      BY <1>0, <2>1 DEF Memory, At, kept
  <1>6. Quiet'
    BY DEF Quiet
  <1> QED
    BY <1>1, <1>2, <1>3, <1>6, Zenon DEF LifeInv

\* A call returns, and nothing but its result is new
LEMMA JustReturns ==
    ASSUME LifeInv, UNCHANGED <<kept, pend, ncmd, dev>>, pc = "idle" \/ initialized, pc' = "idle",
           ret'.op # "shutdown"
    PROVE  LifeInv'
  <1>0. Typed /\ Life /\ Memory /\ Controller /\ DmaSafe /\ Quiet
    BY Zenon DEF LifeInv
  <1>1. Typed'
    BY <1>0 DEF Typed, kept, Pcs
  <1>2. Life'
    BY <1>0 DEF Life, At, kept, Initing, Serving, Early, Creating, Leaving, IoKinds
  <1>3. Memory'
    BY <1>0 DEF Memory, At, kept
  <1>4. Controller'
    BY <1>0 DEF Controller, At, kept, Early, Creating, Leaving
  <1>5. DmaSafe'
    BY <1>0 DEF DmaSafe, kept
  <1>6. Quiet'
    BY DEF Quiet
  <1> QED
    BY <1>1, <1>2, <1>3, <1>4, <1>5, <1>6, Zenon DEF LifeInv

\* A command is issued, or refused
LEMMA IssueMoves ==
    ASSUME LifeInv, NEW kind \in Kinds, NEW lba \in Int, NEW n \in Int, Issue(QueueOf(kind), kind, lba, n),
           UNCHANGED <<kept, dev>>
    PROVE  /\ pc' \in {kind, "poll"} /\ At' = kind /\ pend' \in [Queues -> SUBSET Command] /\ ncmd' \in Nat
           /\ \A x \in Queues : \A c \in pend'[x] : c \in pend[x] \/ (c.gen = gen /\ QueueOf(c.kind) = x)
           /\ ~dev.rdy => pend' = pend
           /\ pc' = "poll" => cmd'.c \in Command /\ cmd'.x = QueueOf(cmd'.c.kind) /\ cmd'.c.gen = gen
  <1>0. Typed
    BY Zenon DEF LifeInv
  <1> DEFINE x == QueueOf(kind)
             d == [kind |-> kind, id |-> ncmd + 1, gen |-> gen, lba |-> lba, n |-> n]
  <1>1. x \in Queues
    BY DEF QueueOf, Queues
  <1>2. gen \in Nat /\ ncmd + 1 \in Nat
    BY <1>0 DEF Typed
  <1>3. d \in Command /\ d.kind = kind /\ d.gen = gen
    BY <1>2, Zenon DEF Command
  <1>4. kind # "poll"
    BY DEF Kinds, AdminKinds, IoKinds
  <1>5. pend \in [Queues -> SUBSET Command] /\ ncmd \in Nat
    BY <1>0, Zenon DEF Typed
  <1>6. CASE Refuses(x)
    <2>1. pc' = kind /\ pend' = pend /\ ncmd' = ncmd
      BY <1>6, Zenon DEF Issue
    <2> QED
      BY <1>4, <1>5, <2>1, Zenon DEF At
  <1>7. CASE ~Refuses(x)
    <2>1. /\ pc' = "poll" /\ ncmd' = ncmd + 1 /\ cmd' = [c |-> d, x |-> x, got |-> 0]
          /\ pend' = [pend EXCEPT ![x] = IF dev.rdy /\ ~dev.shst THEN @ \cup {d} ELSE @]
      BY <1>7, Zenon DEF Issue
    <2> HIDE DEF d
    <2>2. cmd'.c = d /\ cmd'.x = x
      BY <2>1, Zenon
    <2>3. pend' \in [Queues -> SUBSET Command]
      BY <1>1, <1>3, <1>5, <2>1, Zenon
    <2>4. \A y \in Queues : \A c \in pend'[y] : c \in pend[y] \/ (c = d /\ y = x)
      BY <1>5, <2>1, Zenon
    <2>5. ~dev.rdy => pend' = pend
      BY <1>5, <2>1
    <2> QED
      BY <1>2, <1>3, <2>1, <2>2, <2>3, <2>4, <2>5, Zenon DEF At
  <1> QED
    BY <1>6, <1>7, Zenon

\* Issuing a command keeps LifeInv
LEMMA IssueKeeps ==
    ASSUME LifeInv, NEW kind \in Kinds, NEW lba \in Int, NEW n \in Int, Issue(QueueOf(kind), kind, lba, n),
           UNCHANGED <<kept, dev>>, pc # "idle" \/ initialized,
           kind \in Initing => At \in Initing /\ dev.boot, kind \in Serving => initialized
    PROVE  LifeInv'
  <1>0. Typed /\ Life /\ Memory /\ Controller /\ DmaSafe /\ Quiet
    BY Zenon DEF LifeInv
  <1>a. /\ pc' \in {kind, "poll"} /\ At' = kind /\ pend' \in [Queues -> SUBSET Command] /\ ncmd' \in Nat
        /\ \A x \in Queues : \A c \in pend'[x] : c \in pend[x] \/ (c.gen = gen /\ QueueOf(c.kind) = x)
        /\ ~dev.rdy => pend' = pend
        /\ pc' = "poll" => cmd'.c \in Command /\ cmd'.x = QueueOf(cmd'.c.kind) /\ cmd'.c.gen = gen
    BY IssueMoves, Zenon
  <1>b. At # "idle" \/ initialized
    BY <1>0 DEF At, Typed, Command, Kinds, AdminKinds, IoKinds
  <1>c. pc' # "idle" /\ pc' \in Pcs /\ kind # "idle" /\ kind \notin Early \cup Leaving \cup {"wait_off", "out_shutdown"}
    BY <1>a DEF Kinds, AdminKinds, IoKinds, Pcs, Early, Leaving
  <1> HIDE DEF Issue
  <1>1. Typed'
    BY <1>0, <1>a, <1>c DEF Typed, kept
  <1>2. Life'
    BY <1>0, <1>a DEF Life, kept
  <1>3. Memory'
    BY <1>0, <1>a, <1>b, <1>c DEF Memory, kept
  <1>4. Controller'
    <2>1. gen \in alloced
      BY <1>0, <1>b DEF Memory
    <2> QED
      BY <1>0, <1>a, <1>c, <2>1 DEF Controller, kept, Initing, Early
  <1>5. DmaSafe'
    BY <1>0 DEF DmaSafe, kept
  <1>6. Quiet'
    BY <1>c DEF Quiet
  <1> QED
    BY <1>1, <1>2, <1>3, <1>4, <1>5, <1>6, Zenon DEF LifeInv

-----------------------------------------------------------------------------
\* The ANS firmware comes up, or fails
LEMMA DevFlagKeeps ==
    ASSUME LifeInv, DevBoot \/ DevFatal
    PROVE  LifeInv'
  <1>0. Typed /\ Controller /\ dev \in DevType
    BY Zenon DEF LifeInv, Typed
  <1>1. /\ dev' = [dev EXCEPT !.boot = TRUE] \/ dev' = [dev EXCEPT !.cfs = TRUE]
        /\ dev.run \/ dev.boot
        /\ UNCHANGED <<calls, pend>>
    BY Zenon DEF DevBoot, DevFatal, calls, locals, session, memory
  <1>2. /\ dev' \in DevType /\ dev'.run = dev.run /\ dev'.en = dev.en /\ dev'.rdy = dev.rdy
        /\ dev'.tcbs = dev.tcbs /\ dev'.asq = dev.asq /\ dev'.iocq = dev.iocq /\ dev'.iosq = dev.iosq
    BY <1>0, <1>1, Zenon DEF DevType
  <1>3. dev.boot => dev'.boot
    BY <1>0, <1>1, Zenon DEF DevType
  <1>4. dev.run
    BY <1>0, <1>1, Zenon DEF Controller
  <1>5. pend \in [Queues -> SUBSET Command]
    BY <1>0, Zenon DEF Typed
  <1>6. ~dev'.rdy => pend' = Nothing /\ dev'.iocq = 0 /\ dev'.iosq = 0
    BY <1>0, <1>1, <1>2, Zenon DEF Controller
  <1> QED
    BY <1>1, <1>2, <1>3, <1>4, <1>5, <1>6, DeviceKeeps, Zenon

\* The controller follows CC.EN
LEMMA DevReadyKeeps ==
    ASSUME LifeInv, DevReady
    PROVE  LifeInv'
  <1>0. Typed /\ Controller /\ dev \in DevType /\ pend \in [Queues -> SUBSET Command]
    BY Zenon DEF LifeInv, Typed
  <1>1. UNCHANGED calls
    BY Zenon DEF DevReady, calls, locals, session, memory
  <1>2. dev.run
    BY <1>0, Zenon DEF Controller, DevReady
  <1>3. CASE dev.en
    <2>1. dev' = [dev EXCEPT !.rdy = TRUE, !.shst = FALSE] /\ pend' = pend
      BY <1>3, Zenon DEF DevReady
    <2>2. /\ dev' \in DevType /\ dev'.run = dev.run /\ dev'.en = dev.en /\ dev'.rdy /\ dev'.boot = dev.boot
          /\ dev'.tcbs = dev.tcbs /\ dev'.asq = dev.asq /\ dev'.iocq = dev.iocq /\ dev'.iosq = dev.iosq
      BY <1>0, <2>1, Zenon DEF DevType
    <2> QED
      BY <1>0, <1>1, <1>2, <1>3, <2>1, <2>2, DeviceKeeps, Zenon
  <1>4. CASE ~dev.en
    <2>1. dev' = [dev EXCEPT !.rdy = FALSE, !.iocq = 0, !.iosq = 0] /\ pend' = Nothing
      BY <1>4, Zenon DEF DevReady, Nothing
    <2>2. /\ dev' \in DevType /\ dev'.run = dev.run /\ dev'.en = dev.en /\ ~dev'.rdy /\ dev'.boot = dev.boot
          /\ dev'.tcbs = dev.tcbs /\ dev'.asq = dev.asq /\ dev'.iocq = 0 /\ dev'.iosq = 0
      <3>1. 0 \in Int
        OBVIOUS
      <3> QED
        BY <1>0, <2>1, <3>1, Zenon DEF DevType
    <2>3. pend' \in [Queues -> SUBSET Command] /\ \A x \in Queues : \A c \in pend'[x] : c \in pend[x]
      BY <2>1, Zenon DEF Nothing
    <2> QED
      BY <1>1, <1>2, <2>1, <2>2, <2>3, DeviceKeeps, Zenon
  <1> QED
    BY <1>3, <1>4, Zenon

\* The controller shuts down
LEMMA DevShutdownKeeps ==
    ASSUME LifeInv, DevShutdown
    PROVE  LifeInv'
  <1>0. Typed /\ Controller /\ dev \in DevType
    BY Zenon DEF LifeInv, Typed
  <1>1. UNCHANGED calls /\ dev' = [dev EXCEPT !.shst = TRUE] /\ pend' = Nothing /\ dev.rdy
    BY Zenon DEF DevShutdown, calls, locals, session, memory, Nothing
  <1>2. /\ dev' \in DevType /\ dev'.run = dev.run /\ dev'.en = dev.en /\ dev'.rdy = dev.rdy /\ dev'.boot = dev.boot
        /\ dev'.tcbs = dev.tcbs /\ dev'.asq = dev.asq /\ dev'.iocq = dev.iocq /\ dev'.iosq = dev.iosq
    BY <1>0, <1>1, Zenon DEF DevType
  <1>3. pend' \in [Queues -> SUBSET Command] /\ \A x \in Queues : \A c \in pend'[x] : c \in pend[x]
    BY <1>1, Zenon DEF Nothing
  <1>4. dev.run
    BY <1>0, <1>1, Zenon DEF Controller
  <1> QED
    BY <1>1, <1>2, <1>3, <1>4, DeviceKeeps, Zenon

\* What the execution of a command leaves alone
LEMMA ExecuteLeaves ==
    ASSUME NEW x, NEW c, NEW good, NEW tag, DevExecute(x, c, good, tag)
    PROVE  UNCHANGED <<type, session, memory, q, cmd_timed_out, multi_enabled, multi_verified, req, locals, broken, ncmd>>
  BY Zenon DEF DevExecute

\* What it does to the registers and the commands held
LEMMA ExecuteMoves ==
    ASSUME LifeInv, NEW x \in Queues, NEW c \in pend[x], NEW good \in BOOLEAN, NEW tag \in {0, 1},
           DevExecute(x, c, good, tag)
    PROVE  /\ UNCHANGED calls /\ dev.rdy /\ dev'.rdy = dev.rdy
           /\ dev' \in DevType /\ dev'.run = dev.run /\ dev'.en = dev.en /\ dev'.boot = dev.boot
           /\ dev'.tcbs = dev.tcbs /\ dev'.asq = dev.asq
           /\ dev'.iocq \in {dev.iocq, 0, c.gen} /\ dev'.iosq \in {dev.iosq, 0, c.gen}
           /\ pend' = [pend EXCEPT ![x] = @ \ {c}] /\ pend' \in [Queues -> SUBSET Command]
           /\ \A y \in Queues : \A e \in pend'[y] : e \in pend[y]
           /\ c \in Command
  <1>0. Typed /\ dev \in DevType /\ pend \in [Queues -> SUBSET Command]
    BY Zenon DEF LifeInv, Typed
  <1>1. UNCHANGED calls /\ dev.rdy /\ pend' = [pend EXCEPT ![x] = @ \ {c}]
    BY Zenon DEF DevExecute, calls, locals, session, memory
  <1>2. \/ dev' = dev
        \/ \E g \in {0, c.gen} : dev' = [dev EXCEPT !.iocq = g] \/ dev' = [dev EXCEPT !.iosq = g]
    BY DEF DevExecute
  <1>3. c \in Command /\ c.gen \in Nat
    <2>1. c \in Command
      BY <1>0, Zenon
    <2> QED
      BY <2>1 DEF Command
  <1>4. \A g \in {0, c.gen} : g \in Int
    BY <1>3
  <1>5. /\ dev' \in DevType /\ dev'.run = dev.run /\ dev'.en = dev.en /\ dev'.boot = dev.boot
        /\ dev'.tcbs = dev.tcbs /\ dev'.asq = dev.asq /\ dev'.rdy = dev.rdy
        /\ dev'.iocq \in {dev.iocq, 0, c.gen} /\ dev'.iosq \in {dev.iosq, 0, c.gen}
    <2>1. CASE dev' = dev
      BY <1>0, <2>1, Zenon
    <2>2. ASSUME NEW g \in {0, c.gen}, dev' = [dev EXCEPT !.iocq = g]
          PROVE  /\ dev' \in DevType /\ dev'.run = dev.run /\ dev'.en = dev.en /\ dev'.boot = dev.boot
                 /\ dev'.tcbs = dev.tcbs /\ dev'.asq = dev.asq /\ dev'.rdy = dev.rdy
                 /\ dev'.iocq = g /\ dev'.iosq = dev.iosq
      BY <1>0, <1>4, <2>2, Zenon DEF DevType
    <2>3. ASSUME NEW g \in {0, c.gen}, dev' = [dev EXCEPT !.iosq = g]
          PROVE  /\ dev' \in DevType /\ dev'.run = dev.run /\ dev'.en = dev.en /\ dev'.boot = dev.boot
                 /\ dev'.tcbs = dev.tcbs /\ dev'.asq = dev.asq /\ dev'.rdy = dev.rdy
                 /\ dev'.iosq = g /\ dev'.iocq = dev.iocq
      BY <1>0, <1>4, <2>3, Zenon DEF DevType
    <2> QED
      BY <1>2, <2>1, <2>2, <2>3, Zenon
  <1>6. pend' \in [Queues -> SUBSET Command] /\ \A y \in Queues : \A e \in pend'[y] : e \in pend[y]
    BY <1>0, <1>1, Zenon
  <1> QED
    BY <1>1, <1>3, <1>5, <1>6, Zenon

\* The execution of a command keeps LifeInv
LEMMA ExecuteKeeps ==
    ASSUME LifeInv, NEW x \in Queues, NEW c \in pend[x], NEW good \in BOOLEAN, NEW tag \in {0, 1},
           DevExecute(x, c, good, tag)
    PROVE  LifeInv'
  <1>1. /\ UNCHANGED calls /\ dev.rdy /\ dev'.rdy = dev.rdy
        /\ dev' \in DevType /\ dev'.run = dev.run /\ dev'.en = dev.en /\ dev'.boot = dev.boot
        /\ dev'.tcbs = dev.tcbs /\ dev'.asq = dev.asq
        /\ dev'.iocq \in {dev.iocq, 0, c.gen} /\ dev'.iosq \in {dev.iosq, 0, c.gen}
        /\ pend' \in [Queues -> SUBSET Command]
        /\ \A y \in Queues : \A e \in pend'[y] : e \in pend[y]
    BY ExecuteMoves, Zenon
  <1>2. dev.run
    BY <1>1, Zenon DEF LifeInv, Controller
  <1> HIDE DEF DevExecute
  <1>3. \A g \in {dev'.iocq, dev'.iosq} : g \in {0, dev.iocq, dev.iosq} \/ g = c.gen
    BY <1>1, Zenon
  <1> QED
    BY <1>1, <1>2, <1>3, DeviceKeeps, Zenon

-----------------------------------------------------------------------------
\* rtkit_boot and the wait for the firmware
LEMMA WakeKeeps ==
    ASSUME LifeInv, (\E good \in BOOLEAN : RtkitBoot(good)) \/ BootStatus
    PROVE  LifeInv'
  <1>0. Typed /\ Life /\ Memory /\ Controller /\ DmaSafe /\ dev \in DevType
    BY Zenon DEF LifeInv, Typed
  <1>1. CASE \E good \in BOOLEAN : RtkitBoot(good)
    <2>1. /\ pc = "rtkit_boot" /\ pc' \in {"boot_status", "out_rtkit"} /\ UNCHANGED <<kept, pend, ncmd>>
          /\ dev' \in {dev, [dev EXCEPT !.run = TRUE]}
          /\ pc' = "boot_status" => dev' = [dev EXCEPT !.run = TRUE]
      BY <1>1 DEF RtkitBoot, kept, session, memory
    <2>2. /\ dev' \in DevType /\ dev'.en = dev.en /\ dev'.rdy = dev.rdy /\ dev'.boot = dev.boot
          /\ dev'.tcbs = dev.tcbs /\ dev'.asq = dev.asq /\ dev'.iocq = dev.iocq /\ dev'.iosq = dev.iosq
      BY <1>0, <2>1, Zenon DEF DevType
    <2>3. (dev.run => dev'.run) /\ (pc' = "boot_status" => dev'.run)
      BY <1>0, <2>1, Zenon DEF DevType
    <2>4. Controller'
      BY <1>0, <2>1, <2>2, <2>3 DEF Controller, At, kept, Early, Creating, Leaving
    <2>5. DmaSafe'
      BY <1>0, <2>1, <2>2 DEF DmaSafe, kept
    <2>6. pc # "idle" /\ pc' \in Pcs \ {"idle", "poll"} /\ At \in Initing /\ pc' \in Initing /\ pc' \notin Serving
      BY <2>1 DEF Pcs, At, Initing, Early, Serving, IoKinds
    <2> QED
      BY <2>1, <2>2, <2>4, <2>5, <2>6, GoesOn, Zenon
  <1>2. CASE BootStatus
    <2>1. /\ pc = "boot_status" /\ pc' = (IF dev.boot THEN "setup" ELSE "out_shutdown")
          /\ UNCHANGED <<kept, pend, ncmd, dev>>
      BY <1>2, Zenon DEF BootStatus, kept, session, memory, device
    <2>4. Controller'
      BY <1>0, <2>1 DEF Controller, At, kept, Early, Creating, Leaving
    <2>5. DmaSafe'
      BY <1>0, <2>1 DEF DmaSafe, kept
    <2>6. pc # "idle" /\ pc' \in Pcs \ {"idle", "poll"} /\ At \in Initing /\ pc' \in Initing /\ pc' \notin Serving
      BY <2>1 DEF Pcs, At, Initing, Early, Serving, IoKinds
    <2> QED
      BY <1>0, <2>1, <2>4, <2>5, <2>6, GoesOn, Zenon
  <1> QED
    BY <1>1, <1>2, Zenon

\* The set-up of the controller
LEMMA SetupKeeps ==
    ASSUME Sane, LifeInv, SetupController \/ SetupAdminQueue
    PROVE  LifeInv'
  <1>0. Typed /\ Life /\ Memory /\ Controller /\ DmaSafe /\ dev \in DevType
    BY Zenon DEF LifeInv, Typed
  <1>1. gen \in Int
    BY <1>0 DEF Typed
  <1>2. CASE SetupController
    <2>1. /\ pc = "setup" /\ pc' = "wait_disabled" /\ UNCHANGED <<kept, pend, ncmd>>
          /\ dev' = [dev EXCEPT !.tcbs = gen, !.en = FALSE]
      BY <1>2, Zenon DEF SetupController, kept, session, memory
    <2>2. /\ dev' \in DevType /\ dev'.run = dev.run /\ ~dev'.en /\ dev'.rdy = dev.rdy /\ dev'.boot = dev.boot
          /\ dev'.tcbs = gen /\ dev'.asq = dev.asq /\ dev'.iocq = dev.iocq /\ dev'.iosq = dev.iosq
      BY <1>0, <1>1, <2>1, Zenon DEF DevType
    <2>3. gen \in alloced
      BY <1>0, <2>1 DEF Memory, At
    <2>4. Controller'
      BY <1>0, <2>1, <2>2 DEF Controller, At, kept, Early, Creating, Leaving
    <2>5. DmaSafe'
      BY <1>0, <2>1, <2>2, <2>3 DEF DmaSafe, kept
    <2>6. pc # "idle" /\ pc' \in Pcs \ {"idle", "poll"} /\ At \in Initing /\ pc' \in Initing /\ pc' \notin Serving
      BY <2>1 DEF Pcs, At, Initing, Early, Serving, IoKinds
    <2> QED
      BY <2>1, <2>2, <2>4, <2>5, <2>6, GoesOn, Zenon
  <1>3. CASE SetupAdminQueue /\ dev.rdy
    <2>1. pc = "wait_disabled" /\ pc' = "out_shutdown" /\ UNCHANGED <<kept, pend, ncmd, dev>>
      BY <1>3, Zenon DEF SetupAdminQueue, CtrlDisabled, kept, session, memory
    <2>4. Controller'
      BY <1>0, <2>1 DEF Controller, At, kept, Early, Creating, Leaving
    <2>5. DmaSafe'
      BY <1>0, <2>1 DEF DmaSafe, kept
    <2>6. pc # "idle" /\ pc' \in Pcs \ {"idle", "poll"} /\ At \in Initing /\ pc' \in Initing /\ pc' \notin Serving
      BY <2>1 DEF Pcs, At, Initing, Early, Serving, IoKinds
    <2> QED
      BY <1>0, <2>1, <2>4, <2>5, <2>6, GoesOn, Zenon
  <1>4. CASE SetupAdminQueue /\ ~dev.rdy
    <2>1. /\ pc = "wait_disabled" /\ pc' = "wait_enabled" /\ UNCHANGED <<kept, pend, ncmd>>
          /\ dev' = [dev EXCEPT !.asq = gen, !.shn = FALSE, !.en = TRUE]
      BY <1>4, Zenon DEF SetupAdminQueue, CtrlDisabled, kept, session, memory
    <2>2. /\ dev' \in DevType /\ dev'.run = dev.run /\ dev'.en /\ dev'.rdy = dev.rdy /\ dev'.boot = dev.boot
          /\ dev'.tcbs = dev.tcbs /\ dev'.asq = gen /\ dev'.iocq = dev.iocq /\ dev'.iosq = dev.iosq
      BY <1>0, <1>1, <2>1, Zenon DEF DevType
    <2>3. gen \in alloced /\ dev.tcbs = gen /\ dev.iocq = 0 /\ dev.iosq = 0
      BY <1>0, <1>4, <2>1 DEF Memory, At, Controller
    <2>4. Controller'
      BY <1>0, <2>1, <2>2 DEF Controller, At, kept, Early, Creating, Leaving
    <2>5. DmaSafe'
      BY <2>1, <2>2, <2>3 DEF DmaSafe, kept
    <2>6. pc # "idle" /\ pc' \in Pcs \ {"idle", "poll"} /\ At \in Initing /\ pc' \in Initing /\ pc' \notin Serving
      BY <2>1 DEF Pcs, At, Initing, Early, Serving, IoKinds
    <2> QED
      BY <2>1, <2>2, <2>4, <2>5, <2>6, GoesOn, Zenon
  <1> QED
    BY <1>2, <1>3, <1>4, Zenon

\* The commands that create the I/O queues
LEMMA CreateKeeps ==
    ASSUME LifeInv, CreateQueues
    PROVE  LifeInv'
  <1>0. Typed /\ Life /\ Memory /\ Controller /\ DmaSafe /\ dev \in DevType
    BY Zenon DEF LifeInv, Typed
  <1>1. pc \in {"wait_enabled"} \cup Creating /\ UNCHANGED <<type, adopting, gen, alloced, ngen>>
    BY Zenon DEF CreateQueues, Creating, memory
  <1>2. At = pc /\ dev.boot /\ ~initialized /\ ~reboot_required /\ At \in Initing /\ pc # "idle"
    BY <1>0, <1>1 DEF At, Controller, Creating, Life, Initing
  <1>3. ASSUME NEW kind \in Creating, Issue("admin", kind, 0, 0), UNCHANGED <<session, ret, dev>>
        PROVE  LifeInv'
    <2>1. kind \in Kinds /\ QueueOf(kind) = "admin" /\ kind \notin Serving
      BY DEF Kinds, AdminKinds, Creating, QueueOf, Serving, IoKinds
    <2>2. UNCHANGED <<kept, dev>>
      BY <1>1, <1>3, Zenon DEF kept, session
    <2>3. 0 \in Int
      OBVIOUS
    <2> QED
      BY <1>2, <1>3, <2>1, <2>2, <2>3, IssueKeeps, Zenon
  <1>4. ASSUME pc' = "out_disable_ctrl", UNCHANGED <<session, dev, pend, ncmd>>
        PROVE  LifeInv'
    <2>1. UNCHANGED <<kept, pend, ncmd, dev>>
      BY <1>1, <1>4, Zenon DEF kept, session
    <2>4. Controller'
      BY <1>0, <1>2, <1>4, <2>1 DEF Controller, At, kept, Early, Creating, Leaving
    <2>5. DmaSafe'
      BY <1>0, <2>1 DEF DmaSafe, kept
    <2>6. pc' \in Pcs \ {"idle", "poll"} /\ pc' \in Initing /\ pc' \notin Serving
      BY <1>4 DEF Pcs, Initing, Leaving, Serving, IoKinds
    <2> QED
      BY <1>0, <1>2, <2>1, <2>4, <2>5, <2>6, GoesOn, Zenon
  <1>5. ASSUME dev' = (IF type = "t8132" THEN [dev EXCEPT !.ioreg = gen] ELSE dev), initialized',
               Return("init", TRUE), UNCHANGED <<reboot_required, pend, ncmd>>
        PROVE  LifeInv'
    <2>1. pc' = "idle" /\ ret' = [op |-> "init", ok |-> TRUE]
      BY <1>5, Zenon DEF Return
    <2>2. /\ dev' \in DevType /\ dev'.run = dev.run /\ dev'.en = dev.en /\ dev'.rdy = dev.rdy
          /\ dev'.boot = dev.boot /\ dev'.tcbs = dev.tcbs /\ dev'.asq = dev.asq /\ dev'.iocq = dev.iocq
          /\ dev'.iosq = dev.iosq
      <3>1. gen \in Int
        BY <1>0 DEF Typed
      <3>2. CASE type = "t8132"
        BY <1>0, <1>5, <3>1, <3>2, Zenon DEF DevType
      <3> QED
        BY <1>0, <1>5, <3>2, Zenon
    <2>a. initialized' = TRUE /\ At' = "idle"
      BY <1>5, <2>1 DEF At, CreateQueues
    <2>3. Typed'
      BY <1>0, <1>1, <1>5, <2>1, <2>2, <2>a DEF Typed, Pcs
    <2>4. Life' /\ Memory'
      BY <1>0, <1>1, <1>2, <1>5, <2>1, <2>a DEF Life, Memory, Initing, Early, Creating, Leaving, Serving, IoKinds
    <2>5. Controller'
      BY <1>0, <1>1, <1>2, <1>5, <2>1, <2>2, <2>a DEF Controller, Early, Creating, Leaving
    <2>6. DmaSafe' /\ Quiet'
      BY <1>0, <1>1, <2>1, <2>2 DEF DmaSafe, Quiet
    <2> QED
      BY <2>3, <2>4, <2>5, <2>6, Zenon DEF LifeInv
  <1> QED
    BY <1>3, <1>4, <1>5, Zenon DEF CreateQueues, Creating

\* The controller is switched off again
LEMMA OutDisableKeeps ==
    ASSUME LifeInv, OutDisableCtrl
    PROVE  LifeInv'
  <1>0. Typed /\ Life /\ Memory /\ Controller /\ DmaSafe /\ dev \in DevType
    BY Zenon DEF LifeInv, Typed
  <1>1. /\ pc \in Leaving /\ pc' \in Leaving \cup {"out_shutdown"} /\ UNCHANGED <<kept, pend, ncmd>>
        /\ dev' = [dev EXCEPT !.shn = TRUE] \/ dev' = [dev EXCEPT !.en = FALSE] \/ dev' = dev
    BY DEF OutDisableCtrl, Leaving, kept, session, memory
  <1>2. /\ dev' \in DevType /\ dev'.run = dev.run /\ dev'.rdy = dev.rdy /\ dev'.boot = dev.boot
        /\ dev'.tcbs = dev.tcbs /\ dev'.asq = dev.asq /\ dev'.iocq = dev.iocq /\ dev'.iosq = dev.iosq
    BY <1>0, <1>1, Zenon DEF DevType
  <1>3. dev'.en => dev.en
    BY <1>0, <1>1, Zenon DEF DevType
  <1>4. Controller'
    BY <1>0, <1>1, <1>2, <1>3 DEF Controller, At, kept, Early, Creating, Leaving
  <1>5. DmaSafe'
    BY <1>0, <1>1, <1>2, <1>3 DEF DmaSafe, kept
  <1>6. pc # "idle" /\ pc' \in Pcs \ {"idle", "poll"} /\ At \in Initing /\ pc' \in Initing /\ pc' \notin Serving
    BY <1>1 DEF Pcs, At, Initing, Leaving, Serving, IoKinds
  <1> QED
    BY <1>1, <1>2, <1>4, <1>5, <1>6, GoesOn, Zenon

\* ANS after its reset
LEMMA OffFields ==
    /\ Off \in DevType /\ ~Off.run /\ ~Off.boot /\ ~Off.en /\ ~Off.rdy /\ Off.iocq = 0 /\ Off.iosq = 0
  <1>1. 0 \in Int
    OBVIOUS
  <1> QED
    BY <1>1, Zenon DEF Off, DevType

\* nvme_init fails, and the coprocessor may still use the queues
LEMMA PreserveKeeps ==
    ASSUME LifeInv, At \in {"out_shutdown", "out_rtkit"}, adopting \/ type = "t8132", reboot_required' = TRUE,
           UNCHANGED <<type, initialized, adopting, gen, alloced, ngen, pend, dev, ncmd>>, Return("init", FALSE)
    PROVE  LifeInv'
  <1>0. Typed /\ Life /\ Memory /\ Controller /\ DmaSafe
    BY Zenon DEF LifeInv
  <1>1. pc' = "idle" /\ ret' = [op |-> "init", ok |-> FALSE] /\ At' = "idle"
    BY DEF Return, At
  <1>2. type = "t8132" /\ ~initialized
    BY <1>0 DEF Life, Initing, Early
  <1>3. Typed'
    BY <1>0, <1>1 DEF Typed, Pcs
  <1>4. Life' /\ Memory'
    BY <1>0, <1>1, <1>2 DEF Life, Memory, Initing, Early, Creating, Leaving, Serving, IoKinds
  <1>5. Controller'
    BY <1>0, <1>1, <1>2 DEF Controller, Early, Creating, Leaving
  <1>6. DmaSafe' /\ Quiet'
    BY <1>0, <1>1 DEF DmaSafe, Quiet
  <1> QED
    BY <1>3, <1>4, <1>5, <1>6, Zenon DEF LifeInv

\* A session ends: the queues are freed, and the controller is off or was never on
LEMMA FreeKeeps ==
    ASSUME LifeInv, At # "idle", initialized' = FALSE, UNCHANGED <<type, adopting, ngen, ncmd>>,
           reboot_required' = FALSE, alloced' = alloced \ {gen}, gen' = 0, pc' = "idle",
           (dev' = Off /\ pend' = Nothing) \/ (~dev.en /\ ~dev.rdy /\ UNCHANGED <<dev, pend>>)
    PROVE  LifeInv'
  <1>0. Typed /\ Life /\ Memory /\ Controller /\ DmaSafe
    BY Zenon DEF LifeInv
  <1>1. At' = "idle"
    BY DEF At
  <1>2. /\ dev' \in DevType /\ ~dev'.en /\ ~dev'.rdy /\ pend' = Nothing /\ dev'.iocq = 0 /\ dev'.iosq = 0
        /\ dev'.boot => dev'.run
    BY <1>0, OffFields DEF Typed, Controller
  <1>3. Typed'
    <2>1. pend' \in [Queues -> SUBSET Command]
      BY <1>2, Zenon DEF Nothing
    <2>2. pc' \in Pcs /\ pc' # "poll" /\ FALSE \in BOOLEAN
      BY DEF Pcs
    <2>3. ngen \in 0..MaxInits /\ ngen' = ngen /\ alloced \subseteq 1..ngen
      BY <1>0, Zenon DEF Typed
    <2>4. 0 \in 0..ngen
      BY <2>3
    <2>5. gen' \in 0..ngen' /\ alloced' \subseteq 1..ngen'
      BY <2>3, <2>4, Zenon
    <2> QED
      BY <1>0, <1>2, <2>1, <2>2, <2>3, <2>5, Zenon DEF Typed
  <1>4. Life'
    BY <1>0, <1>1 DEF Life, Initing, Early, Creating, Leaving, Serving, IoKinds
  <1>5. Memory'
    <2>1. type = "t8103" => alloced = {gen}
      BY <1>0 DEF Memory, At
    <2> QED
      BY <1>1, <2>1 DEF Memory
  <1>6. Controller'
    BY <1>1, <1>2 DEF Controller, Early, Creating, Leaving, Nothing
  <1>7. DmaSafe' /\ Quiet'
    BY <1>2 DEF DmaSafe, Quiet
  <1> QED
    BY <1>3, <1>4, <1>5, <1>6, <1>7, Zenon DEF LifeInv

\* nvme_init fails
LEMMA OutKeeps ==
    ASSUME LifeInv, OutShutdown \/ OutRtkit, ~unreset'
    PROVE  LifeInv'
  <1>0. Typed /\ Life /\ Memory /\ Controller /\ DmaSafe
    BY Zenon DEF LifeInv
  <1>1. At = pc /\ pc \in {"out_shutdown", "out_rtkit"} /\ ~initialized /\ ~reboot_required
    BY <1>0, Zenon DEF OutShutdown, OutRtkit, At, Life, Initing, Early
  <1>2. /\ UNCHANGED <<type, initialized, adopting, ncmd>> /\ Return("init", FALSE)
        /\ pc' = "idle" /\ ret' = [op |-> "init", ok |-> FALSE]
    BY Zenon DEF OutShutdown, OutRtkit, Return
  <1>3. CASE OutShutdown
    <2>1. CASE adopting \/ (type = "t8132" /\ dev.run)
      <3>1. reboot_required' = TRUE /\ UNCHANGED <<gen, alloced, ngen, pend, dev>>
        BY <1>3, <2>1, Zenon DEF OutShutdown, memory, device
      <3> QED
        BY <1>1, <1>2, <2>1, <3>1, PreserveKeeps, Zenon
    <2>2. CASE ~(adopting \/ (type = "t8132" /\ dev.run))
      <3>1. type = "t8103"
        <4>1. dev.run
          BY <1>0, <1>1, <1>3 DEF Controller, OutShutdown
        <4> QED
          BY <1>0, <2>2, <4>1, Zenon DEF Typed
      <3>2. FreeQueues /\ Reset /\ reboot_required' = reboot_required
        BY <1>3, <2>2, <3>1, Zenon DEF OutShutdown
      <3>3. alloced' = alloced \ {gen} /\ gen' = 0 /\ ngen' = ngen /\ dev' = Off /\ pend' = Nothing
        BY <3>2, Zenon DEF FreeQueues, Reset, Nothing
      <3>4. reboot_required' = FALSE /\ initialized' = FALSE /\ At # "idle"
        BY <1>0, <1>1, <1>2, <3>2 DEF Typed
      <3> QED
        BY <1>2, <3>3, <3>4, FreeKeeps, Zenon
    <2> QED
      BY <2>1, <2>2, Zenon
  <1>4. CASE OutRtkit
    <2>1. CASE type = "t8132" /\ dev.run
      <3>1. reboot_required' = TRUE /\ UNCHANGED <<gen, alloced, ngen, pend, dev>>
        BY <1>4, <2>1, Zenon DEF OutRtkit, memory, device
      <3> QED
        BY <1>1, <1>2, <2>1, <3>1, PreserveKeeps, Zenon
    <2>2. CASE ~(type = "t8132" /\ dev.run)
      <3>1. ~dev.en /\ ~dev.rdy
        BY <1>0, <1>1, <1>4, <2>2 DEF Controller, OutRtkit, Typed, Early
      <3>2. FreeQueues /\ UNCHANGED <<dev, pend, reboot_required>>
        BY <1>4, <2>2, Zenon DEF OutRtkit, device
      <3>3. alloced' = alloced \ {gen} /\ gen' = 0 /\ ngen' = ngen
        BY <3>2, Zenon DEF FreeQueues
      <3>4. reboot_required' = FALSE /\ initialized' = FALSE /\ At # "idle"
        BY <1>0, <1>1, <1>2, <3>2 DEF Typed
      <3> QED
        BY <1>2, <3>1, <3>2, <3>3, <3>4, FreeKeeps, Zenon
    <2> QED
      BY <2>1, <2>2, Zenon
  <1> QED
    BY <1>3, <1>4, Zenon

\* nvme_init up to asc_init
LEMMA InitKeeps ==
    ASSUME Sane, LifeInv, nvme_init
    PROVE  LifeInv'
  <1>0. Typed /\ Life /\ Memory /\ Controller /\ DmaSafe
    BY Zenon DEF LifeInv
  <1>1. pc = "idle" /\ At = "idle" /\ UNCHANGED <<type, initialized, reboot_required, dev, pend, ncmd>>
    BY Zenon DEF nvme_init, At, session, device
  <1>2. CASE RefusesInit \/ initialized
    <2>1. pc' = "idle" /\ ret' = [op |-> "init", ok |-> ~RefusesInit] /\ UNCHANGED <<kept, pend, ncmd, dev>>
      BY <1>1, <1>2, Zenon DEF nvme_init, Return, kept, memory
    <2>2. ret'.op # "shutdown"
      BY <2>1
    <2> QED
      BY <1>1, <2>1, <2>2, JustReturns, Zenon
  <1>3. CASE ~RefusesInit /\ ~initialized
    <2>1. ~reboot_required /\ adopting' = (type = "t8132" /\ adopt_live_session)
      BY <1>3, Zenon DEF nvme_init, RefusesInit
    <2>2. CASE adopting' /\ ~(dev.run /\ dev.boot /\ ~dev.cfs)
      <3>1. pc' = "idle" /\ ret' = [op |-> "init", ok |-> FALSE] /\ gen' = 0 /\ UNCHANGED <<alloced, ngen>>
        BY <1>3, <2>2, Zenon DEF nvme_init, Return
      <3>2. type = "t8132" /\ At' = "idle"
        BY <2>1, <2>2, <3>1, Zenon DEF At
      <3>3. Typed'
        <4>1. ngen \in 0..MaxInits /\ ngen' = ngen /\ pc' \in Pcs /\ pc' # "poll"
          BY <1>0, <3>1 DEF Typed, Pcs
        <4>2. 0 \in 0..ngen
          BY <4>1
        <4> QED
          BY <1>0, <1>1, <2>1, <3>1, <4>1, <4>2, Zenon DEF Typed
      <3>4. Life' /\ Memory'
        BY <1>0, <1>1, <1>3, <2>1, <3>1, <3>2, SMTT(30) DEF Life, Memory, Initing, Early, Creating, Leaving, Serving, IoKinds
      <3>5. Controller'
        BY <1>0, <1>1, <1>3, <3>1, <3>2 DEF Controller, Early, Creating, Leaving
      <3>6. DmaSafe' /\ Quiet'
        BY <1>0, <1>1, <3>1 DEF DmaSafe, Quiet
      <3> QED
        BY <3>3, <3>4, <3>5, <3>6, Zenon DEF LifeInv
    <2>3. CASE ~(adopting' /\ ~(dev.run /\ dev.boot /\ ~dev.cfs))
      <3>1. /\ ngen < MaxInits /\ pc' = (IF adopting' THEN "setup" ELSE "rtkit_boot") /\ ngen' = ngen + 1
            /\ gen' = ngen + 1 /\ alloced' = alloced \cup {ngen + 1} /\ ret' = InCall
        BY <1>3, <2>3, Zenon DEF nvme_init
      <3>2. At' = pc' /\ pc' \in {"setup", "rtkit_boot"} /\ (pc' = "setup" => adopting' /\ dev.boot)
        BY <2>3, <3>1 DEF At
      <3>3. Typed'
        <4>1. ngen \in 0..MaxInits /\ MaxInits \in Nat /\ alloced \subseteq 1..ngen
          BY <1>0, Zenon DEF Typed, Sane
        <4>2. ngen' \in 0..MaxInits /\ gen' \in 0..ngen'
          BY <3>1, <4>1
        <4>3. alloced' \subseteq 1..ngen'
          <5>1. \A g \in 1..ngen : g \in 1..ngen + 1
            BY <4>1
          <5>2. ngen + 1 \in 1..ngen + 1
            BY <4>1
          <5> QED
            BY <3>1, <4>1, <5>1, <5>2, Zenon
        <4>4. pc' \in Pcs /\ pc' # "poll"
          BY <3>2 DEF Pcs
        <4> QED
          BY <1>0, <1>1, <2>1, <4>2, <4>3, <4>4, Zenon DEF Typed
      <3>4. Life'
        BY <1>0, <1>1, <1>3, <2>1, <3>2, Zenon DEF Life, Initing, Early, Serving, IoKinds
      <3>5. Memory'
        BY <1>0, <1>1, <1>3, <3>1, <3>2 DEF Memory
      <3>6. Controller'
        BY <1>0, <1>1, <1>3, <2>1, <3>1, <3>2 DEF Controller, Early, Creating, Leaving
      <3>7. DmaSafe' /\ Quiet'
        BY <1>0, <1>1, <3>1, <3>2 DEF DmaSafe, Quiet
      <3> QED
        BY <3>3, <3>4, <3>5, <3>6, <3>7, Zenon DEF LifeInv
    <2> QED
      BY <2>2, <2>3, Zenon
  <1> QED
    BY <1>2, <1>3, Zenon DEF nvme_init

\* nvme_shutdown begins
LEMMA ShutdownKeeps ==
    ASSUME LifeInv, NEW keep \in BOOLEAN, nvme_shutdown(keep)
    PROVE  LifeInv'
  <1>0. Typed /\ Life /\ Memory /\ Controller /\ DmaSafe
    BY Zenon DEF LifeInv
  <1>1. pc = "idle" /\ At = "idle" /\ UNCHANGED <<type, gen, alloced, ngen, adopting, dev>>
    BY Zenon DEF nvme_shutdown, At, memory
  <1>2. CASE reboot_required \/ ~initialized
    <2>1. pc' = "idle" /\ ret' = [op |-> "none", ok |-> ~reboot_required] /\ UNCHANGED <<kept, pend, ncmd, dev>>
      BY <1>1, <1>2, Zenon DEF nvme_shutdown, Return, kept, session
    <2>2. ret'.op # "shutdown"
      BY <2>1
    <2> QED
      BY <1>1, <2>1, <2>2, JustReturns, Zenon
  <1>3. CASE ~reboot_required /\ initialized /\ type = "t8132" /\ keep
    <2>0. /\ pc' = "idle" /\ (\E r : ret' = [op |-> "handoff", ok |-> r]) /\ (\E r : initialized' = ~r)
          /\ UNCHANGED <<reboot_required, pend, ncmd>>
      BY <1>3, Zenon DEF nvme_shutdown, Return
    <2>1. /\ pc' = "idle" /\ ret'.op # "shutdown" /\ initialized' \in BOOLEAN
          /\ UNCHANGED <<reboot_required, pend, ncmd>>
      BY <2>0
    <2>2. At' = "idle" /\ type' = "t8132"
      BY <1>1, <1>3, <2>1 DEF At
    <2>3. Typed'
      BY <1>0, <1>1, <2>1 DEF Typed, Pcs
    <2>4. Life' /\ Memory'
      BY <1>0, <1>1, <1>3, <2>1, <2>2 DEF Life, Memory, Initing, Early, Creating, Leaving, Serving, IoKinds
    <2>5. Controller'
      BY <1>0, <1>1, <1>3, <2>1, <2>2 DEF Controller, Early, Creating, Leaving
    <2>6. DmaSafe' /\ Quiet'
      BY <1>0, <1>1, <2>1 DEF DmaSafe, Quiet
    <2> QED
      BY <2>3, <2>4, <2>5, <2>6, Zenon DEF LifeInv
  <1>4. CASE ~reboot_required /\ initialized /\ ~(type = "t8132" /\ keep)
    <2>1. Issue("admin", "delete_sq", 0, 0) /\ UNCHANGED <<kept, dev>>
      BY <1>1, <1>4, Zenon DEF nvme_shutdown, kept, session
    <2>2. /\ "delete_sq" \in Kinds /\ QueueOf("delete_sq") = "admin" /\ "delete_sq" \notin Initing /\ 0 \in Int
      BY DEF Kinds, AdminKinds, QueueOf, Initing, Early, Creating, Leaving
    <2> QED
      BY <1>4, <2>1, <2>2, IssueKeeps, Zenon
  <1> QED
    BY <1>2, <1>3, <1>4, Zenon

\* ... and goes on
LEMMA ShutdownStepKeeps ==
    ASSUME LifeInv, ShutdownStep
    PROVE  LifeInv'
  <1>0. Typed /\ Life /\ Memory /\ Controller /\ DmaSafe /\ dev \in DevType
    BY Zenon DEF LifeInv, Typed
  <1>1. UNCHANGED kept
    BY DEF ShutdownStep, kept, session, memory
  <1>2. At = pc /\ pc # "idle" /\ initialized /\ At \notin Initing /\ At \in Serving
    BY <1>0 DEF ShutdownStep, At, Life, Serving, Initing, Early, Creating, Leaving
  <1>3. CASE pc = "delete_sq"
    <2>1. Issue("admin", "delete_cq", 0, 0) /\ UNCHANGED <<kept, dev>>
      BY <1>1, <1>3 DEF ShutdownStep
    <2>2. "delete_cq" \in Kinds /\ QueueOf("delete_cq") = "admin" /\ "delete_cq" \notin Initing /\ 0 \in Int
      BY DEF Kinds, AdminKinds, QueueOf, Initing, Early, Creating, Leaving
    <2> QED
      BY <1>2, <2>1, <2>2, IssueKeeps, Zenon
  <1>4. CASE pc # "delete_sq"
    <2>1. /\ pc' \in {"wait_shutdown", "wait_off"} /\ UNCHANGED <<pend, ncmd>>
          /\ \/ pc' # "wait_off" /\ dev' = [dev EXCEPT !.shn = TRUE]
             \/ dev' = [dev EXCEPT !.ioreg = IF type = "t8132" THEN 0 ELSE @, !.en = FALSE]
      BY <1>4 DEF ShutdownStep
    <2>2. /\ dev' \in DevType /\ dev'.run = dev.run /\ dev'.rdy = dev.rdy /\ dev'.boot = dev.boot
          /\ dev'.tcbs = dev.tcbs /\ dev'.asq = dev.asq /\ dev'.iocq = dev.iocq /\ dev'.iosq = dev.iosq
          /\ (dev'.en => dev.en) /\ (pc' = "wait_off" => ~dev'.en)
      <3>1. CASE pc' # "wait_off" /\ dev' = [dev EXCEPT !.shn = TRUE]
        BY <1>0, <3>1, Zenon DEF DevType
      <3>2. CASE dev' = [dev EXCEPT !.ioreg = IF type = "t8132" THEN 0 ELSE @, !.en = FALSE]
        <4>1. PICK r \in Int : r = IF type = "t8132" THEN 0 ELSE dev.ioreg
          BY <1>0 DEF DevType
        <4>2. dev' = [dev EXCEPT !.ioreg = r, !.en = FALSE]
          BY <3>2, <4>1
        <4> QED
          BY <1>0, <4>1, <4>2, Zenon DEF DevType
      <3> QED
        BY <2>1, <3>1, <3>2, Zenon
    <2>4. Controller'
      BY <1>0, <1>1, <1>2, <2>1, <2>2 DEF Controller, At, kept, Early, Creating, Leaving
    <2>5. DmaSafe'
      BY <1>0, <1>1, <2>2 DEF DmaSafe, kept
    <2>6. pc' \in Pcs \ {"idle", "poll"} /\ pc' \notin Initing
      BY <2>1 DEF Pcs, Initing, Early, Creating, Leaving
    <2> QED
      BY <1>1, <1>2, <2>1, <2>2, <2>4, <2>5, <2>6, GoesOn, Zenon
  <1> QED
    BY <1>3, <1>4, Zenon

\* ... and ends
LEMMA ShutdownEndKeeps ==
    ASSUME LifeInv, ShutdownEnd, ~unreset'
    PROVE  LifeInv'
  <1>0. Typed /\ Life /\ Memory /\ Controller /\ DmaSafe
    BY ZenonT(30) DEF LifeInv
  <1>1. pc = "wait_off" /\ At = "wait_off" /\ ~dev.en /\ initialized /\ ~reboot_required
    BY <1>0 DEF ShutdownEnd, At, Controller, Life, Serving
  <1>2. UNCHANGED <<type, reboot_required, adopting, ncmd>>
    BY Zenon DEF ShutdownEnd
  <1>3. CASE type = "t8132"
    <2>1. /\ pc' = "idle" /\ ret' = [op |-> "shutdown", ok |-> ~dev.rdy] /\ initialized' = ~~dev.rdy
          /\ UNCHANGED <<gen, alloced, ngen, dev, pend>>
      BY <1>3, Zenon DEF ShutdownEnd, Return, CtrlDisabled, memory, device
    <2>2. At' = "idle" /\ initialized' \in BOOLEAN
      BY <2>1, SMTT(30) DEF At
    <2>3. Typed'
      BY <1>0, <1>2, <2>1, <2>2 DEF Typed, Pcs
    <2>4. Life' /\ Memory'
      BY <1>0, <1>1, <1>2, <1>3, <2>1, <2>2 DEF Life, Memory, Initing, Early, Creating, Leaving, Serving, IoKinds
    <2>5. Controller'
      BY <1>0, <1>1, <1>2, <1>3, <2>1, <2>2 DEF Controller, Early, Creating, Leaving
    <2>6. DmaSafe'
      BY <1>0, <2>1 DEF DmaSafe
    <2>7. Quiet'
      BY <1>1, <2>1, Zenon DEF Quiet
    <2> QED
      BY <2>3, <2>4, <2>5, <2>6, <2>7, Zenon DEF LifeInv
  <1>4. CASE type # "t8132"
    <2>1. /\ dev' = Off /\ pend' = Nothing /\ alloced' = alloced \ {gen} /\ gen' = 0 /\ ngen' = ngen
          /\ initialized' = FALSE /\ pc' = "idle"
      BY <1>4, Zenon DEF ShutdownEnd, Return, Reset, FreeQueues, Nothing
    <2>2. reboot_required' = FALSE /\ At # "idle"
      BY <1>0, <1>1, <1>2 DEF Typed
    <2> QED
      BY <1>2, <2>1, <2>2, FreeKeeps, Zenon
  <1> QED
    BY <1>3, <1>4, Zenon

\* A command is answered, or given up
LEMMA PollKeeps ==
    ASSUME LifeInv, ExecComplete \/ ExecTimeout
    PROVE  LifeInv'
  <1>0. Typed /\ Life /\ Memory /\ Controller /\ DmaSafe /\ dev \in DevType
    BY Zenon DEF LifeInv, Typed
  <1>1. pc = "poll" /\ pc' = cmd.c.kind /\ UNCHANGED <<kept, pend, ncmd, dev>>
    BY Zenon DEF ExecComplete, ExecTimeout, kept, session, memory, device
  <1>2. pc' \in Kinds
    <2>1. cmd.c \in Command
      BY <1>0, <1>1, Zenon DEF Typed
    <2> QED
      BY <1>1, <2>1 DEF Command
  <1>3. pc' \in Pcs \ {"idle", "poll"} /\ pc # "idle" /\ pc' \notin Early \cup Leaving
    BY <1>1, <1>2 DEF Pcs, Kinds, AdminKinds, IoKinds, Early, Leaving
  <1>4. At = pc' /\ At' = pc'
    BY <1>1, <1>3, Zenon DEF At
  <1>5. Controller'
    BY <1>0, <1>1, <1>3, <1>4 DEF Controller, kept
  <1>6. DmaSafe'
    BY <1>0, <1>1 DEF DmaSafe, kept
  <1> QED
    BY <1>0, <1>1, <1>3, <1>4, <1>5, <1>6, GoesOn, Zenon

\* The commands of nvme_flush and nvme_read_blocks
LEMMA ServeKeeps ==
    ASSUME LifeInv, initialized, UNCHANGED <<kept, dev>>, NEW kind \in IoKinds, NEW lba \in Int, NEW n \in Int,
           Issue("io", kind, lba, n)
    PROVE  LifeInv'
  <1>1. kind \in Kinds /\ QueueOf(kind) = "io" /\ kind \notin Initing
    BY DEF Kinds, AdminKinds, IoKinds, QueueOf, Initing, Early, Creating, Leaving
  <1> QED
    BY <1>1, IssueKeeps, Zenon

\* nvme_flush
LEMMA FlushKeeps ==
    ASSUME LifeInv, nvme_flush
    PROVE  LifeInv'
  <1>1. UNCHANGED <<kept, dev>>
    BY Zenon DEF nvme_flush, kept, session, memory
  <1>2. CASE Issue("io", "flush", 0, 0) /\ initialized
    <2>1. "flush" \in IoKinds /\ 0 \in Int
      BY DEF IoKinds
    <2> QED
      BY <1>1, <1>2, <2>1, ServeKeeps, Zenon
  <1>3. CASE ~(Issue("io", "flush", 0, 0) /\ initialized)
    <2>1. /\ pc' = "idle" /\ (\E r : ret' = [op |-> "flush", ok |-> r]) /\ UNCHANGED <<pend, ncmd>>
          /\ pc \in {"idle", "flush"}
      BY <1>3, Zenon DEF nvme_flush, Return
    <2>2. ret'.op # "shutdown"
      BY <2>1
    <2>3. pc = "idle" \/ initialized
      BY <2>1 DEF LifeInv, Life, At, Serving, IoKinds
    <2> QED
      BY <1>1, <2>1, <2>2, <2>3, JustReturns, Zenon
  <1> QED
    BY <1>2, <1>3, Zenon

\* nvme_read_blocks
LEMMA ReadReturns ==
    ASSUME LifeInv, UNCHANGED <<kept, dev, pend, ncmd>>, pc \in Reading \cup {"idle"}, NEW r, Return("read", r)
    PROVE  LifeInv'
  <1>1. pc' = "idle" /\ ret' = [op |-> "read", ok |-> r]
    BY Zenon DEF Return
  <1>2. ret'.op # "shutdown"
    BY <1>1
  <1>3. pc = "idle" \/ initialized
    BY DEF LifeInv, Life, At, Serving, IoKinds, Reading
  <1> QED
    BY <1>1, <1>2, <1>3, JustReturns, Zenon

\* ... at its start
LEMMA ReadKeeps ==
    ASSUME Sane, LifeInv, NEW lba \in Lbas, NEW n \in 1..MaxCount, NEW mem \in BOOLEAN, nvme_read_blocks(lba, n, mem)
    PROVE  LifeInv'
  <1>1. UNCHANGED <<kept, dev>> /\ pc = "idle"
    BY Zenon DEF nvme_read_blocks, kept, session, memory
  <1>2. lba \in Int /\ n \in Int /\ 0 \in Int /\ {"multi", "single"} \subseteq IoKinds /\ pc \in Reading \cup {"idle"}
    BY <1>1 DEF Sane, IoKinds
  <1>3. CASE ~initialized \/ q["io"].failed
    <2>1. Return("read", FALSE) /\ UNCHANGED <<pend, ncmd>>
      BY <1>3, Zenon DEF nvme_read_blocks
    <2> QED
      BY <1>1, <1>2, <2>1, ReadReturns, Zenon
  <1>4. CASE ~(~initialized \/ q["io"].failed)
    <2>1. Issue("io", "multi", lba, n) \/ Issue("io", "single", lba, 0)
      BY <1>4, Zenon DEF nvme_read_blocks
    <2> QED
      BY <1>1, <1>2, <1>4, <2>1, ServeKeeps, Zenon
  <1> QED
    BY <1>3, <1>4, Zenon

\* ... after the blocks, or after a read that verifies them
LEMMA ReadMultiKeeps ==
    ASSUME LifeInv, req \in Request, ReadMulti
    PROVE  LifeInv'
  <1>1. UNCHANGED <<kept, dev>>
    BY Zenon DEF ReadMulti, kept, session, memory
  <1>2. pc \in {"multi", "verify"}
    BY Zenon DEF ReadMulti
  <1>3. initialized /\ pc \in Reading \cup {"idle"}
    BY <1>2 DEF LifeInv, Life, At, Serving, IoKinds, Reading
  <1>4. /\ req.lba \in Int /\ req.lba + Compared(0) \in Int /\ req.lba + Compared(1) \in Int /\ 0 \in Int
        /\ {"verify", "single"} \subseteq IoKinds
    BY DEF Request, Compared, IoKinds
  <1>5. \/ (\E r : Return("read", r)) /\ UNCHANGED <<pend, ncmd>>
        \/ \E i \in {0, 1} : Issue("io", "verify", req.lba + Compared(i), 0)
        \/ Issue("io", "single", req.lba, 0)
    BY Zenon DEF ReadMulti, VerifyRead
  <1>6. CASE (\E r : Return("read", r)) /\ UNCHANGED <<pend, ncmd>>
    BY <1>1, <1>3, <1>6, ReadReturns, Zenon
  <1>7. CASE (\E i \in {0, 1} : Issue("io", "verify", req.lba + Compared(i), 0)) \/ Issue("io", "single", req.lba, 0)
    BY <1>1, <1>3, <1>4, <1>7, ServeKeeps, Zenon
  <1> QED
    BY <1>5, <1>6, <1>7, Zenon

\* ... after a single block
LEMMA ReadSingleKeeps ==
    ASSUME LifeInv, req \in Request, ReadSingle
    PROVE  LifeInv'
  <1>1. UNCHANGED <<kept, dev>> /\ pc = "single"
    BY Zenon DEF ReadSingle, kept, session, memory
  <1>2. initialized /\ pc \in Reading \cup {"idle"}
    BY <1>1 DEF LifeInv, Life, At, Serving, IoKinds, Reading
  <1>3. req.lba + req.i + 1 \in Int /\ req.i + 1 \in Int /\ "single" \in IoKinds
    BY DEF Request, IoKinds
  <1>4. \/ Return("read", ok) /\ UNCHANGED <<pend, ncmd>>
        \/ Issue("io", "single", req.lba + req.i + 1, req.i + 1)
    BY Zenon DEF ReadSingle
  <1> QED
    BY <1>1, <1>2, <1>3, <1>4, ReadReturns, ServeKeeps, Zenon

\* The arguments of a read are numbers
LEMMA RequestStep ==
    ASSUME Sane, req \in Request, [Next]_vars
    PROVE  req' \in Request
  <1>1. NoReq \in Request
    BY DEF NoReq, Request
  <1>2. ASSUME NEW lba \in Lbas, NEW n \in 1..MaxCount, req' = [lba |-> lba, n |-> n, i |-> 0]
        PROVE  req' \in Request
    BY <1>2 DEF Sane, Request
  <1>3. \A i \in Nat : [req EXCEPT !.i = i] \in Request
    BY Zenon DEF Request
  <1>4. req.i + 1 \in Nat /\ 0 \in Nat /\ 1 \in Nat
    BY DEF Request
  <1>5. CASE UNCHANGED req
    BY <1>5
  <1>6. CASE Device
    <2>1. DevBoot \/ DevReady \/ DevShutdown \/ DevFatal => UNCHANGED req
      BY Zenon DEF DevBoot, DevReady, DevShutdown, DevFatal, reading
    <2>2. ASSUME NEW x \in Queues, NEW c \in pend[x], NEW good \in BOOLEAN, NEW tag \in {0, 1},
                 DevExecute(x, c, good, tag)
          PROVE  UNCHANGED req
      BY <2>2, ExecuteLeaves, Zenon
    <2> QED
      BY <1>5, <1>6, <2>1, <2>2, Zenon DEF Device
  <1>7. CASE ReadMulti
    BY <1>3, <1>4, <1>5, <1>7, Zenon DEF ReadMulti, VerifyRead
  <1>8. CASE ReadSingle
    BY <1>3, <1>4, <1>5, <1>8, Zenon DEF ReadSingle
  <1>9. ASSUME NEW lba \in Lbas, NEW n \in 1..MaxCount, NEW mem \in BOOLEAN, nvme_read_blocks(lba, n, mem)
        PROVE  req' \in Request
    BY <1>2, <1>9, Zenon DEF nvme_read_blocks
  <1>10. CASE nvme_init
    BY <1>1, <1>10, Zenon DEF nvme_init
  <1>11. CASE UNCHANGED vars
    BY <1>5, <1>11, Zenon DEF vars, reading
  <1>12. CASE ExecComplete \/ ExecTimeout \/ nvme_flush \/ ShutdownStep \/ ShutdownEnd
              \/ \E keep \in BOOLEAN : nvme_shutdown(keep)
    BY <1>5, <1>12, Zenon DEF ExecComplete, ExecTimeout, nvme_flush, ShutdownStep, ShutdownEnd, nvme_shutdown, reading
  <1>13. CASE BootStatus \/ SetupController \/ SetupAdminQueue \/ CreateQueues \/ OutDisableCtrl \/ OutShutdown
              \/ OutRtkit \/ \E good \in BOOLEAN : RtkitBoot(good)
    BY <1>5, <1>13, Zenon DEF BootStatus, SetupController, SetupAdminQueue, CreateQueues, OutDisableCtrl, OutShutdown,
                             OutRtkit, RtkitBoot, reading
  <1> QED
    BY <1>6, <1>7, <1>8, <1>9, <1>10, <1>11, <1>12, <1>13, Zenon DEF Next, Driver

\* LifeInv is inductive as long as every reset works
LEMMA LifeStep ==
    ASSUME Sane, LifeInv, req \in Request, [Next]_vars, ~unreset'
    PROVE  LifeInv'
  <1>1. CASE Device
    BY <1>1, DevFlagKeeps, DevReadyKeeps, DevShutdownKeeps, ExecuteKeeps, Zenon DEF Device
  <1>2. CASE Driver
    BY <1>2, PollKeeps, InitKeeps, WakeKeeps, SetupKeeps, CreateKeeps, OutDisableKeeps, OutKeeps, ShutdownKeeps,
       ShutdownStepKeeps, ShutdownEndKeeps, FlushKeeps, ReadKeeps, ReadMultiKeeps, ReadSingleKeeps, Zenon DEF Driver
  <1>3. CASE UNCHANGED vars
    <2>1. UNCHANGED <<calls, dev, pend>>
      BY <1>3, Zenon DEF vars, calls, session, memory, locals, device
    <2>2. dev \in DevType /\ pend \in [Queues -> SUBSET Command] /\ Controller
      BY Zenon DEF LifeInv, Typed
    <2> QED
      BY <2>1, <2>2, DeviceKeeps, Zenon DEF Controller
  <1> QED
    BY <1>1, <1>2, <1>3, Zenon DEF Next

\* ... and true at the start
LEMMA LifeInit ==
    ASSUME Sane, Init
    PROVE  LifeInv /\ req \in Request
  <1>1. /\ dev \in DevType /\ (dev.boot => dev.run) /\ (dev.en \/ dev.rdy => dev.boot /\ type = "t8132")
        /\ dev.asq \in {0, Foreign} /\ dev.tcbs \in {0, Foreign}
        /\ dev.iocq \in {0, Foreign} /\ dev.iosq \in {0, Foreign}
        /\ ~dev.rdy => dev.iocq = 0 /\ dev.iosq = 0
    <2>1. Off \in DevType /\ Foreign \in Int
      BY OffFields DEF Foreign
    <2>2. CASE dev = Off
      BY <2>1, <2>2, Zenon DEF Off
    <2>3. CASE dev = [Off EXCEPT !.run = TRUE, !.boot = TRUE]
      <3>1. dev \in DevType /\ dev.run /\ dev.boot
        BY <2>1, <2>3, Zenon DEF DevType
      <3>2. ~dev.en /\ ~dev.rdy /\ dev.asq = 0 /\ dev.tcbs = 0 /\ dev.iocq = 0 /\ dev.iosq = 0
        BY <2>3, Zenon DEF Off
      <3> QED
        BY <3>1, <3>2, Zenon
    <2>4. CASE /\ type = "t8132"
               /\ dev = [Off EXCEPT !.run = TRUE, !.boot = TRUE, !.en = TRUE, !.rdy = TRUE, !.tcbs = Foreign,
                                    !.asq = Foreign, !.iocq = Foreign, !.iosq = Foreign]
      <3>1. dev \in DevType /\ dev.run /\ dev.boot
        BY <2>1, <2>4, Zenon DEF DevType
      <3>2. dev.rdy /\ dev.asq = Foreign /\ dev.tcbs = Foreign /\ dev.iocq = Foreign /\ dev.iosq = Foreign
        BY <2>4, Zenon DEF Off
      <3> QED
        BY <2>4, <3>1, <3>2, Zenon
    <2> QED
      BY <2>2, <2>3, <2>4, Zenon DEF Init, HandedOver
  <1>2. Typed
    <2>1. type \in {"t8103", "t8132"} /\ pend \in [Queues -> SUBSET Command]
      BY Zenon DEF Init, Sane
    <2>2. pc \in Pcs /\ pc # "poll"
      BY DEF Init, Pcs
    <2>3. ngen \in 0..MaxInits /\ gen \in 0..ngen /\ alloced \subseteq 1..ngen /\ ncmd \in Nat
      BY DEF Init, Sane
    <2>4. initialized \in BOOLEAN /\ reboot_required \in BOOLEAN /\ adopting \in BOOLEAN
      BY Zenon DEF Init
    <2> QED
      BY <1>1, <2>1, <2>2, <2>3, <2>4, Zenon DEF Typed
  <1>3. At = "idle" /\ pend = Nothing
    BY Zenon DEF Init, At, Nothing
  <1>4. Life /\ Memory
    BY <1>3 DEF Init, Life, Memory, Initing, Early, Creating, Leaving, Serving, IoKinds
  <1>5. Controller
    BY <1>1, <1>3 DEF Init, Controller, Early, Creating, Leaving, Nothing
  <1>6. DmaSafe /\ Quiet
    BY <1>1 DEF Init, DmaSafe, Quiet, InCall
  <1>7. req \in Request
    BY DEF Init, NoReq, Request
  <1> QED
    BY <1>2, <1>4, <1>5, <1>6, <1>7, Zenon DEF LifeInv

\* The older controllers are never adopted or preserved, and only they are reset
Elder == /\ type # "t8132" => ~adopting /\ ~reboot_required
         /\ unreset => type # "t8132"

\* ... which stays so, as does a failed reset
LEMMA ElderStep ==
    ASSUME Elder, [Next]_vars
    PROVE  Elder' /\ (unreset => unreset')
  <1>0. CASE UNCHANGED <<type, adopting, reboot_required, unreset>>
    BY <1>0, Zenon DEF Elder
  <1>1. ASSUME NEW x, NEW c, NEW good, NEW tag, DevExecute(x, c, good, tag)
        PROVE  UNCHANGED <<type, adopting, reboot_required, unreset>>
    BY <1>1, Zenon DEF DevExecute, session, locals
  <1>2. DevBoot \/ DevReady \/ DevShutdown \/ DevFatal => UNCHANGED <<type, adopting, reboot_required, unreset>>
    BY Zenon DEF DevBoot, DevReady, DevShutdown, DevFatal, session, locals
  <1>3. nvme_init => Elder' /\ (unreset => unreset')
    <2>1. nvme_init => UNCHANGED <<type, reboot_required, unreset>> /\ (adopting' = adopting \/ adopting' = (type = "t8132" /\ adopt_live_session))
      BY Zenon DEF nvme_init, session, device
    <2> QED
      BY <2>1, Zenon DEF Elder
  <1>4. OutShutdown => Elder' /\ (unreset => unreset')
    <2>1. OutShutdown => UNCHANGED <<type, adopting>>
      BY Zenon DEF OutShutdown
    <2>2. OutShutdown => (reboot_required' = reboot_required \/ adopting \/ type = "t8132") /\ (unreset' = unreset \/ (unreset' = TRUE /\ type = "t8103"))
      BY Zenon DEF OutShutdown, Reset, device
    <2>3. "t8103" # "t8132"
      OBVIOUS
    <2> QED
      BY <2>1, <2>2, <2>3, Zenon DEF Elder
  <1>5. OutRtkit => Elder' /\ (unreset => unreset')
    <2>1. OutRtkit => UNCHANGED <<type, adopting, unreset>> /\ (reboot_required' = reboot_required \/ type = "t8132")
      BY Zenon DEF OutRtkit, device
    <2> QED
      BY <2>1, Zenon DEF Elder
  <1>6. ShutdownEnd => Elder' /\ (unreset => unreset')
    <2>1. ShutdownEnd => UNCHANGED <<type, adopting, reboot_required>> /\ (unreset' = unreset \/ (unreset' = TRUE /\ type # "t8132"))
      BY Zenon DEF ShutdownEnd, Reset, device
    <2> QED
      BY <2>1, Zenon DEF Elder
  <1>7. ExecComplete \/ ExecTimeout \/ (\E good \in BOOLEAN : RtkitBoot(good)) \/ BootStatus \/ SetupController \/ SetupAdminQueue
        => UNCHANGED <<type, adopting, reboot_required, unreset>>
    BY Zenon DEF ExecComplete, ExecTimeout, RtkitBoot, BootStatus, SetupController, SetupAdminQueue, session, device
  <1>8. CreateQueues \/ OutDisableCtrl \/ (\E keep \in BOOLEAN : nvme_shutdown(keep)) \/ ShutdownStep
        => UNCHANGED <<type, adopting, reboot_required, unreset>>
    BY Zenon DEF CreateQueues, OutDisableCtrl, nvme_shutdown, ShutdownStep, session
  <1>9. nvme_flush \/ (\E lba \in Lbas, n \in 1..MaxCount, mem \in BOOLEAN : nvme_read_blocks(lba, n, mem)) \/ ReadMulti \/ ReadSingle
        => UNCHANGED <<type, adopting, reboot_required, unreset>>
    BY Zenon DEF nvme_flush, nvme_read_blocks, ReadMulti, ReadSingle, session
  <1>10. UNCHANGED vars => UNCHANGED <<type, adopting, reboot_required, unreset>>
    BY Zenon DEF vars, session, locals, device
  <1>11. Device => Elder' /\ (unreset => unreset')
    BY <1>0, <1>1, <1>2, Zenon DEF Device
  <1>12. Driver => Elder' /\ (unreset => unreset')
    BY <1>0, <1>3, <1>4, <1>5, <1>6, <1>7, <1>8, <1>9, Zenon DEF Driver
  <1> QED
    BY <1>0, <1>10, <1>11, <1>12, Zenon DEF Next

\* ... and true at the start
LEMMA ElderInit ==
    ASSUME Init
    PROVE  Elder /\ ~unreset
  BY Zenon DEF Init, Elder

-----------------------------------------------------------------------------
(* What follows for the memory of the queues                               *)

\* For any queues, reads, sessions and faults, as long as no reset of ANS has failed: while the controller is
\* enabled or ready every queue it was given is allocated, the older controllers give all of it back, and a
\* controller that was shut down holds no command (nvme_init with its error paths, nvme_shutdown)
THEOREM MemoryTheorem ==
    ASSUME Sane
    PROVE  Spec => [](unreset \/ (DmaSafe /\ NoLeak /\ QuietAfterShutdown))
  <1> DEFINE Inv == Elder /\ (unreset \/ (LifeInv /\ req \in Request))
  <1>1. Init => Inv
    BY LifeInit, ElderInit, Zenon
  <1>2. Inv /\ [Next]_vars => Inv'
    BY LifeStep, RequestStep, ElderStep, Zenon
  <1>3. Inv => unreset \/ (DmaSafe /\ NoLeak /\ QuietAfterShutdown)
    <2>1. LifeInv => DmaSafe
      BY Zenon DEF LifeInv
    <2>2. LifeInv => NoLeak
      BY Zenon DEF LifeInv, Memory, NoLeak
    <2>3. LifeInv => QuietAfterShutdown
      BY Zenon DEF LifeInv, Quiet, Controller, Nothing, QuietAfterShutdown
    <2> QED
      BY <2>1, <2>2, <2>3, Zenon
  <1> QED
    BY <1>1, <1>2, <1>3, PTL DEF Spec

\* The registers the driver writes
Driven(d) == <<d.en, d.shn, d.tcbs, d.asq, d.ioreg>>

\* The controller does not write them
LEMMA DeviceDrives ==
    ASSUME LifeInv, Device
    PROVE  Driven(dev)' = Driven(dev)
  <1>0. dev \in DevType
    BY Zenon DEF LifeInv, Typed
  <1>1. CASE DevBoot \/ DevFatal
    <2>1. dev' = [dev EXCEPT !.boot = TRUE] \/ dev' = [dev EXCEPT !.cfs = TRUE]
      BY <1>1, Zenon DEF DevBoot, DevFatal
    <2> QED
      BY <1>0, <2>1, Zenon DEF DevType, Driven
  <1>2. CASE DevReady
    <2>1. \/ dev' = [dev EXCEPT !.rdy = TRUE, !.shst = FALSE]
          \/ dev' = [dev EXCEPT !.rdy = FALSE, !.iocq = 0, !.iosq = 0]
      BY <1>2, Zenon DEF DevReady
    <2> QED
      BY <1>0, <2>1, Zenon DEF DevType, Driven
  <1>3. CASE DevShutdown
    <2>1. dev' = [dev EXCEPT !.shst = TRUE]
      BY <1>3, Zenon DEF DevShutdown
    <2> QED
      BY <1>0, <2>1, Zenon DEF DevType, Driven
  <1>4. ASSUME NEW x, NEW c, NEW good, NEW tag, DevExecute(x, c, good, tag)
        PROVE  Driven(dev)' = Driven(dev)
    <2>1. dev' = dev \/ \E g : dev' = [dev EXCEPT !.iocq = g] \/ dev' = [dev EXCEPT !.iosq = g]
      BY <1>4, Zenon DEF DevExecute
    <2> QED
      BY <1>0, <2>1, Zenon DEF DevType, Driven
  <1> QED
    BY <1>1, <1>2, <1>3, <1>4, Zenon DEF Device

\* Once nvme_init has failed with ANS running, no call touches the controller or the queues it keeps
\* (nvme_reboot_required in nvme_init and nvme_shutdown)
THEOREM PreservedTheorem ==
    ASSUME Sane
    PROVE  Spec => [][Preserved]_vars
  <1> DEFINE Inv == Elder /\ (unreset \/ (LifeInv /\ req \in Request))
  <1>1. Init => Inv
    BY LifeInit, ElderInit, Zenon
  <1>2. Inv /\ [Next]_vars => Inv'
    BY LifeStep, RequestStep, ElderStep, Zenon
  <1>3. LifeInv /\ Next => Preserved
    <2> SUFFICES ASSUME LifeInv, Next, reboot_required
                 PROVE  /\ reboot_required' /\ ~initialized' /\ gen' = gen /\ alloced' = alloced
                        /\ Driven(dev)' = Driven(dev)
      BY Zenon DEF Preserved, Driven
    <2>0. pc = "idle" /\ ~initialized
      <3>1. Typed /\ Life
        BY Zenon DEF LifeInv
      <3>2. ~initialized /\ At \notin Initing \cup Serving
        BY <3>1, Zenon DEF Life
      <3>3. pc # "poll"
        BY <3>1, <3>2 DEF Typed, At, Command, Kinds, AdminKinds, IoKinds, Initing, Serving, Creating
      <3> QED
        BY <3>1, <3>2, <3>3 DEF Typed, At, Pcs, Initing, Serving, Early, Creating, Leaving, IoKinds
    <2>1. CASE Device
      <3>1. UNCHANGED <<session, memory>>
        <4>1. DevBoot \/ DevReady \/ DevShutdown \/ DevFatal => UNCHANGED <<session, memory>>
          BY Zenon DEF DevBoot, DevReady, DevShutdown, DevFatal
        <4>2. ASSUME NEW x \in Queues, NEW c \in pend[x], NEW good \in BOOLEAN, NEW tag \in {0, 1},
                     DevExecute(x, c, good, tag)
              PROVE  UNCHANGED <<session, memory>>
          BY <4>2, ExecuteLeaves, Zenon
        <4> QED
          BY <2>1, <4>1, <4>2, Zenon DEF Device
      <3> QED
        BY <2>0, <2>1, <3>1, DeviceDrives, Zenon DEF session, memory
    <2>2. CASE Driver
      <3>1. CASE nvme_init
        BY <2>0, <3>1, Zenon DEF nvme_init, RefusesInit, session, memory, device, Driven
      <3>2. ASSUME NEW keep \in BOOLEAN, nvme_shutdown(keep)
            PROVE  UNCHANGED <<session, memory, dev>>
        BY <2>0, <3>2, Zenon DEF nvme_shutdown
      <3>3. CASE nvme_flush
        BY <2>0, <3>3, Zenon DEF nvme_flush, session, memory, Driven
      <3>4. ASSUME NEW lba, NEW n, NEW mem, nvme_read_blocks(lba, n, mem)
            PROVE  UNCHANGED <<session, memory, dev>>
        BY <3>4, Zenon DEF nvme_read_blocks
      <3>5. ~(ExecComplete \/ ExecTimeout \/ (\E good \in BOOLEAN : RtkitBoot(good)) \/ BootStatus \/ SetupController
              \/ SetupAdminQueue)
        BY <2>0 DEF ExecComplete, ExecTimeout, RtkitBoot, BootStatus, SetupController, SetupAdminQueue
      <3>6. ~(CreateQueues \/ OutDisableCtrl \/ OutShutdown \/ OutRtkit \/ ShutdownStep \/ ShutdownEnd \/ ReadMulti
              \/ ReadSingle)
        BY <2>0, Zenon DEF CreateQueues, OutDisableCtrl, OutShutdown, OutRtkit, ShutdownStep, ShutdownEnd, ReadMulti, ReadSingle
      <3> QED
        BY <2>0, <2>2, <3>1, <3>2, <3>3, <3>4, <3>5, <3>6, Zenon DEF Driver, session, memory, Driven
    <2> QED
      BY <2>1, <2>2, Zenon DEF Next
  <1>4. Elder /\ unreset => Preserved
    BY Zenon DEF Elder, Preserved
  <1>5. Inv /\ [Next]_vars => [Preserved]_vars
    BY <1>3, <1>4, Zenon
  <1> QED
    BY <1>1, <1>2, <1>5, PTL DEF Spec
-----------------------------------------------------------------------------
(* The steps as far as QueueInv is concerned                               *)

\* A step that leaves the queues alone, with no command in progress
LEMMA QueueRests ==
    ASSUME QueueInv, pc # "poll", pc' \in Pcs \ (Kinds \cup {"poll", "wait_enabled"}), cmd' \in {cmd, NoCmd},
           UNCHANGED <<gen, ngen, q, cqes, dq, pend>>, dev'.rdy = dev.rdy, dev'.asq = dev.asq,
           dev'.iocq = dev.iocq, dev'.en => dev.en, initialized' => Using, pc' \in Early => pc \in Early
    PROVE  QueueInv'
  <1>0. QueueTypes /\ Unused /\ Prepared /\ Known /\ Synced
    BY Zenon DEF QueueInv
  <1>1. At = pc /\ At' = pc' /\ (Using' => Using)
    BY DEF At, Using, Creating, Kinds, AdminKinds
  <1>2. Issued(cmd')
    BY <1>0 DEF QueueTypes, NoCmd, Issued
  <1>3. QueueTypes'
    BY <1>0, <1>2, Zenon DEF QueueTypes
  <1>4. Unused'
    BY <1>0, ZenonT(30) DEF Unused, Blank
  <1>5. Prepared'
    BY <1>0, <1>1 DEF Prepared, Blank
  <1>6. Known'
    BY <1>0, <1>1 DEF Known
  <1>7. Synced'
    BY <1>0, <1>1, Zenon DEF Synced, InStep, Waits, Taken, Old, Here
  <1>8. CompletionMatches'
    BY <1>2 DEF CompletionMatches, Pcs, Issued
  <1> QED
    BY <1>3, <1>4, <1>5, <1>6, <1>7, <1>8, Zenon DEF QueueInv

\* A session ends: nobody waits for a completion any more
LEMMA QueueEnds ==
    ASSUME pc' = "idle", ~initialized', QueueTypes', Unused'
    PROVE  QueueInv'
  <1>1. At' = "idle" /\ ~Using'
    BY DEF At, Using, Creating
  <1>2. Prepared' /\ Known' /\ Synced'
    BY <1>1 DEF Prepared, Known, Synced, Early
  <1>3. CompletionMatches'
    BY DEF QueueTypes, Issued, CompletionMatches, Kinds, AdminKinds, IoKinds
  <1> QED
    BY <1>2, <1>3, Zenon DEF QueueInv

\* A queue with all completions taken, and its next command
LEMMA QueueIssues ==
    ASSUME LifeInv, QueueTypes, Unused, Known', \A x \in Queues : ~q[x].failed => Taken(x) /\ pend[x] = {},
           NEW kind \in Kinds, NEW lba \in Int, NEW n \in Int, Issue(QueueOf(kind), kind, lba, n),
           UNCHANGED <<kept, queue, dev, dq>>
    PROVE  QueueInv'
  <1>a. /\ pc' \in {kind, "poll"} /\ At' = kind
        /\ pc' = "poll" => cmd'.c \in Command /\ cmd'.x = QueueOf(cmd'.c.kind) /\ cmd'.c.gen = gen
    BY IssueMoves, Zenon
  <1>b. pend \in [Queues -> SUBSET Command]
    BY Zenon DEF LifeInv, Typed
  <1>c. kind \notin Early \cup {"wait_enabled", "poll"}
    BY DEF Kinds, AdminKinds, IoKinds, Early
  <1>d. UNCHANGED <<gen, ngen, q, cqes>>
    BY Zenon DEF kept, queue
  <1> DEFINE x == QueueOf(kind)
             d == [kind |-> kind, id |-> ncmd + 1, gen |-> gen, lba |-> lba, n |-> n]
  <1>e. IF Refuses(x)
        THEN pc' = kind /\ ~ok' /\ cmd' = cmd /\ pend' = pend
        ELSE /\ pc' = "poll" /\ cmd' = [c |-> d, x |-> x, got |-> 0]
             /\ pend' = [pend EXCEPT ![x] = IF dev.rdy /\ ~dev.shst THEN @ \cup {d} ELSE @]
    BY Zenon DEF Issue
  <1> HIDE DEF d, x
  <1>f. x \in Queues /\ x = QueueOf(kind)
    BY SMTT(30) DEF x, QueueOf, Queues
  <1>g. ~Refuses(x) => cmd'.x = x /\ cmd'.c = d
    <2>1. ~Refuses(x) => cmd' = [c |-> d, x |-> x, got |-> 0]
      BY <1>e, Zenon
    <2> QED
      BY <2>1
  <1>h. \A y \in Queues : pend'[y] \subseteq pend[y] \cup {d} /\ (y # x \/ Refuses(x) => pend'[y] = pend[y])
    <2>1. CASE Refuses(x)
      BY <1>e, <2>1, Zenon
    <2>2. CASE ~Refuses(x)
      <3>1. pend' = [pend EXCEPT ![x] = IF dev.rdy /\ ~dev.shst THEN @ \cup {d} ELSE @]
        BY <1>e, <2>2, Zenon
      <3> QED
        BY <1>b, <2>2, <3>1
    <2> QED
      BY <2>1, <2>2, Zenon
  <1>1. Issued(cmd')
    <2>1. CASE Refuses(x)
      BY <1>e, <2>1, Zenon DEF QueueTypes
    <2>2. CASE ~Refuses(x)
      <3>1. cmd'.c \in Command
        BY <1>a, <1>e, <2>2, ZenonT(30)
      <3>2. cmd'.c.kind \in Kinds
        BY <3>1 DEF Command
      <3>3. cmd' = [c |-> d, x |-> x, got |-> 0]
        BY <1>e, <2>2, Zenon
      <3>4. cmd' = [c |-> cmd'.c, x |-> cmd'.x, got |-> cmd'.got]
        BY <3>3
      <3> QED
        BY <3>2, <3>4, Zenon DEF Issued
    <2> QED
      BY <2>1, <2>2, Zenon
  <1>2. QueueTypes'
    BY <1>1, <1>d, Zenon DEF QueueTypes
  <1>3. Unused'
    BY <1>d, Zenon DEF Unused, Blank
  <1>4. Prepared'
    BY <1>a, <1>c, Zenon DEF Prepared
  <1>5. ASSUME NEW y \in Queues, ~q'[y].failed
        PROVE  InStep(y)'
    <2>1. Taken(y) /\ pend[y] = {}
      BY <1>5, <1>d, Zenon
    <2>2. Taken(y)'
      BY <2>1, <1>d, Zenon DEF Taken, Old, Here
    <2>3. CASE Refuses(x) \/ y # x
      <3>1. pend'[y] = {} /\ (pc' = "poll" => cmd'.x = x)
        BY <1>c, <1>e, <1>g, <1>h, <2>1, <2>3, Zenon
      <3>2. ~Waits(y)'
        BY <1>c, <1>e, <1>f, <2>3, <3>1, Zenon DEF Waits
      <3> QED
        BY <2>2, <3>1, <3>2, Zenon DEF InStep
    <2>4. CASE ~Refuses(x) /\ y = x
      <3>1. pc' = "poll" /\ cmd'.x = x /\ cmd'.c = d
        BY <1>e, <1>g, <2>4, Zenon
      <3>2. pend'[y] \subseteq {d}
        BY <1>h, <2>1, Zenon
      <3> QED
        BY <2>2, <2>4, <3>1, <3>2, Zenon DEF InStep, Waits
    <2> QED
      BY <2>3, <2>4, Zenon
  <1>6. Synced'
    BY <1>5, Zenon DEF Synced
  <1>7. pc' = "poll" => ~q'[cmd'.x].failed
    <2>1. CASE Refuses(x)
      BY <1>c, <1>e, <2>1, Zenon
    <2>2. CASE ~Refuses(x)
      BY <1>d, <1>g, <2>2, Zenon DEF Refuses
    <2> QED
      BY <2>1, <2>2, Zenon
  <1>8. CompletionMatches'
    <2>1. CASE Refuses(x)
      BY <1>e, <2>1, Zenon DEF CompletionMatches
    <2>2. CASE ~Refuses(x)
      <3>1. pc' = "poll" /\ "poll" \notin Kinds \cup {"none"}
        BY <1>e, <2>2 DEF Kinds, AdminKinds, IoKinds
      <3> QED
        BY <1>1, <3>1, Zenon DEF CompletionMatches, Issued
    <2> QED
      BY <2>1, <2>2, Zenon
  <1> QED
    BY <1>2, <1>3, <1>4, <1>6, <1>7, <1>8, Zenon DEF QueueInv

\* ... in a session
LEMMA SessionIssues ==
    ASSUME LifeInv, QueueInv, Using, pc # "poll", NEW kind \in Kinds, NEW lba \in Int, NEW n \in Int,
           Issue(QueueOf(kind), kind, lba, n), UNCHANGED <<kept, queue, dev, dq>>
    PROVE  QueueInv'
  <1>0. QueueTypes /\ Unused /\ Known /\ Synced
    BY Zenon DEF QueueInv
  <1>1. \A x \in Queues : ~q[x].failed => Taken(x) /\ pend[x] = {}
    BY <1>0, Zenon DEF Synced, InStep, Waits
  <1>2. \A x \in Queues : \A c \in pend'[x] : c \in pend[x] \/ c.gen = gen
    BY IssueMoves, Zenon
  <1>3. Known'
    <2>1. gen' = gen
      BY Zenon DEF kept
    <2> QED
      BY <1>0, <1>2, <2>1, Zenon DEF Known
  <1> QED
    BY <1>0, <1>1, <1>3, QueueIssues, Zenon

\* The controller without executing a command
LEMMA QueueDevice ==
    ASSUME Sane, LifeInv, QueueInv, UNCHANGED <<pc, cmd, ok, initialized, gen, ngen, q, cqes>>, dev'.en = dev.en, dev'.asq = dev.asq,
           dev'.iocq \in {dev.iocq, 0}, pend = Nothing => pend' = Nothing,
           \A x \in Queues : pend'[x] \subseteq pend[x],
           \/ dq' = dq /\ dev'.rdy = dev.rdy
           \/ dq' = Start /\ dev'.rdy = dev.en /\ dev.rdy # dev.en /\ dev.rdy \in BOOLEAN /\ dev.en \in BOOLEAN
    PROVE  QueueInv'
  <1>0. QueueTypes /\ Unused /\ Prepared /\ Known /\ Synced
    BY Zenon DEF QueueInv
  <1>1. At' = At /\ Using' = Using
    BY Zenon DEF At, Using
  <1>2. QueueTypes'
    <2>1. Start \in [Queues -> [tail : Slots, phase : {0, 1}]]
      <3>1. 0 \in Slots
        BY DEF Sane, Slots
      <3> QED
        BY <3>1 DEF Start
    <2> QED
      BY <1>0, <2>1, ZenonT(30) DEF QueueTypes
  <1>3. Unused'
    BY <1>0, Zenon DEF Unused, Blank
  <1>4. Prepared'
    <2>1. At \in Early \cup {"wait_enabled"} => (Blank(gen) /\ q = [x \in Queues |-> NewQueue])'
      BY <1>0, Zenon DEF Prepared, Blank
    <2>2. At \in Early =>
             /\ dev'.en \/ dev'.rdy => dev'.asq # gen /\ dev'.iocq # gen
             /\ \A x \in Queues : \A c \in pend'[x] : c.gen # gen
      <3> SUFFICES ASSUME At \in Early
                   PROVE  /\ dev'.en \/ dev'.rdy => dev'.asq # gen /\ dev'.iocq # gen
                          /\ \A x \in Queues : \A c \in pend'[x] : c.gen # gen
        OBVIOUS
      <3>1. dev'.en \/ dev'.rdy => dev.en \/ dev.rdy
        BY Zenon
      <3>2. gen # 0
        BY DEF LifeInv, Typed, Memory, Early
      <3> QED
        BY <1>0, <3>1, <3>2, Zenon DEF Prepared
    <2>3. At = "wait_enabled" => pend' = Nothing /\ dev'.asq = gen /\ dev'.iocq = 0 /\ (dev'.rdy => dq' = Start)
      BY <1>0, Zenon DEF Prepared
    <2> QED
      BY <1>1, <2>1, <2>2, <2>3, Zenon DEF Prepared
  <1>5. Known'
    BY <1>0, <1>1, Zenon DEF Known
  <1>6. ASSUME Using, NEW x \in Queues, ~q[x].failed
        PROVE  InStep(x)'
    <2>1. (dq' = dq /\ dev'.rdy = dev.rdy) \/ ~dev'.rdy
      BY <1>0, <1>6, Zenon DEF Known
    <2>2. Taken(x) => Taken(x)'
      BY <2>1, Zenon DEF Taken, Old, Here
    <2>3. Answered(x) => Answered(x)'
      BY <2>1, Zenon DEF Answered, Old, There
    <2>4. InStep(x)
      BY <1>0, <1>6, Zenon DEF Synced
    <2> QED
      BY <2>2, <2>3, <2>4, Zenon DEF InStep, Waits
  <1>7. Synced'
    BY <1>1, <1>6, Zenon DEF Synced
  <1>8. CompletionMatches' /\ (pc' = "poll" => ~q'[cmd'.x].failed)
    BY Zenon DEF QueueInv, CompletionMatches
  <1> QED
    BY <1>2, <1>3, <1>4, <1>5, <1>7, <1>8, Zenon DEF QueueInv

\* The ANS firmware comes up or fails, the controller follows CC.EN and CC.SHN
LEMMA QueueDevices ==
    ASSUME Sane, LifeInv, QueueInv, DevBoot \/ DevFatal \/ DevReady \/ DevShutdown
    PROVE  QueueInv'
  <1>0. dev \in DevType /\ pend \in [Queues -> SUBSET Command] /\ Nothing \in [Queues -> SUBSET Command]
    BY Zenon DEF LifeInv, Typed, Nothing
  <1>1. UNCHANGED <<pc, cmd, ok, initialized, gen, ngen, q, cqes>>
    BY Zenon DEF DevBoot, DevFatal, DevReady, DevShutdown, session, memory, queue, locals
  <1>2. pend' \in {pend, Nothing}
    BY Zenon DEF DevBoot, DevFatal, DevReady, DevShutdown, Nothing
  <1>3. \A x \in Queues : pend'[x] \subseteq pend[x]
    BY <1>2, Zenon DEF Nothing
  <1>4. CASE DevBoot \/ DevFatal \/ DevShutdown
    <2>1. dq' = dq
      BY <1>4, Zenon DEF DevBoot, DevFatal, DevShutdown
    <2>2. \/ dev' = [dev EXCEPT !.boot = TRUE]
          \/ dev' = [dev EXCEPT !.cfs = TRUE]
          \/ dev' = [dev EXCEPT !.shst = TRUE]
      BY <1>4, Zenon DEF DevBoot, DevFatal, DevShutdown
    <2>3. dev'.en = dev.en /\ dev'.rdy = dev.rdy /\ dev'.asq = dev.asq /\ dev'.iocq = dev.iocq
      BY <1>0, <2>2, Zenon DEF DevType
    <2> QED
      BY <1>1, <1>2, <1>3, <2>1, <2>3, QueueDevice, Zenon
  <1>5. CASE DevReady
    <2>1. dq' = Start /\ dev.en # dev.rdy /\ dev.rdy \in BOOLEAN /\ dev.en \in BOOLEAN
      BY <1>0, <1>5, Zenon DEF DevReady, DevType
    <2>2. IF dev.en THEN dev' = [dev EXCEPT !.rdy = TRUE, !.shst = FALSE]
                    ELSE dev' = [dev EXCEPT !.rdy = FALSE, !.iocq = 0, !.iosq = 0]
      BY <1>5, Zenon DEF DevReady
    <2>3. dev'.en = dev.en /\ dev'.asq = dev.asq /\ dev'.iocq \in {dev.iocq, 0} /\ dev'.rdy = dev.en
      <3>1. CASE dev.en
        BY <1>0, <2>1, <2>2, <3>1, Zenon DEF DevType
      <3>2. CASE ~dev.en
        BY <1>0, <2>1, <2>2, <3>2, Zenon DEF DevType
      <3> QED
        BY <3>1, <3>2, Zenon
    <2> QED
      BY <1>1, <1>2, <1>3, <2>1, <2>3, QueueDevice, Zenon
  <1> QED
    BY <1>4, <1>5, Zenon

\* A command is executed
LEMMA QueueExecutes ==
    ASSUME Sane, LifeInv, QueueInv, NEW x \in Queues, NEW c \in pend[x], NEW good \in BOOLEAN, NEW tag \in {0, 1},
           DevExecute(x, c, good, tag)
    PROVE  QueueInv'
  <1>0. QueueTypes /\ Unused /\ Prepared /\ Known /\ Synced /\ Typed /\ Memory /\ DmaSafe
    BY Zenon DEF QueueInv, LifeInv
  <1>1. UNCHANGED <<pc, cmd, ok, initialized, gen, ngen, q>>
    BY ExecuteLeaves, Zenon DEF session, memory, locals
  <1>2. At' = At /\ Using' = Using
    BY <1>1, Zenon DEF At, Using
  <1>3. /\ dev.rdy /\ dev'.rdy = dev.rdy /\ dev'.en = dev.en /\ dev'.asq = dev.asq
        /\ dev'.iocq \in {dev.iocq, 0, c.gen} /\ c \in Command
        /\ pend' = [pend EXCEPT ![x] = @ \ {c}] /\ \A y \in Queues : \A e \in pend'[y] : e \in pend[y]
    BY ExecuteMoves, ZenonT(30)
  <1> DEFINE g == CqMemory(x)
             t == dq[x].tail
             e == [phase |-> dq[x].phase, id |-> c.id, tag |-> tag, good |-> good]
             next == IF t + 1 = QueueSize THEN [tail |-> 0, phase |-> 1 - dq[x].phase] ELSE [dq[x] EXCEPT !.tail = t + 1]
  <1>4. g # 0 /\ cqes' = [cqes EXCEPT ![g][x][t] = e] /\ dq' = [dq EXCEPT ![x] = next]
    BY Zenon DEF DevExecute
  <1> HIDE DEF DevExecute
  <1>5. g \in {dev.asq, dev.iocq}
    BY <1>4 DEF CqMemory
  <1>6. dq[x] \in [tail : Slots, phase : {0, 1}] /\ dq \in [Queues -> [tail : Slots, phase : {0, 1}]]
    BY <1>0, ZenonT(30) DEF QueueTypes
  <1>7. t \in Slots /\ e \in Completion /\ e.phase = dq[x].phase /\ e.id = c.id
    BY <1>3, <1>6 DEF Completion, Command
  <1>8. next \in [tail : Slots, phase : {0, 1}]
    BY <1>6 DEF Slots, Sane
  <1>9. dq' \in [Queues -> [tail : Slots, phase : {0, 1}]] /\ dq'[x] = next /\ \A y \in Queues \ {x} : dq'[y] = dq[y]
    BY <1>4, <1>6, <1>8, Zenon
  <1> HIDE DEF g, t, e, next
  <1>10. /\ cqes' \in Memories
         /\ g \in Gens => cqes'[g][x][t] = e
         /\ \A h \in Gens, y \in Queues, i \in Slots : h # g \/ y # x \/ i # t => cqes'[h][y][i] = cqes[h][y][i]
    <2>1. cqes \in Memories
      BY <1>0, Zenon DEF QueueTypes
    <2>2. cqes' = [cqes EXCEPT ![g][x][t] = e] /\ t \in Slots /\ e \in Completion
      BY <1>4, <1>7, Zenon
    <2>3. cqes' \in Memories
      BY <2>1, <2>2, Zenon DEF Memories
    <2>4. g \in Gens => cqes'[g][x][t] = e
      BY <2>1, <2>2 DEF Memories
    <2>5. \A h \in Gens, y \in Queues, i \in Slots : h # g \/ y # x \/ i # t => cqes'[h][y][i] = cqes[h][y][i]
      BY <2>1, <2>2 DEF Memories
    <2> QED
      BY <2>3, <2>4, <2>5, Zenon
  <1>11. QueueTypes'
    BY <1>0, <1>1, <1>9, <1>10, ZenonT(30) DEF QueueTypes
  <1>12. g # gen /\ gen \in Gens => (Blank(gen) => Blank(gen)')
    BY <1>1, <1>10 DEF Blank
  <1>13. Unused'
    <2>1. \A h \in Gens : h > ngen => h # g
      BY <1>0, <1>3, <1>4, <1>5 DEF DmaSafe, Typed, Foreign, Gens, Sane
    <2>2. ASSUME NEW h \in Gens, h > ngen, NEW y \in Queues, NEW i \in Slots
          PROVE  cqes'[h][y][i].phase = 0
      <3>1. cqes[h][y][i].phase = 0
        BY <1>0, <2>2, Zenon DEF Unused, Blank
      <3> QED
        BY <1>10, <2>1, <2>2, <3>1, Zenon
    <2> QED
      BY <1>1, <2>2, Zenon DEF Unused, Blank
  <1>14. At # "wait_enabled"
    BY <1>0, Zenon DEF Prepared, Nothing
  <1>15. Prepared'
    <2> SUFFICES ASSUME At \in Early
                 PROVE  /\ Blank(gen)' /\ q = [y \in Queues |-> NewQueue]
                        /\ dev'.asq # gen /\ dev'.iocq # gen
                        /\ \A y \in Queues : \A d \in pend'[y] : d.gen # gen
      BY <1>1, <1>2, <1>14, Zenon DEF Prepared
    <2>1. dev.asq # gen /\ dev.iocq # gen /\ c.gen # gen /\ \A y \in Queues : \A d \in pend[y] : d.gen # gen
      BY <1>0, <1>3, Zenon DEF Prepared
    <2>2. gen # 0 /\ gen \in Gens
      BY <1>0 DEF Typed, Memory, Early, Gens, Sane
    <2>3. Blank(gen) /\ q = [y \in Queues |-> NewQueue]
      BY <1>0, Zenon DEF Prepared
    <2> QED
      BY <1>3, <1>5, <1>12, <2>1, <2>2, <2>3, Zenon
  <1>16. Known'
    BY <1>0, <1>1, <1>2, <1>3, Zenon DEF Known
  <1>17. ASSUME Using, NEW y \in Queues, ~q[y].failed
         PROVE  InStep(y)'
    <2>1. g = gen /\ gen \in Gens
      <3>1. g = gen
        BY <1>0, <1>4, <1>5, <1>17, Zenon DEF Known
      <3>2. gen \in 1..ngen /\ ngen \in 0..MaxInits
        BY <1>0, <1>17, Zenon DEF Typed, Memory, Using, Creating
      <3> QED
        BY <3>1, <3>2 DEF Gens, Sane
    <2>2. InStep(y)
      BY <1>0, <1>17, Zenon DEF Synced
    <2>3. CASE y # x
      <3>1. dq'[y] = dq[y] /\ \A i \in Slots : cqes'[gen][y][i] = cqes[gen][y][i]
        BY <1>9, <1>10, <2>1, <2>3, Zenon
      <3>2. pend'[y] = pend[y]
        BY <1>0, <1>3, <2>3, Zenon DEF Typed
      <3>3. q[y].head \in Slots
        BY <1>0 DEF QueueTypes
      <3>4. Taken(y) => Taken(y)'
        BY <1>1, <1>3, <3>1, Zenon DEF Taken, Old, Here
      <3>5. Answered(y) => Answered(y)'
        <4>1. There(y)' = There(y) /\ \A i \in Slots : Old(y, i)' = Old(y, i)
          BY <1>1, Zenon DEF There, Old
        <4> QED
          BY <1>1, <1>3, <3>1, <3>2, <3>3, <4>1, ZenonT(30) DEF Answered
      <3> QED
        BY <1>1, <2>2, <3>2, <3>4, <3>5, Zenon DEF InStep, Waits
    <2>4. CASE y = x
      <3>1. Waits(x) /\ Taken(x) /\ c = cmd.c /\ pend[x] \subseteq {c}
        BY <2>2, <2>4, Zenon DEF InStep, Answered
      <3>2. dq[x] = Here(x)
        BY <1>3, <3>1, Zenon DEF Taken
      <3>3. t = q[x].head /\ dq[x].phase = q[x].phase /\ q[x] \in [head : Slots, phase : {0, 1}, failed : BOOLEAN]
        BY <1>0, <3>2 DEF Here, t, QueueTypes
      <3>4. next = There(x)
        BY <3>2, <3>3 DEF next, There, Here, Advance
      <3>5. cqes'[gen][x][t] = e /\ \A i \in Slots \ {t} : cqes'[gen][x][i] = cqes[gen][x][i]
        BY <1>7, <1>10, <2>1, Zenon
      <3>6. pend'[x] = {}
        BY <1>0, <1>3, <3>1, Zenon DEF Typed
      <3>7. Answered(x)'
        <4>1. \A i \in Slots \ {q[x].head} : cqes'[gen][x][i].phase = Old(x, i)
          BY <3>1, <3>3, <3>5, Zenon DEF Taken
        <4>2. cqes'[gen][x][q[x].head].phase = q[x].phase /\ cqes'[gen][x][q[x].head].id = cmd.c.id
          BY <1>7, <3>1, <3>3, <3>5, Zenon
        <4> QED
          BY <1>1, <1>9, <3>4, <3>6, <4>1, <4>2, Zenon DEF Answered, Old, There
      <3> QED
        BY <1>1, <2>4, <3>1, <3>7, Zenon DEF InStep, Waits
    <2> QED
      BY <2>3, <2>4, Zenon
  <1>18. Synced'
    BY <1>1, <1>2, <1>17, Zenon DEF Synced
  <1>19. CompletionMatches' /\ (pc' = "poll" => ~q'[cmd'.x].failed)
    BY <1>1, Zenon DEF QueueInv, CompletionMatches
  <1> QED
    BY <1>11, <1>13, <1>15, <1>16, <1>19, <1>18, Zenon DEF QueueInv

\* Whoever waits for a command uses the queues
LEMMA PollUses ==
    ASSUME LifeInv, pc = "poll"
    PROVE  Using /\ cmd.x \in Queues /\ cmd.c.kind \in Kinds /\ At = cmd.c.kind
  <1>1. Typed /\ Life
    BY Zenon DEF LifeInv
  <1>2. cmd.c \in Command /\ cmd.x = QueueOf(cmd.c.kind)
    BY <1>1, Zenon DEF Typed
  <1>3. cmd.c.kind \in Kinds /\ cmd.x \in Queues /\ At = cmd.c.kind
    BY <1>2 DEF Command, QueueOf, Queues, At
  <1>4. At \in Creating \cup Serving
    BY <1>3 DEF Kinds, AdminKinds, Creating, Serving
  <1> QED
    BY <1>1, <1>3, <1>4, Zenon DEF Using, Life

\* A queue moves on by one completion
LEMMA AdvanceMoves ==
    ASSUME Sane, NEW r \in [head : Slots, phase : {0, 1}, failed : BOOLEAN], NEW f \in BOOLEAN
    PROVE  /\ [Advance(r) EXCEPT !.failed = f] \in [head : Slots, phase : {0, 1}, failed : BOOLEAN]
           /\ [Advance(r) EXCEPT !.failed = f].head = Advance(r).head
           /\ [Advance(r) EXCEPT !.failed = f].phase = Advance(r).phase
           /\ [Advance(r) EXCEPT !.failed = f].failed = f
           /\ \A i \in Slots : (IF i < Advance(r).head THEN Advance(r).phase ELSE 1 - Advance(r).phase)
                               = IF i = r.head THEN r.phase ELSE IF i < r.head THEN r.phase ELSE 1 - r.phase
  <1>1. CASE r.head + 1 = QueueSize
    <2>1. Advance(r) = [r EXCEPT !.head = 0, !.phase = 1 - r.phase] /\ 0 \in Slots /\ 1 - r.phase \in {0, 1}
      BY <1>1 DEF Advance, Sane, Slots
    <2>2. /\ Advance(r) \in [head : Slots, phase : {0, 1}, failed : BOOLEAN]
          /\ Advance(r).head = 0 /\ Advance(r).phase = 1 - r.phase
      BY <2>1, Zenon
    <2> HIDE DEF Advance
    <2>3. \A i \in Slots : ~(i < 0) /\ (i = r.head \/ i < r.head)
      BY <1>1 DEF Sane, Slots
    <2> QED
      BY <2>2, <2>3
  <1>2. CASE r.head + 1 # QueueSize
    <2>1. Advance(r) = [r EXCEPT !.head = r.head + 1] /\ r.head + 1 \in Slots
      BY <1>2 DEF Advance, Sane, Slots
    <2>2. /\ Advance(r) \in [head : Slots, phase : {0, 1}, failed : BOOLEAN]
          /\ Advance(r).head = r.head + 1 /\ Advance(r).phase = r.phase
      BY <2>1, Zenon
    <2> HIDE DEF Advance
    <2>3. \A i \in Slots : i < r.head + 1 <=> i = r.head \/ i < r.head
      BY DEF Sane, Slots
    <2> QED
      BY <2>2, <2>3
  <1> QED
    BY <1>1, <1>2, Zenon

\* A completion is taken
LEMMA QueueCompletes ==
    ASSUME Sane, LifeInv, QueueInv, ExecComplete
    PROVE  QueueInv'
  <1>0. QueueTypes /\ Unused /\ Prepared /\ Known /\ Synced /\ Typed /\ Memory
    BY Zenon DEF QueueInv, LifeInv
  <1>1. pc = "poll" /\ pc' = cmd.c.kind /\ UNCHANGED <<initialized, gen, ngen, dev, dq, pend>>
    BY Zenon DEF ExecComplete, session, memory, device
  <1>x. PICK x \in Queues : x = cmd.x
    BY <1>1, PollUses, Zenon
  <1> DEFINE r == q[x]
             e == cqes[gen][x][r.head]
  <1>2. /\ e.phase = r.phase
        /\ q' = [q EXCEPT ![x] = [Advance(@) EXCEPT !.failed = ~(e.tag = 0)]]
        /\ cqes' = [cqes EXCEPT ![gen][x][r.head] = [Empty EXCEPT !.phase = e.phase]]
        /\ cmd' = [cmd EXCEPT !.got = e.id]
    BY <1>x, Zenon DEF ExecComplete
  <1> HIDE DEF ExecComplete
  <1>3. Using /\ x \in Queues /\ cmd.c.kind \in Kinds /\ At = cmd.c.kind /\ ~r.failed
    BY <1>1, <1>x, PollUses, Zenon DEF QueueInv
  <1>4. cmd'.c = cmd.c /\ At' = At /\ Using' = Using /\ pc' # "poll"
    <2>1. pc' # "poll"
      BY <1>1, <1>3 DEF Kinds, AdminKinds, IoKinds
    <2>2. cmd'.c = cmd.c
      BY <1>2
    <2> QED
      BY <1>1, <1>3, <2>1, <2>2, Zenon DEF At, Using
  <1> HIDE DEF r, e
  <1>5. q \in [Queues -> [head : Slots, phase : {0, 1}, failed : BOOLEAN]] /\ r = q[x]
        /\ r \in [head : Slots, phase : {0, 1}, failed : BOOLEAN]
    BY <1>0, <1>3, Zenon DEF QueueTypes, r
  <1>6. r.head \in Slots /\ r.phase \in {0, 1} /\ gen \in Gens
    <2>1. gen \in 1..ngen /\ ngen \in 0..MaxInits
      BY <1>0, <1>3, Zenon DEF Typed, Memory, Using, Creating
    <2> QED
      BY <1>5, <2>1 DEF Gens, Sane
  <1>7. /\ q' = [q EXCEPT ![x] = [Advance(r) EXCEPT !.failed = ~(e.tag = 0)]]
        /\ [Advance(r) EXCEPT !.failed = ~(e.tag = 0)] \in [head : Slots, phase : {0, 1}, failed : BOOLEAN]
    <2>1. (~(e.tag = 0)) \in BOOLEAN
      OBVIOUS
    <2> QED
      BY <1>2, <1>5, <2>1, AdvanceMoves, Zenon
  <1>8. /\ q' \in [Queues -> [head : Slots, phase : {0, 1}, failed : BOOLEAN]]
        /\ \A y \in Queues \ {x} : q'[y] = q[y]
        /\ q'[x] = [Advance(r) EXCEPT !.failed = ~(e.tag = 0)]
    BY <1>3, <1>5, <1>7, Zenon
  <1>9. /\ q'[x].head = Advance(r).head /\ q'[x].phase = Advance(r).phase
        /\ \A i \in Slots : Old(x, i)' = IF i = r.head THEN r.phase ELSE Old(x, i)
    <2>1. (~(e.tag = 0)) \in BOOLEAN
      OBVIOUS
    <2>2. /\ q'[x].head = Advance(r).head /\ q'[x].phase = Advance(r).phase
          /\ \A i \in Slots : (IF i < Advance(r).head THEN Advance(r).phase ELSE 1 - Advance(r).phase)
                              = IF i = r.head THEN r.phase ELSE IF i < r.head THEN r.phase ELSE 1 - r.phase
      BY <1>5, <1>8, <2>1, AdvanceMoves, Zenon
    <2> QED
      BY <1>5, <2>2 DEF Old
  <1>10. cqes' \in Memories /\ \A g \in Gens, y \in Queues, i \in Slots : cqes'[g][y][i].phase = cqes[g][y][i].phase
    <2>1. cqes \in Memories
      BY <1>0, Zenon DEF QueueTypes
    <2>2. e \in Completion
      BY <1>3, <1>6, <2>1 DEF Memories, e
    <2> DEFINE z == [Empty EXCEPT !.phase = e.phase]
    <2>3. z \in Completion /\ z.phase = e.phase
      BY <2>2, Zenon DEF Completion, Empty
    <2>4. cqes' = [cqes EXCEPT ![gen][x][r.head] = z]
      BY <1>2, Zenon
    <2> HIDE DEF z
    <2>5. cqes' \in Memories
      BY <1>3, <1>6, <2>1, <2>3, <2>4, Zenon DEF Memories
    <2>6. \A g \in Gens, y \in Queues, i \in Slots : g # gen \/ y # x \/ i # r.head => cqes'[g][y][i] = cqes[g][y][i]
      BY <1>3, <1>6, <2>1, <2>4 DEF Memories
    <2>7. cqes'[gen][x][r.head] = z
      BY <1>3, <1>6, <2>1, <2>4 DEF Memories
    <2> QED
      BY <2>3, <2>5, <2>6, <2>7, Zenon DEF e
  <1>11. QueueTypes'
    <2>1. Issued(cmd')
      BY <1>0, <1>2, <1>4 DEF QueueTypes, Issued
    <2> QED
      BY <1>0, <1>1, <1>8, <1>10, <2>1, Zenon DEF QueueTypes
  <1>12. Unused'
    BY <1>0, <1>1, <1>10 DEF Unused, Blank
  <1>13. Prepared'
    <2>1. At' \notin Early \cup {"wait_enabled"}
      BY <1>3, <1>4 DEF Early, Kinds, AdminKinds, IoKinds
    <2> QED
      BY <2>1, Zenon DEF Prepared
  <1>14. Known'
    BY <1>0, <1>1, <1>4, Zenon DEF Known
  <1>15. Answered(x)
    <2>1. InStep(x) /\ Waits(x)
      BY <1>0, <1>1, <1>3, <1>x, Zenon DEF Synced, Waits, r
    <2>2. ~Taken(x)
      <3>1. Old(x, r.head) = 1 - r.phase
        BY <1>5, <1>6 DEF Old, Slots, Sane
      <3>2. e.phase # 1 - r.phase
        BY <1>2, <1>6
      <3> QED
        BY <1>5, <1>6, <3>1, <3>2, Zenon DEF Taken, e
    <2> QED
      BY <2>1, <2>2, Zenon DEF InStep
  <1>16. CompletionMatches'
    <2>1. cmd'.got = e.id /\ e.id = cmd.c.id
      <3>1. cmd'.got = e.id
        BY <1>0, <1>2 DEF QueueTypes, Issued
      <3>2. e.id = cmd.c.id
        BY <1>5, <1>15, Zenon DEF Answered, e
      <3> QED
        BY <3>1, <3>2, Zenon
    <2> QED
      BY <1>4, <2>1, Zenon DEF CompletionMatches
  <1>17. ASSUME NEW y \in Queues, ~q'[y].failed
         PROVE  Taken(y)' /\ pend'[y] = {}
    <2>1. CASE y = x
      <3>1. \A i \in Slots : cqes'[gen][x][i].phase = Old(x, i)'
        <4>1. \A i \in Slots \ {r.head} : cqes[gen][x][i].phase = Old(x, i)
          BY <1>5, <1>15, Zenon DEF Answered
        <4>2. cqes[gen][x][r.head].phase = r.phase
          BY <1>2, Zenon DEF e
        <4> QED
          BY <1>3, <1>6, <1>9, <1>10, <4>1, <4>2
      <3>2. dev.rdy => dq[x] = There(x)
        BY <1>15, Zenon DEF Answered
      <3>3. Here(x)' = There(x)
        BY <1>5, <1>9, Zenon DEF Here, There
      <3>4. pend[x] = {}
        BY <1>15, Zenon DEF Answered
      <3> QED
        BY <1>1, <2>1, <3>1, <3>2, <3>3, <3>4, ZenonT(30) DEF Taken
    <2>2. CASE y # x
      <3>1. Taken(y) /\ pend[y] = {}
        BY <1>0, <1>3, <1>8, <1>17, <1>x, <2>2, Zenon DEF Synced, InStep, Waits
      <3>2. Here(y)' = Here(y) /\ \A i \in Slots : Old(y, i)' = Old(y, i)
        BY <1>8, <2>2, Zenon DEF Here, Old
      <3> QED
        BY <1>1, <1>6, <1>10, <3>1, <3>2, Zenon DEF Taken
    <2> QED
      BY <2>1, <2>2, Zenon
  <1>18. Synced'
    BY <1>4, <1>17, Zenon DEF Synced, InStep, Waits
  <1> QED
    BY <1>4, <1>11, <1>12, <1>13, <1>14, <1>16, <1>18, Zenon DEF QueueInv

\* A command is given up
LEMMA QueueTimesOut ==
    ASSUME LifeInv, QueueInv, ExecTimeout
    PROVE  QueueInv'
  <1>0. QueueTypes /\ Unused /\ Known /\ Synced
    BY Zenon DEF QueueInv
  <1>1. /\ pc = "poll" /\ pc' = cmd.c.kind /\ UNCHANGED <<initialized, gen, ngen, cqes, cmd, dev, dq, pend>>
        /\ q' = [q EXCEPT ![cmd.x].failed = TRUE] /\ ok' = FALSE
    BY Zenon DEF ExecTimeout, session, memory, device
  <1>2. Using /\ cmd.x \in Queues /\ cmd.c.kind \in Kinds /\ At = cmd.c.kind
    BY <1>1, PollUses, Zenon
  <1>3. pc' # "poll" /\ pc' \notin Early \cup {"wait_enabled"}
    BY <1>1, <1>2 DEF Kinds, AdminKinds, IoKinds, Early
  <1>4. At' = pc' /\ Using' = Using
    BY <1>1, <1>2, <1>3, Zenon DEF At, Using
  <1>5. /\ q' \in [Queues -> [head : Slots, phase : {0, 1}, failed : BOOLEAN]] /\ q'[cmd.x].failed
        /\ \A y \in Queues : y # cmd.x => q'[y] = q[y]
    <2>1. q \in [Queues -> [head : Slots, phase : {0, 1}, failed : BOOLEAN]]
      BY <1>0, Zenon DEF QueueTypes
    <2> QED
      BY <1>1, <1>2, <2>1, Zenon
  <1>6. QueueTypes' /\ Unused'
    BY <1>0, <1>1, <1>5, Zenon DEF QueueTypes, Unused, Blank
  <1>7. Prepared'
    BY <1>3, <1>4, Zenon DEF Prepared
  <1>8. Known'
    BY <1>0, <1>1, <1>4, Zenon DEF Known
  <1>9. ASSUME NEW y \in Queues, ~q'[y].failed
        PROVE  Taken(y)' /\ pend'[y] = {}
    <2>1. q'[y] = q[y] /\ y # cmd.x
      BY <1>5, <1>9, Zenon
    <2>2. Taken(y) /\ pend[y] = {}
      BY <1>0, <1>2, <1>9, <2>1, Zenon DEF Synced, InStep, Waits
    <2> QED
      BY <1>1, <2>1, <2>2, Zenon DEF Taken, Here, Old
  <1>10. Synced'
    BY <1>3, <1>9, Zenon DEF Synced, InStep, Waits
  <1>11. CompletionMatches'
    BY <1>1, Zenon DEF CompletionMatches
  <1> QED
    BY <1>3, <1>6, <1>7, <1>8, <1>10, <1>11, Zenon DEF QueueInv

\* nvme_init takes memory that the controller has never seen
LEMMA QueueInits ==
    ASSUME Sane, LifeInv, QueueInv, nvme_init
    PROVE  QueueInv'
  <1>0. QueueTypes /\ Unused /\ Typed /\ DmaSafe /\ Controller
    BY Zenon DEF QueueInv, LifeInv
  <1>1. pc = "idle" /\ At = "idle" /\ UNCHANGED <<initialized, dev, dq, pend>>
    BY Zenon DEF nvme_init, At, session, device
  <1>2. CASE RefusesInit \/ initialized
    <2>1. pc' = "idle" /\ cmd' = NoCmd /\ UNCHANGED <<gen, ngen, q, cqes>>
      BY <1>2, Zenon DEF nvme_init, Return, memory, queue
    <2>2. pc # "poll" /\ pc' \in Pcs \ (Kinds \cup {"poll", "wait_enabled"}) /\ pc' \notin Early
      BY <1>1, <2>1 DEF Pcs, Kinds, AdminKinds, IoKinds, Early
    <2> QED
      BY <1>1, <2>1, <2>2, QueueRests, Zenon DEF Using
  <1>3. CASE ~RefusesInit /\ ~initialized
    <2>0. cqes' = cqes /\ q' = [x \in Queues |-> NewQueue]
      BY <1>3, Zenon DEF nvme_init
    <2>1. q' \in [Queues -> [head : Slots, phase : {0, 1}, failed : BOOLEAN]]
      BY <2>0 DEF NewQueue, Slots, Sane
    <2>2. CASE adopting' /\ ~(dev.run /\ dev.boot /\ ~dev.cfs)
      <3>1. pc' = "idle" /\ cmd' = NoCmd /\ ngen' = ngen
        BY <1>3, <2>2, Zenon DEF nvme_init, Return
      <3>2. Issued(cmd')
        BY <3>1 DEF Issued, NoCmd
      <3>3. QueueTypes' /\ Unused'
        <4>1. cqes' = cqes /\ dq' = dq
          BY <1>1, <2>0, Zenon
        <4>2. QueueTypes'
          BY <1>0, <2>1, <3>2, <4>1, Zenon DEF QueueTypes
        <4>3. Unused'
          BY <1>0, <3>1, <4>1, Zenon DEF Unused, Blank
        <4> QED
          BY <4>2, <4>3, Zenon
      <3>4. ~initialized'
        BY <1>1, <1>3, Zenon
      <3> QED
        BY <3>1, <3>3, <3>4, QueueEnds, Zenon
    <2>3. CASE ~(adopting' /\ ~(dev.run /\ dev.boot /\ ~dev.cfs))
      <3>1. /\ ngen < MaxInits /\ pc' = (IF adopting' THEN "setup" ELSE "rtkit_boot") /\ ngen' = ngen + 1
            /\ gen' = ngen + 1 /\ cmd' = cmd
        BY <1>3, <2>3, Zenon DEF nvme_init
      <3>2. pc' \in {"setup", "rtkit_boot"} /\ At' = pc' /\ ~Using'
        BY <1>1, <1>3, <3>1 DEF At, Using, Creating
      <3>3. ngen \in Nat /\ MaxInits \in Nat /\ alloced \subseteq 1..ngen
        BY <1>0 DEF Typed, Sane
      <3>4. QueueTypes'
        BY <1>0, <1>1, <2>0, <2>1, <3>1, Zenon DEF QueueTypes
      <3>5. Unused'
        BY <1>0, <2>0, <3>1, <3>3 DEF Unused, Blank, Gens
      <3>6. Prepared'
        <4>1. ngen + 1 \in Gens /\ ngen + 1 > ngen
          BY <3>1, <3>3 DEF Gens
        <4>2. Blank(gen)'
          BY <1>0, <2>0, <3>1, <4>1, Zenon DEF Unused, Blank
        <4>3. ngen + 1 \notin alloced /\ ngen + 1 # 0 /\ ngen + 1 # Foreign
          BY <3>3 DEF Foreign
        <4>4. dev'.en \/ dev'.rdy => dev'.asq # gen' /\ dev'.iocq # gen'
          BY <1>0, <1>1, <3>1, <4>3, Zenon DEF DmaSafe
        <4>5. \A x \in Queues : \A c \in pend'[x] : c.gen # gen'
          BY <1>0, <1>1, <3>1, <4>3, Zenon DEF Controller
        <4> QED
          BY <2>0, <3>2, <4>2, <4>4, <4>5 DEF Prepared
      <3>7. Known' /\ Synced'
        BY <3>2, Zenon DEF Known, Synced
      <3>8. CompletionMatches' /\ pc' # "poll"
        BY <3>2, <3>4 DEF CompletionMatches, QueueTypes, Issued, Kinds, AdminKinds, IoKinds
      <3> QED
        BY <3>4, <3>5, <3>6, <3>7, <3>8, Zenon DEF QueueInv
    <2> QED
      BY <2>2, <2>3, Zenon
  <1> QED
    BY <1>2, <1>3, Zenon

\* The set-up up to the enabling of the controller
LEMMA QueueSetsUp ==
    ASSUME Sane, LifeInv, QueueInv, (\E good \in BOOLEAN : RtkitBoot(good)) \/ BootStatus \/ SetupController \/ SetupAdminQueue
    PROVE  QueueInv'
  <1>0. Typed /\ Controller /\ dev \in DevType /\ Prepared /\ QueueTypes /\ Unused
    BY Zenon DEF LifeInv, Typed, QueueInv
  <1>1. UNCHANGED <<initialized, gen, ngen, q, cqes, cmd, dq, pend>>
    BY Zenon DEF RtkitBoot, BootStatus, SetupController, SetupAdminQueue, session, memory, queue, device
  <1>2. pc \in {"rtkit_boot", "boot_status", "setup", "wait_disabled"}
    BY Zenon DEF RtkitBoot, BootStatus, SetupController, SetupAdminQueue
  <1>3. pc # "poll" /\ At = pc /\ pc \in Early
    BY <1>2 DEF At, Early
  <1>4. CASE ~(SetupAdminQueue /\ ~dev.rdy)
    <2>1. pc' \in {"boot_status", "out_rtkit", "setup", "out_shutdown", "wait_disabled"}
      BY <1>4, Zenon DEF RtkitBoot, BootStatus, SetupController, SetupAdminQueue, CtrlDisabled
    <2>2. pc' \in Pcs \ (Kinds \cup {"poll", "wait_enabled"})
      BY <2>1 DEF Pcs, Kinds, AdminKinds, IoKinds
    <2>3. dev' \in {dev, [dev EXCEPT !.run = TRUE], [dev EXCEPT !.tcbs = gen, !.en = FALSE]}
      BY <1>4, Zenon DEF RtkitBoot, BootStatus, SetupController, SetupAdminQueue, CtrlDisabled, device
    <2>4. /\ dev'.rdy = dev.rdy /\ dev'.asq = dev.asq /\ dev'.iocq = dev.iocq /\ (dev'.en => dev.en)
      BY <1>0, <2>3, Zenon DEF DevType
    <2> QED
      BY <1>1, <1>3, <2>2, <2>4, QueueRests, Zenon DEF Using
  <1>5. CASE SetupAdminQueue /\ ~dev.rdy
    <2>1. pc = "wait_disabled" /\ pc' = "wait_enabled" /\ dev' = [dev EXCEPT !.asq = gen, !.shn = FALSE, !.en = TRUE]
      BY <1>5, Zenon DEF SetupAdminQueue, CtrlDisabled
    <2>2. dev'.rdy = dev.rdy /\ dev'.asq = gen /\ dev'.iocq = dev.iocq
      BY <1>0, <2>1, Zenon DEF DevType
    <2>3. pend = Nothing /\ dev.iocq = 0
      BY <1>0, <1>5, Zenon DEF Controller
    <2>4. ~initialized
      BY <1>3, Zenon DEF LifeInv, Life, Initing
    <2>5. At' = "wait_enabled" /\ ~Using'
      BY <1>1, <2>1, <2>4, SMTT(30) DEF At, Using, Creating
    <2>6. Prepared'
      BY <1>0, <1>1, <1>3, <1>5, <2>2, <2>3, <2>5 DEF Prepared, Blank, Early
    <2>7. QueueTypes' /\ Unused'
      BY <1>0, <1>1, Zenon DEF QueueTypes, Unused, Blank
    <2>8. Known' /\ Synced'
      BY <2>5, Zenon DEF Known, Synced
    <2>9. CompletionMatches' /\ pc' # "poll"
      BY <2>1, <2>7 DEF CompletionMatches, QueueTypes, Issued, Kinds, AdminKinds, IoKinds
    <2> QED
      BY <2>6, <2>7, <2>8, <2>9, Zenon DEF QueueInv
  <1> QED
    BY <1>4, <1>5, Zenon

\* The first command of a session
LEMMA QueueStarts ==
    ASSUME Sane, LifeInv, QueueInv, pc = "wait_enabled", dev.rdy, Issue("admin", "create_cq", 0, 0),
           UNCHANGED <<kept, queue, dev, dq>>
    PROVE  QueueInv'
  <1>0. QueueTypes /\ Unused /\ Prepared /\ Typed
    BY Zenon DEF QueueInv, LifeInv
  <1>1. At = "wait_enabled"
    BY DEF At
  <1>2. /\ Blank(gen) /\ q = [x \in Queues |-> NewQueue]
        /\ pend = Nothing /\ dev.asq = gen /\ dev.iocq = 0 /\ dq = Start
    BY <1>0, <1>1, Zenon DEF Prepared
  <1>3. ASSUME NEW x \in Queues
        PROVE  Taken(x) /\ pend[x] = {}
    <2>1. q[x] = NewQueue /\ dq[x] = [tail |-> 0, phase |-> 1] /\ pend[x] = {}
      BY <1>2, ZenonT(30) DEF Start, Nothing
    <2>2. q[x].head = 0 /\ q[x].phase = 1
      BY <2>1 DEF NewQueue
    <2>3. Here(x) = dq[x]
      BY <2>1, <2>2, Zenon DEF Here
    <2>4. \A i \in Slots : Old(x, i) = 0
      BY <2>2 DEF Old, Slots, Sane
    <2>5. \A i \in Slots : cqes[gen][x][i].phase = 0
      BY <1>2, Zenon DEF Blank
    <2> QED
      BY <2>1, <2>3, <2>4, <2>5, Zenon DEF Taken
  <1>4. "create_cq" \in Kinds /\ QueueOf("create_cq") = "admin" /\ 0 \in Int
    BY DEF Kinds, AdminKinds, QueueOf
  <1>5. UNCHANGED <<kept, dev>> /\ gen' = gen /\ dev' = dev
    BY Zenon DEF kept
  <1>6. Known'
    <2>1. \A x \in Queues : \A c \in pend'[x] : c \in pend[x] \/ (c.gen = gen /\ QueueOf(c.kind) = x)
      BY <1>4, <1>5, IssueMoves, Zenon
    <2> QED
      BY <1>2, <1>3, <1>5, <2>1, Zenon DEF Known
  <1> QED
    BY <1>0, <1>3, <1>4, <1>6, QueueIssues, Zenon

\* The commands that create the I/O queues
LEMMA QueueCreates ==
    ASSUME Sane, LifeInv, QueueInv, CreateQueues
    PROVE  QueueInv'
  <1>0. dev \in DevType /\ Typed
    BY Zenon DEF LifeInv, Typed
  <1>1. pc \in {"wait_enabled"} \cup Creating /\ UNCHANGED <<type, adopting, gen, alloced, ngen, q, cqes, dq>>
    BY Zenon DEF CreateQueues, Creating, memory, queue
  <1>2. pc # "poll" /\ At = pc /\ ~initialized
    BY <1>1 DEF At, Creating, LifeInv, Life, Initing
  <1>3. ASSUME UNCHANGED <<session, dev>>
        PROVE  UNCHANGED <<kept, queue, dev, dq>>
    BY <1>1, <1>3, Zenon DEF kept, session, queue
  <1>4. CASE pc = "wait_enabled" /\ dev.rdy
    <2>1. Issue("admin", "create_cq", 0, 0) /\ UNCHANGED <<session, dev>>
      BY <1>4, Zenon DEF CreateQueues
    <2> QED
      BY <1>3, <1>4, <2>1, QueueStarts, Zenon
  <1>5. ASSUME NEW kind \in Creating, pc \in Creating, Issue("admin", kind, 0, 0), UNCHANGED <<session, dev>>
        PROVE  QueueInv'
    <2>1. kind \in Kinds /\ QueueOf(kind) = "admin" /\ 0 \in Int
      BY DEF Kinds, AdminKinds, Creating, QueueOf
    <2> QED
      BY <1>2, <1>3, <1>5, <2>1, SessionIssues, Zenon DEF Using
  <1>6. ASSUME pc' = "out_disable_ctrl", UNCHANGED <<session, cmd, dev, pend>>
        PROVE  QueueInv'
    <2>1. pc' \in Pcs \ (Kinds \cup {"poll", "wait_enabled"}) /\ pc' \notin Early
      BY <1>6 DEF Pcs, Kinds, AdminKinds, IoKinds, Early
    <2> QED
      BY <1>1, <1>2, <1>6, <2>1, QueueRests, Zenon DEF session
  <1>7. ASSUME dev' = (IF type = "t8132" THEN [dev EXCEPT !.ioreg = gen] ELSE dev), Return("init", TRUE),
               pend' = pend, pc \in Creating
        PROVE  QueueInv'
    <2>1. pc' = "idle" /\ cmd' = NoCmd
      BY <1>7, Zenon DEF Return
    <2>2. pc' \in Pcs \ (Kinds \cup {"poll", "wait_enabled"}) /\ pc' \notin Early
      BY <2>1 DEF Pcs, Kinds, AdminKinds, IoKinds, Early
    <2>3. dev'.en = dev.en /\ dev'.rdy = dev.rdy /\ dev'.asq = dev.asq /\ dev'.iocq = dev.iocq
      <3>1. CASE type = "t8132"
        BY <1>0, <1>7, <3>1, Zenon DEF DevType
      <3> QED
        BY <1>7, <3>1, Zenon
    <2> QED
      BY <1>1, <1>2, <1>7, <2>1, <2>2, <2>3, QueueRests, Zenon DEF Using
  <1> QED
    BY <1>4, <1>5, <1>6, <1>7, Zenon DEF CreateQueues, Creating

\* A controller that could not be set up is shut down and disabled
LEMMA QueueDisables ==
    ASSUME LifeInv, QueueInv, OutDisableCtrl
    PROVE  QueueInv'
  <1>0. dev \in DevType /\ Life
    BY Zenon DEF LifeInv, Typed
  <1>1. UNCHANGED <<initialized, gen, ngen, q, cqes, cmd, dq, pend>>
    BY Zenon DEF OutDisableCtrl, session, memory, queue
  <1>2. pc \in Leaving /\ pc' \in {"out_wait_shutdown", "out_wait_disabled", "out_shutdown"}
    BY DEF OutDisableCtrl, Leaving
  <1>3. /\ pc # "poll" /\ ~initialized /\ pc' \notin Early
        /\ pc' \in Pcs \ (Kinds \cup {"poll", "wait_enabled"})
    BY <1>0, <1>2 DEF Life, At, Leaving, Initing, Pcs, Kinds, AdminKinds, IoKinds, Early
  <1>4. dev' \in {dev, [dev EXCEPT !.shn = TRUE], [dev EXCEPT !.en = FALSE]}
    BY Zenon DEF OutDisableCtrl
  <1>5. dev'.rdy = dev.rdy /\ dev'.asq = dev.asq /\ dev'.iocq = dev.iocq /\ (dev'.en => dev.en)
    BY <1>0, <1>4, Zenon DEF DevType
  <1> QED
    BY <1>1, <1>3, <1>5, QueueRests, Zenon

\* Queues are freed, or preserved, at the end of a session
LEMMA QueueFrees ==
    ASSUME Sane, LifeInv, QueueInv, pc' = "idle", cmd' = NoCmd, ~initialized', dq' \in {dq, Start},
           FreeQueues \/ UNCHANGED <<memory, queue>>
    PROVE  QueueInv'
  <1>0. QueueTypes /\ Unused /\ Typed
    BY Zenon DEF QueueInv, LifeInv
  <1>1. Issued(cmd')
    BY DEF Issued, NoCmd
  <1>2. dq' \in [Queues -> [tail : Slots, phase : {0, 1}]]
    <2>1. Start \in [Queues -> [tail : Slots, phase : {0, 1}]]
      BY DEF Start, Sane, Slots
    <2> QED
      BY <1>0, <2>1, Zenon DEF QueueTypes
  <1>3. CASE FreeQueues
    <2>1. /\ q' = [x \in Queues |-> NewQueue] /\ ngen' = ngen
          /\ cqes' = [cqes EXCEPT ![gen] = [x \in Queues |-> [i \in 0..QueueSize - 1 |-> Empty]]]
      BY <1>3, Zenon DEF FreeQueues
    <2>2. q' \in [Queues -> [head : Slots, phase : {0, 1}, failed : BOOLEAN]]
      BY <2>1 DEF NewQueue, Slots, Sane
    <2>3. [x \in Queues |-> [i \in 0..QueueSize - 1 |-> Empty]] \in [Queues -> [Slots -> Completion]]
      BY DEF Slots, Empty, Completion
    <2>4. cqes \in Memories
      BY <1>0, Zenon DEF QueueTypes
    <2>5. cqes' \in Memories /\ \A g \in Gens : g # gen => cqes'[g] = cqes[g]
      BY <2>1, <2>3, <2>4, Zenon DEF Memories
    <2>6. \A g \in Gens : g > ngen => g # gen
      BY <1>0 DEF Typed, Gens, Sane
    <2>7. QueueTypes'
      BY <1>1, <1>2, <2>2, <2>5, Zenon DEF QueueTypes
    <2>8. Unused'
      BY <1>0, <2>1, <2>5, <2>6, ZenonT(30) DEF Unused, Blank
    <2> QED
      BY <2>7, <2>8, QueueEnds, Zenon
  <1>4. CASE UNCHANGED <<memory, queue>>
    <2>1. UNCHANGED <<ngen, q, cqes>>
      BY <1>4, Zenon DEF memory, queue
    <2>2. QueueTypes' /\ Unused'
      BY <1>0, <1>1, <1>2, <2>1, Zenon DEF QueueTypes, Unused, Blank
    <2> QED
      BY <2>2, QueueEnds, Zenon
  <1> QED
    BY <1>3, <1>4, Zenon

\* nvme_init fails
LEMMA QueueOut ==
    ASSUME Sane, LifeInv, QueueInv, OutShutdown \/ OutRtkit
    PROVE  QueueInv'
  <1>1. pc \in {"out_shutdown", "out_rtkit"} /\ pc' = "idle" /\ cmd' = NoCmd /\ initialized' = initialized
    BY Zenon DEF OutShutdown, OutRtkit, Return
  <1>2. ~initialized'
    BY <1>1 DEF LifeInv, Life, At, Initing, Early
  <1>3. dq' \in {dq, Start}
    BY Zenon DEF OutShutdown, OutRtkit, Reset, device
  <1>4. FreeQueues \/ UNCHANGED <<memory, queue>>
    BY Zenon DEF OutShutdown, OutRtkit
  <1> QED
    BY <1>1, <1>2, <1>3, <1>4, QueueFrees, Zenon

\* A call in a session returns
LEMMA QueueReturns ==
    ASSUME LifeInv, QueueInv, pc # "poll", NEW op, NEW r, Return(op, r), initialized' => initialized,
           UNCHANGED <<gen, ngen, q, cqes, dq, pend, dev>>
    PROVE  QueueInv'
  <1>1. pc' = "idle" /\ cmd' = NoCmd
    BY Zenon DEF Return
  <1>2. pc' \in Pcs \ (Kinds \cup {"poll", "wait_enabled"}) /\ pc' \notin Early
    BY <1>1 DEF Pcs, Kinds, AdminKinds, IoKinds, Early
  <1> QED
    BY <1>1, <1>2, QueueRests, Zenon DEF Using

\* nvme_shutdown
LEMMA QueueShutsDown ==
    ASSUME LifeInv, QueueInv, NEW keep \in BOOLEAN, nvme_shutdown(keep)
    PROVE  QueueInv'
  <1>1. pc = "idle" /\ pc # "poll" /\ UNCHANGED <<type, adopting, gen, alloced, ngen, q, cqes, dev, dq>>
    BY Zenon DEF nvme_shutdown, memory, queue
  <1>2. CASE reboot_required \/ ~initialized
    <2>1. Return("none", ~reboot_required) /\ UNCHANGED <<initialized, pend>>
      BY <1>2, Zenon DEF nvme_shutdown, session
    <2> QED
      BY <1>1, <2>1, QueueReturns, Zenon
  <1>3. CASE ~reboot_required /\ initialized /\ type = "t8132" /\ keep
    <2>1. (\E r : Return("handoff", r)) /\ UNCHANGED pend
      BY <1>3, Zenon DEF nvme_shutdown
    <2> QED
      BY <1>1, <1>3, <2>1, QueueReturns, Zenon
  <1>4. CASE ~reboot_required /\ initialized /\ ~(type = "t8132" /\ keep)
    <2>1. Issue("admin", "delete_sq", 0, 0) /\ UNCHANGED session
      BY <1>4, Zenon DEF nvme_shutdown
    <2>2. UNCHANGED <<kept, queue, dev, dq>>
      BY <1>1, <2>1, Zenon DEF kept, session, queue
    <2>3. "delete_sq" \in Kinds /\ QueueOf("delete_sq") = "admin" /\ 0 \in Int
      BY DEF Kinds, AdminKinds, QueueOf
    <2> QED
      BY <1>1, <1>4, <2>1, <2>2, <2>3, SessionIssues, Zenon DEF Using
  <1> QED
    BY <1>2, <1>3, <1>4, Zenon

\* ... goes on
LEMMA QueueShutdownSteps ==
    ASSUME LifeInv, QueueInv, ShutdownStep
    PROVE  QueueInv'
  <1>0. dev \in DevType /\ Life
    BY Zenon DEF LifeInv, Typed
  <1>1. /\ pc \in {"delete_sq", "delete_cq", "wait_shutdown"}
        /\ UNCHANGED <<type, initialized, reboot_required, adopting, gen, alloced, ngen, q, cqes, dq>>
    BY Zenon DEF ShutdownStep, session, memory, queue
  <1>2. pc # "poll" /\ initialized
    BY <1>0, <1>1 DEF Life, At, Serving
  <1>3. CASE pc = "delete_sq"
    <2>1. Issue("admin", "delete_cq", 0, 0) /\ dev' = dev
      BY <1>3 DEF ShutdownStep
    <2>2. UNCHANGED <<kept, queue, dev, dq>>
      BY <1>1, <2>1, Zenon DEF kept, queue
    <2>3. "delete_cq" \in Kinds /\ QueueOf("delete_cq") = "admin" /\ 0 \in Int
      BY DEF Kinds, AdminKinds, QueueOf
    <2> QED
      BY <1>2, <2>1, <2>2, <2>3, SessionIssues, Zenon DEF Using
  <1>4. CASE pc # "delete_sq"
    <2>1. pc' \in {"wait_shutdown", "wait_off"} /\ UNCHANGED <<cmd, pend>>
      BY <1>4 DEF ShutdownStep
    <2>2. \/ dev' = [dev EXCEPT !.shn = TRUE]
          \/ \E r : dev' = [dev EXCEPT !.ioreg = r, !.en = FALSE]
      BY <1>4, Zenon DEF ShutdownStep
    <2>3. dev'.rdy = dev.rdy /\ dev'.asq = dev.asq /\ dev'.iocq = dev.iocq /\ (dev'.en => dev.en)
      BY <1>0, <2>2, Zenon DEF DevType
    <2>4. pc' \in Pcs \ (Kinds \cup {"poll", "wait_enabled"}) /\ pc' \notin Early
      BY <2>1 DEF Pcs, Kinds, AdminKinds, IoKinds, Early
    <2> QED
      BY <1>1, <1>2, <2>1, <2>3, <2>4, QueueRests, Zenon DEF Using
  <1> QED
    BY <1>3, <1>4, Zenon

\* ... and ends
LEMMA QueueShutdownEnds ==
    ASSUME Sane, LifeInv, QueueInv, ShutdownEnd, ~unreset'
    PROVE  QueueInv'
  <1>1. pc = "wait_off" /\ pc # "poll" /\ initialized
    BY Zenon DEF ShutdownEnd, LifeInv, Life, At, Serving
  <1>2. CASE type = "t8132"
    <2>1. (\E r : Return("shutdown", r)) /\ UNCHANGED <<gen, ngen, q, cqes, dev, dq, pend>>
      BY <1>2, Zenon DEF ShutdownEnd, memory, queue, device
    <2> QED
      BY <1>1, <2>1, QueueReturns, Zenon
  <1>3. CASE type # "t8132"
    <2>1. pc' = "idle" /\ cmd' = NoCmd /\ ~initialized' /\ dq' = Start /\ FreeQueues
      BY <1>3, Zenon DEF ShutdownEnd, Return, Reset
    <2> QED
      BY <2>1, QueueFrees, Zenon
  <1> QED
    BY <1>2, <1>3, ZenonT(30)

\* The commands of nvme_flush and nvme_read_blocks
LEMMA QueueServes ==
    ASSUME LifeInv, QueueInv, initialized, pc # "poll", UNCHANGED <<kept, queue, dev, dq>>, NEW kind \in IoKinds,
           NEW lba \in Int, NEW n \in Int, Issue("io", kind, lba, n)
    PROVE  QueueInv'
  <1>1. kind \in Kinds /\ QueueOf(kind) = "io"
    BY DEF Kinds, AdminKinds, IoKinds, QueueOf
  <1> QED
    BY <1>1, SessionIssues, Zenon DEF Using

\* nvme_flush
LEMMA QueueFlushes ==
    ASSUME LifeInv, QueueInv, nvme_flush
    PROVE  QueueInv'
  <1>1. UNCHANGED <<kept, queue, dev, dq>> /\ pc # "poll"
    BY Zenon DEF nvme_flush, kept, session, memory
  <1>2. UNCHANGED <<initialized, gen, ngen, q, cqes>>
    BY <1>1, Zenon DEF kept, queue
  <1>3. CASE Issue("io", "flush", 0, 0) /\ initialized
    <2>1. "flush" \in IoKinds /\ 0 \in Int
      BY DEF IoKinds
    <2> QED
      BY <1>1, <1>3, <2>1, QueueServes, Zenon
  <1>4. CASE ~(Issue("io", "flush", 0, 0) /\ initialized)
    <2>1. (\E r : Return("flush", r)) /\ UNCHANGED pend
      BY <1>4, Zenon DEF nvme_flush
    <2> QED
      BY <1>1, <1>2, <2>1, QueueReturns, Zenon
  <1> QED
    BY <1>3, <1>4, Zenon

\* nvme_read_blocks: a command, or the end
LEMMA ReadForms ==
    ASSUME Sane, LifeInv, req \in Request,
           \/ \E lba \in Lbas, n \in 1..MaxCount, mem \in BOOLEAN : nvme_read_blocks(lba, n, mem)
           \/ ReadMulti
           \/ ReadSingle
    PROVE  /\ UNCHANGED <<kept, queue, dev, dq, broken>> /\ pc \in Reading \cup {"idle"}
           /\ \/ (\E r : Return("read", r)) /\ UNCHANGED pend
              \/ initialized /\ \E kind \in IoKinds, lba \in Int, n \in Int : Issue("io", kind, lba, n)
  <1>0. {"multi", "verify", "single"} \subseteq IoKinds /\ {"multi", "verify", "single"} \subseteq Reading /\ 0 \in Int
    BY DEF IoKinds, Reading
  <1>i. pc \in Reading => initialized
    BY DEF LifeInv, Life, At, Reading, Serving, IoKinds
  <1>1. ASSUME NEW lba \in Lbas, NEW n \in 1..MaxCount, NEW mem \in BOOLEAN, nvme_read_blocks(lba, n, mem)
        PROVE  /\ UNCHANGED <<kept, queue, dev, dq, broken>> /\ pc \in Reading \cup {"idle"}
               /\ \/ (\E r : Return("read", r)) /\ UNCHANGED pend
                  \/ initialized /\ \E kind \in IoKinds, a \in Int, m \in Int : Issue("io", kind, a, m)
    <2>1. lba \in Int /\ n \in Int
      BY DEF Sane
    <2>2. UNCHANGED <<kept, queue, dev, dq, broken>> /\ pc = "idle"
      BY <1>1, Zenon DEF nvme_read_blocks, kept, session, memory
    <2>3. \/ Return("read", FALSE) /\ UNCHANGED pend
          \/ initialized /\ (Issue("io", "multi", lba, n) \/ Issue("io", "single", lba, 0))
      BY <1>1, Zenon DEF nvme_read_blocks
    <2> QED
      BY <1>0, <2>1, <2>2, <2>3, Zenon
  <1>2. ASSUME ReadMulti
        PROVE  /\ UNCHANGED <<kept, queue, dev, dq, broken>> /\ pc \in Reading \cup {"idle"}
               /\ \/ (\E r : Return("read", r)) /\ UNCHANGED pend
                  \/ initialized /\ \E kind \in IoKinds, a \in Int, m \in Int : Issue("io", kind, a, m)
    <2>1. /\ req.lba \in Int /\ req.lba + Compared(0) \in Int /\ req.lba + Compared(1) \in Int
      BY DEF Request, Compared
    <2>2. UNCHANGED <<kept, queue, dev, dq, broken>> /\ pc \in {"multi", "verify"}
      BY <1>2, Zenon DEF ReadMulti, kept, session, memory
    <2>3. \/ (\E r : Return("read", r)) /\ UNCHANGED pend
          \/ \E i \in {0, 1} : Issue("io", "verify", req.lba + Compared(i), 0)
          \/ Issue("io", "single", req.lba, 0)
      BY <1>2, Zenon DEF ReadMulti, VerifyRead
    <2> QED
      BY <1>0, <1>i, <2>1, <2>2, <2>3, Zenon
  <1>3. ASSUME ReadSingle
        PROVE  /\ UNCHANGED <<kept, queue, dev, dq, broken>> /\ pc \in Reading \cup {"idle"}
               /\ \/ (\E r : Return("read", r)) /\ UNCHANGED pend
                  \/ initialized /\ \E kind \in IoKinds, a \in Int, m \in Int : Issue("io", kind, a, m)
    <2>1. req.lba + req.i + 1 \in Int /\ req.i + 1 \in Int
      BY DEF Request
    <2>2. UNCHANGED <<kept, queue, dev, dq, broken>> /\ pc = "single"
      BY <1>3, Zenon DEF ReadSingle, kept, session, memory
    <2>3. \/ Return("read", ok) /\ UNCHANGED pend
          \/ Issue("io", "single", req.lba + req.i + 1, req.i + 1)
      BY <1>3, Zenon DEF ReadSingle
    <2> QED
      BY <1>0, <1>i, <2>1, <2>2, <2>3, Zenon
  <1> QED
    BY <1>1, <1>2, <1>3, Zenon

\* nvme_read_blocks
LEMMA QueueReads ==
    ASSUME Sane, LifeInv, QueueInv, req \in Request,
           \/ \E lba \in Lbas, n \in 1..MaxCount, mem \in BOOLEAN : nvme_read_blocks(lba, n, mem)
           \/ ReadMulti
           \/ ReadSingle
    PROVE  QueueInv'
  <1>1. /\ UNCHANGED <<kept, queue, dev, dq>> /\ pc \in Reading \cup {"idle"}
        /\ \/ (\E r : Return("read", r)) /\ UNCHANGED pend
           \/ initialized /\ \E kind \in IoKinds, lba \in Int, n \in Int : Issue("io", kind, lba, n)
    BY ReadForms, Zenon
  <1>2. pc # "poll"
    BY <1>1 DEF Reading
  <1>3. UNCHANGED <<initialized, gen, ngen, q, cqes, dq, dev>>
    BY <1>1, Zenon DEF kept, queue
  <1> QED
    BY <1>1, <1>2, <1>3, QueueReturns, QueueServes, Zenon

\* QueueInv is inductive as long as every reset works
LEMMA QueueStep ==
    ASSUME Sane, LifeInv, QueueInv, req \in Request, [Next]_vars, ~unreset'
    PROVE  QueueInv'
  <1>1. CASE Device
    BY <1>1, QueueDevices, QueueExecutes, Zenon DEF Device
  <1>2. CASE Driver
    BY <1>2, QueueCompletes, QueueTimesOut, QueueInits, QueueSetsUp, QueueCreates, QueueDisables, QueueOut,
       QueueShutsDown, QueueShutdownSteps, QueueShutdownEnds, QueueFlushes, QueueReads, Zenon DEF Driver
  <1>3. CASE UNCHANGED vars
    <2>1. UNCHANGED <<pc, cmd, ok, initialized, gen, ngen, q, cqes, dev, dq, pend>>
      BY <1>3, Zenon DEF vars, session, memory, queue, locals, device
    <2> QED
      BY <2>1, QueueDevice, Zenon
  <1> QED
    BY <1>1, <1>2, <1>3, Zenon DEF Next

\* ... and true at the start
LEMMA QueueInit ==
    ASSUME Sane, Init
    PROVE  QueueInv
  <1>1. QueueTypes
    <2>1. q \in [Queues -> [head : Slots, phase : {0, 1}, failed : BOOLEAN]]
      BY DEF Init, NewQueue, Slots, Sane
    <2>2. dq \in [Queues -> [tail : Slots, phase : {0, 1}]]
      BY DEF Init, Start, Slots, Sane
    <2>3. cqes \in Memories
      BY DEF Init, Memories, Slots, Empty, Completion
    <2>4. Issued(cmd)
      BY DEF Init, Issued, NoCmd
    <2> QED
      BY <2>1, <2>2, <2>3, <2>4, Zenon DEF QueueTypes
  <1>2. Unused
    BY DEF Init, Unused, Blank, Slots, Empty
  <1>3. pc = "idle" /\ At = "idle" /\ ~Using
    BY DEF Init, At, Using, Creating
  <1>4. Prepared /\ Known /\ Synced
    BY <1>3 DEF Prepared, Known, Synced, Early
  <1>5. CompletionMatches
    BY <1>3 DEF Init, CompletionMatches, NoCmd
  <1> QED
    BY <1>1, <1>2, <1>3, <1>4, <1>5 DEF QueueInv

\* For any queues, reads, sessions and faults, as long as no reset of ANS has failed, a command that succeeds took
\* its own completion, never the late one of an earlier command (nvme_exec_command: the phase bit and q->failed)
THEOREM CompletionTheorem ==
    ASSUME Sane
    PROVE  Spec => [](unreset \/ CompletionMatches)
  <1> DEFINE Inv == Elder /\ (unreset \/ (LifeInv /\ req \in Request /\ QueueInv))
  <1>1. Init => Inv
    BY LifeInit, QueueInit, ElderInit, Zenon
  <1>2. Inv /\ [Next]_vars => Inv'
    BY LifeStep, RequestStep, QueueStep, ElderStep, Zenon
  <1>3. Inv => unreset \/ CompletionMatches
    BY Zenon DEF QueueInv
  <1> QED
    BY <1>1, <1>2, <1>3, PTL DEF Spec
-----------------------------------------------------------------------------
(* The steps as far as DataInv is concerned                                *)

\* While nobody waits for it the I/O queue holds no command, and while somebody does only that one
LEMMA IoHolds ==
    ASSUME QueueInv, Using, ~q["io"].failed
    PROVE  /\ pend["io"] \subseteq {cmd.c} /\ (pend["io"] # {} => Waits("io"))
           /\ cqes[gen]["io"][q["io"].head].phase = q["io"].phase => Answered("io")
  <1>1. InStep("io") /\ q["io"] \in [head : Slots, phase : {0, 1}, failed : BOOLEAN]
    BY Zenon DEF QueueInv, QueueTypes, Synced, Queues
  <1>2. q["io"].head \in Slots /\ Old("io", q["io"].head) # q["io"].phase
    <2>1. q["io"].head \in Slots /\ q["io"].phase \in {0, 1} /\ ~(q["io"].head < q["io"].head)
      BY <1>1 DEF Slots
    <2> QED
      BY <2>1 DEF Old
  <1>3. Taken("io") => cqes[gen]["io"][q["io"].head].phase # q["io"].phase
    BY <1>2, Zenon DEF Taken
  <1>4. Answered("io") => pend["io"] = {}
    BY Zenon DEF Answered
  <1> QED
    BY <1>1, <1>3, <1>4, Zenon DEF InStep

\* A read in progress is one of an initialized controller
LEMMA ReadUses ==
    ASSUME LifeInv, At \in IoKinds
    PROVE  initialized /\ Using
  BY Zenon DEF LifeInv, Life, Serving, Using

\* Nothing is written and no call moves
LEMMA DataRests ==
    ASSUME LifeInv, QueueInv, DataInv, pend'["io"] \subseteq pend["io"], Using => cqes'[gen]["io"] = cqes[gen]["io"],
           UNCHANGED <<pc, cmd, ok, req, ret, initialized, gen, q, buf, bounce, broken, multi_verified>>
    PROVE  DataInv'
  <1>0. DataTypes /\ Multi /\ Single /\ Argument /\ Delivered /\ Working
    BY Zenon DEF DataInv
  <1>1. At' = At
    BY Zenon DEF At
  <1>2. DataTypes'
    BY <1>0, Zenon DEF DataTypes
  <1>3. ASSUME At \in IoKinds, ~q["io"].failed, NEW k, Good(k)'
        PROVE  Good(k)
    <2>1. cqes[gen]["io"][q["io"].head].phase = q["io"].phase => pend["io"] = {}
      BY <1>3, ReadUses, IoHolds, Zenon DEF Answered
    <2>2. cqes'[gen]["io"] = cqes[gen]["io"]
      BY <1>3, ReadUses, Zenon
    <2>3. Served' => Served
      BY <2>1, <2>2, Zenon DEF Served, Waits
    <2> QED
      BY <1>3, <2>3, Zenon DEF Good
  <1>4. {"multi", "verify", "single"} \subseteq IoKinds
    BY DEF IoKinds
  <1>5. Multi'
    BY <1>0, <1>1, <1>3, <1>4, Zenon DEF Multi, Done
  <1>6. Single'
    BY <1>0, <1>1, <1>3, <1>4, Zenon DEF Single, Done
  <1>7. Argument' /\ Delivered' /\ Working'
    BY <1>0, Zenon DEF Argument, Delivered, Working, Done
  <1> QED
    BY <1>2, <1>5, <1>6, <1>7, Zenon DEF DataInv

\* A step outside the reads
LEMMA DataElsewhere ==
    ASSUME DataTypes', At' \notin Reading, pc' = "idle" => ret'.op # "read", pc' \in IoKinds => ~ok'
    PROVE  DataInv'
  <1>1. Multi' /\ Single'
    BY DEF Multi, Single, Reading
  <1>2. Argument'
    BY DEF Argument, At, Reading
  <1>3. Delivered' /\ Working'
    BY DEF Delivered, Working
  <1> QED
    BY <1>1, <1>2, <1>3, Zenon DEF DataInv

\* Where the completion of a command goes
LEMMA ExecuteWrites ==
    ASSUME Sane, LifeInv, QueueInv, Using, NEW x \in Queues, NEW c \in pend[x], NEW good \in BOOLEAN, NEW tag \in {0, 1},
           DevExecute(x, c, good, tag)
    PROVE  /\ ~q[x].failed => cqes'[gen][x][q[x].head].good = good
           /\ \A y \in Queues : y # x => cqes'[gen][y] = cqes[gen][y]
  <1>0. QueueTypes /\ Known /\ Synced /\ Typed /\ Memory
    BY Zenon DEF QueueInv, LifeInv
  <1> DEFINE g == CqMemory(x)
             t == dq[x].tail
             e == [phase |-> dq[x].phase, id |-> c.id, tag |-> tag, good |-> good]
  <1>1. g # 0 /\ cqes' = [cqes EXCEPT ![g][x][t] = e] /\ dev.rdy
    BY ZenonT(30) DEF DevExecute
  <1> HIDE DEF DevExecute
  <1>2. g \in {dev.asq, dev.iocq}
    BY <1>1 DEF CqMemory
  <1>3. g = gen /\ gen \in Gens
    <2>1. g = gen
      BY <1>0, <1>1, <1>2, Zenon DEF Known
    <2>2. gen \in 1..ngen /\ ngen \in 0..MaxInits
      BY <1>0, ZenonT(30) DEF Typed, Memory, Using, Creating
    <2> QED
      BY <2>1, <2>2 DEF Gens, Sane
  <1>4. e.good = good
    OBVIOUS
  <1> HIDE DEF g, t, e
  <1>5. cqes \in [Gens -> [Queues -> [Slots -> Completion]]] /\ cqes' = [cqes EXCEPT ![gen][x][t] = e]
    BY <1>0, <1>1, <1>3, ZenonT(30) DEF QueueTypes, Memories
  <1>6. \A y \in Queues : y # x => cqes'[gen][y] = cqes[gen][y]
    BY <1>3, <1>5
  <1>7. ASSUME ~q[x].failed
        PROVE  cqes'[gen][x][q[x].head].good = good
    <2>1. Taken(x)
      BY <1>0, <1>7, Zenon DEF Synced, InStep, Answered
    <2>2. t = q[x].head /\ q[x] \in [head : Slots, phase : {0, 1}, failed : BOOLEAN]
      BY <1>0, <1>1, <2>1 DEF Taken, Here, t, QueueTypes
    <2>3. q[x].head \in Slots
      BY <2>2, SMTT(30)
    <2>4. cqes'[gen][x][q[x].head] = e
      BY <1>3, <1>5, <2>2, <2>3
    <2> QED
      BY <1>4, <2>4, Zenon
  <1> QED
    BY <1>6, <1>7, Zenon

\* What it reads
LEMMA ExecuteReads ==
    ASSUME DataTypes, NEW x \in Queues, NEW c \in pend[x], NEW good \in BOOLEAN, NEW tag \in {0, 1}, c \in Command,
           DevExecute(x, c, good, tag), x = "io"
    PROVE  /\ buf' \in [0..MaxCount - 1 -> Int] /\ bounce' \in Int \ {Fill}
           /\ ~(good /\ c.kind \in {"multi", "single"}) => buf' = buf
           /\ good /\ c.kind = "multi" =>
                 \A i \in 0..MaxCount - 1 : buf'[i] = IF i \in Blocks(c) THEN c.lba + i ELSE buf[i]
           /\ good /\ c.kind = "single" => \A i \in 0..MaxCount - 1 : buf'[i] = IF i = c.n THEN c.lba ELSE buf[i]
  <1>0. buf \in [0..MaxCount - 1 -> Int] /\ bounce \in Int \ {Fill} /\ c.lba \in Nat
    BY Zenon DEF DataTypes
  <1>1. bounce' = IF good /\ c.kind = "verify" THEN c.lba ELSE bounce
    BY Zenon DEF DevExecute
  <1>2. IF good /\ c.kind \in {"multi", "single"}
        THEN buf' = [i \in DOMAIN buf |->
                        IF c.kind = "multi" THEN IF i \in Blocks(c) THEN c.lba + i ELSE buf[i]
                                            ELSE IF i = c.n THEN c.lba ELSE buf[i]]
        ELSE buf' = buf
    BY Zenon DEF DevExecute
  <1> HIDE DEF DevExecute
  <1>3. bounce' \in Int \ {Fill}
    BY <1>0, <1>1 DEF Fill
  <1>4. CASE ~(good /\ c.kind \in {"multi", "single"})
    BY <1>0, <1>2, <1>3, <1>4, Zenon
  <1>5. CASE good /\ c.kind = "multi"
    <2>1. buf' = [i \in 0..MaxCount - 1 |-> IF i \in Blocks(c) THEN c.lba + i ELSE buf[i]]
      BY <1>0, <1>2, <1>5
    <2> HIDE DEF Blocks
    <2>2. buf' \in [0..MaxCount - 1 -> Int]
      BY <1>0, <2>1
    <2>3. c.kind # "single"
      BY <1>5
    <2> QED
      BY <1>3, <1>5, <2>1, <2>2, <2>3, Zenon
  <1>6. CASE good /\ c.kind = "single"
    <2>1. buf' = [i \in 0..MaxCount - 1 |-> IF i = c.n THEN c.lba ELSE buf[i]]
      BY <1>0, <1>2, <1>6
    <2>2. buf' \in [0..MaxCount - 1 -> Int]
      BY <1>0, <2>1
    <2>3. c.kind # "multi"
      BY <1>6
    <2> QED
      BY <1>3, <1>6, <2>1, <2>2, <2>3, Zenon
  <1> QED
    BY <1>4, <1>5, <1>6, Zenon

\* A command is executed
LEMMA DataExecutes ==
    ASSUME Sane, LifeInv, QueueInv, DataInv, req \in Request, NEW x \in Queues, NEW c \in pend[x], NEW good \in BOOLEAN,
           NEW tag \in {0, 1}, DevExecute(x, c, good, tag)
    PROVE  DataInv'
  <1>0. DataTypes /\ Multi /\ Single /\ Argument /\ Delivered /\ Working
    BY Zenon DEF DataInv
  <1>1. UNCHANGED <<pc, cmd, ok, req, ret, initialized, gen, q, broken, multi_verified>>
    BY ExecuteLeaves, Zenon DEF session, memory, locals
  <1>2. c \in Command /\ pend' = [pend EXCEPT ![x] = @ \ {c}] /\ pend \in [Queues -> SUBSET Command]
    <2>1. /\ dev.rdy /\ dev'.rdy = dev.rdy /\ c \in Command
          /\ pend' = [pend EXCEPT ![x] = @ \ {c}] /\ \A y \in Queues : \A e \in pend'[y] : e \in pend[y]
      BY ExecuteMoves, Zenon
    <2>2. pend \in [Queues -> SUBSET Command]
      BY Zenon DEF LifeInv, Typed
    <2> QED
      BY <2>1, <2>2, Zenon
  <1>3. QueueOf(c.kind) = x /\ x \in {"admin", "io"} /\ pend'["io"] \subseteq pend["io"]
    <2>1. QueueOf(c.kind) = x
      BY Zenon DEF LifeInv, Controller
    <2>2. x \in {"admin", "io"}
      BY DEF Queues
    <2>3. \A y \in Queues : pend'[y] \subseteq pend[y]
      BY <1>2, Zenon
    <2> QED
      BY <2>1, <2>2, <2>3, Zenon DEF Queues
  <1>4. CASE x = "admin"
    <2>1. c.kind \notin {"multi", "single", "verify"}
      BY <1>2, <1>3, <1>4 DEF QueueOf, AdminKinds
    <2>2. buf' = buf /\ bounce' = bounce
      BY <2>1, Zenon DEF DevExecute
    <2>3. Using => cqes'[gen]["io"] = cqes[gen]["io"]
      <3>1. "io" \in Queues /\ "io" # x
        BY <1>4 DEF Queues
      <3> QED
        BY <3>1, ExecuteWrites, ZenonT(30)
    <2> QED
      BY <1>1, <1>3, <2>2, <2>3, DataRests, Zenon
  <1>5. CASE x = "io"
    <2>1. /\ buf' \in [0..MaxCount - 1 -> Int] /\ bounce' \in Int \ {Fill}
          /\ ~(good /\ c.kind \in {"multi", "single"}) => buf' = buf
          /\ good /\ c.kind = "multi" =>
                \A i \in 0..MaxCount - 1 : buf'[i] = IF i \in Blocks(c) THEN c.lba + i ELSE buf[i]
          /\ good /\ c.kind = "single" => \A i \in 0..MaxCount - 1 : buf'[i] = IF i = c.n THEN c.lba ELSE buf[i]
      BY <1>0, <1>2, <1>5, ExecuteReads, ZenonT(30)
    <2>a. Using /\ ~q["io"].failed => cqes'[gen]["io"][q["io"].head].good = good
      BY <1>5, ExecuteWrites, Zenon
    <2> HIDE DEF DevExecute
    <2>2. DataTypes'
      BY <1>0, <1>1, <1>3, <2>1, Zenon DEF DataTypes
    <2>3. Using /\ ~q["io"].failed => pc = "poll" /\ c = cmd.c
      BY <1>5, IoHolds, Zenon DEF Waits
    <2>4. Argument' /\ Working'
      BY <1>0, <1>1, ZenonT(30) DEF Argument, Working
    <2>5. Delivered'
      <3> SUFFICES ASSUME pc = "idle", ret = [op |-> "read", ok |-> TRUE]
                   PROVE  FALSE
        BY <1>1, Zenon DEF Delivered
      <3>1. Using /\ ~q["io"].failed
        BY <1>0, Zenon DEF Delivered, Using
      <3> QED
        BY <2>3, <3>1
    <2>6. At' = At
      BY <1>1, Zenon DEF At
    <2>7. ASSUME At \in Reading, ~q["io"].failed
          PROVE  /\ pc = "poll" /\ c = cmd.c /\ c.kind = At /\ \A k \in IoKinds : Good(k)' => good
      <3>1. Using
        <4>1. At \in IoKinds
          BY <2>7 DEF Reading, IoKinds
        <4> QED
          BY <4>1, ReadUses, Zenon
      <3>2. pc = "poll" /\ c = cmd.c /\ cqes'[gen]["io"][q["io"].head].good = good
        BY <2>3, <2>7, <2>a, <3>1, ZenonT(30)
      <3>3. \A k \in IoKinds : Good(k)' => Served'
        BY <1>1, <3>2 DEF Good, IoKinds
      <3>4. Served' => good
        BY <1>1, <3>2, Zenon DEF Served
      <3> QED
        BY <3>2, <3>3, <3>4, Zenon DEF At
    <2>8. Multi'
      <3> SUFFICES ASSUME At \in {"multi", "verify"}, ~q["io"].failed
                   PROVE  /\ req.n \in 2..MaxCount
                          /\ broken => buf'[req.n - 1] = Fill
                          /\ ~broken /\ (At = "verify" \/ Good("multi")') => \A j \in 0..req.n - 1 : Done(j)'
        BY <1>1, <2>6, Zenon DEF Multi
      <3>1. At \in Reading
        BY DEF Reading
      <3>2. pc = "poll" /\ c = cmd.c /\ c.kind = At /\ (Good("multi")' => good)
        BY <2>7, <3>1, Zenon DEF IoKinds
      <3>3. req.n \in 2..MaxCount /\ (broken => buf[req.n - 1] = Fill)
        BY <1>0, Zenon DEF Multi
      <3>4. CASE At = "verify"
        <4>1. buf' = buf
          BY <2>1, <3>2, <3>4
        <4> QED
          BY <1>0, <1>1, <3>3, <3>4, <4>1, ZenonT(30) DEF Multi, Done
      <3>5. CASE At = "multi" /\ ~good
        <4>1. buf' = buf
          BY <2>1, <3>5, Zenon
        <4>2. At # "verify"
          BY <3>5
        <4> QED
          BY <3>2, <3>3, <3>5, <4>1, <4>2, Zenon
      <3>6. CASE At = "multi" /\ good
        <4>1. c.lba = req.lba /\ c.n = req.n
          BY <1>0, <3>2, <3>6, Zenon DEF Argument
        <4>2. \A i \in 0..MaxCount - 1 : buf'[i] = IF i \in Blocks(c) THEN c.lba + i ELSE buf[i]
          BY <2>1, <3>2, <3>6, ZenonT(30)
        <4>3. req.n - 1 \in 0..MaxCount - 1 /\ req.n - 1 # 0 /\ \A j \in 0..req.n - 1 : j \in 0..MaxCount - 1
          BY <3>3 DEF Sane
        <4>4. broken => buf'[req.n - 1] = Fill
          <5>1. broken => Blocks(c) = {0}
            BY Zenon DEF Blocks
          <5> QED
            BY <3>3, <4>2, <4>3, <5>1, Zenon
        <4>5. ~broken => \A j \in 0..req.n - 1 : buf'[j] = req.lba + j
          <5>1. ~broken => Blocks(c) = 0..req.n - 1
            BY <4>1, Zenon DEF Blocks
          <5> QED
            BY <4>1, <4>2, <4>3, <5>1, Zenon
        <4> QED
          BY <1>1, <3>3, <4>4, <4>5, Zenon DEF Done
      <3> QED
        BY <3>4, <3>5, <3>6, Zenon
    <2>9. Single'
      <3> SUFFICES ASSUME At = "single", ~q["io"].failed
                   PROVE  /\ req.i < req.n /\ req.n \in 1..MaxCount
                          /\ \A j \in 0..req.i - 1 : Done(j)'
                          /\ Good("single")' => Done(req.i)'
        BY <1>1, <2>6, Zenon DEF Single
      <3>1. At \in Reading /\ "single" \in IoKinds
        BY DEF Reading, IoKinds
      <3>2. pc = "poll" /\ c = cmd.c /\ c.kind = "single" /\ (Good("single")' => good)
        BY <2>7, <3>1, Zenon
      <3>3. req.i < req.n /\ req.n \in 1..MaxCount /\ \A j \in 0..req.i - 1 : buf[j] = req.lba + j
        BY <1>0, Zenon DEF Single, Done
      <3>4. CASE ~good
        <4>1. buf' = buf
          BY <2>1, <3>4, Zenon
        <4> QED
          BY <1>1, <3>2, <3>3, <3>4, <4>1, Zenon DEF Done
      <3>5. CASE good
        <4>1. c.lba = req.lba + req.i /\ c.n = req.i
          BY <1>0, <3>2, Zenon DEF Argument
        <4>2. \A i \in 0..MaxCount - 1 : buf'[i] = IF i = req.i THEN req.lba + req.i ELSE buf[i]
          BY <2>1, <3>2, <3>5, <4>1, ZenonT(30)
        <4>3. req.i \in 0..MaxCount - 1 /\ \A j \in 0..req.i - 1 : j \in 0..MaxCount - 1 /\ j # req.i
          BY <3>3 DEF Sane, Request
        <4>4. buf'[req.i] = req.lba + req.i /\ \A j \in 0..req.i - 1 : buf'[j] = buf[j]
          BY <4>2, <4>3, Zenon
        <4> QED
          BY <1>1, <3>3, <4>4, Zenon DEF Done
      <3> QED
        BY <3>4, <3>5, Zenon
    <2> QED
      BY <2>2, <2>4, <2>5, <2>8, <2>9, Zenon DEF DataInv
  <1> QED
    BY <1>3, <1>4, <1>5, Zenon

\* A completion is taken, or a command given up
LEMMA DataPolls ==
    ASSUME Sane, LifeInv, QueueInv, DataInv, ExecComplete \/ ExecTimeout
    PROVE  DataInv'
  <1>0. DataTypes /\ Multi /\ Single /\ Argument /\ QueueTypes
    BY Zenon DEF DataInv, QueueInv
  <1>1. /\ pc = "poll" /\ pc' = cmd.c.kind /\ UNCHANGED <<req, buf, bounce, multi_verified, broken, pend, gen>>
        /\ \/ q' = [q EXCEPT ![cmd.x].failed = TRUE] /\ ok' = FALSE
           \/ LET x == cmd.x
                  cqe == cqes[gen][x][q[x].head]
              IN  /\ cqe.phase = q[x].phase
                  /\ q' = [q EXCEPT ![x] = [Advance(@) EXCEPT !.failed = ~(cqe.tag = 0)]]
                  /\ ok' = (cqe.tag = 0 /\ cqe.good)
    BY Zenon DEF ExecComplete, ExecTimeout, memory, reading, device
  <1>2. Using /\ cmd.x \in Queues /\ cmd.c.kind \in Kinds /\ At = cmd.c.kind
    BY <1>1, PollUses, Zenon
  <1>3. pc' # "poll" /\ pc' # "idle" /\ At' = At /\ At = pc'
    <2>1. pc' # "poll" /\ pc' # "idle"
      BY <1>1, <1>2, Zenon DEF Kinds, AdminKinds, IoKinds
    <2> QED
      BY <1>1, <1>2, <2>1, ZenonT(30) DEF At
  <1>4. DataTypes' /\ Argument' /\ Delivered'
    BY <1>0, <1>1, <1>3, ZenonT(30) DEF DataTypes, Argument, Delivered
  <1>5. At \in IoKinds => cmd.x = "io"
    BY <1>1, <1>2, Zenon DEF LifeInv, Typed, QueueOf, AdminKinds, IoKinds
  <1>6. q["io"] \in [head : Slots, phase : {0, 1}, failed : BOOLEAN] /\ q \in [Queues -> [head : Slots, phase : {0, 1}, failed : BOOLEAN]]
    BY <1>0, Zenon DEF QueueTypes, Queues
  <1>7. ASSUME At \in IoKinds
        PROVE  ~q["io"].failed /\ (ok' => ~q'["io"].failed /\ Served)
    <2>1. ~q["io"].failed /\ cmd.x = "io" /\ "io" \in Queues
      BY <1>1, <1>5, <1>7, Zenon DEF QueueInv, Queues
    <2>2. ASSUME ok'
          PROVE  ~q'["io"].failed /\ Served
      <3> DEFINE cqe == cqes[gen]["io"][q["io"].head]
      <3>1. /\ cqe.phase = q["io"].phase /\ cqe.tag = 0 /\ cqe.good
            /\ q' = [q EXCEPT !["io"] = [Advance(@) EXCEPT !.failed = ~(cqe.tag = 0)]]
        BY <1>1, <2>1, <2>2, Zenon
      <3> HIDE DEF cqe
      <3>2. q'["io"] = [Advance(q["io"]) EXCEPT !.failed = ~(cqe.tag = 0)]
        BY <1>6, <2>1, <3>1, Zenon
      <3>3. q'["io"].failed = ~(cqe.tag = 0)
        <4>1. (~(cqe.tag = 0)) \in BOOLEAN
          OBVIOUS
        <4> QED
          BY <1>6, <3>2, <4>1, AdvanceMoves, Zenon
      <3>4. Answered("io")
        BY <1>2, <2>1, <3>1, IoHolds, Zenon DEF cqe
      <3> QED
        BY <1>1, <2>1, <3>1, <3>3, <3>4, Zenon DEF Served, Waits, Answered, cqe
    <2> QED
      BY <2>1, <2>2, Zenon
  <1>8. Working'
    BY <1>3, <1>7, Zenon DEF Working
  <1>9. ASSUME At \in IoKinds, Good(At)'
        PROVE  Good(At)
    <2>1. ok'
      BY <1>3, <1>9, Zenon DEF Good
    <2> QED
      BY <1>1, <1>2, <1>7, <1>9, <2>1, Zenon DEF Good
  <1>10. {"multi", "verify", "single"} \subseteq IoKinds
    BY DEF IoKinds
  <1>11. Multi'
    <2>1. CASE At = "multi"
      BY <1>0, <1>1, <1>3, <1>7, <1>9, <1>10, <2>1, ZenonT(30) DEF Multi, Done
    <2>2. CASE At # "multi"
      BY <1>0, <1>1, <1>3, <1>7, <1>10, <2>2, Zenon DEF Multi, Done
    <2> QED
      BY <2>1, <2>2, ZenonT(30)
  <1>12. Single'
    BY <1>0, <1>1, <1>3, <1>7, <1>9, <1>10, Zenon DEF Single, Done
  <1> QED
    BY <1>4, <1>8, <1>11, <1>12, Zenon DEF DataInv

\* What an I/O command changes when it is issued
LEMMA DataIssues ==
    ASSUME LifeInv, QueueInv, DataTypes, initialized, pc # "poll", UNCHANGED <<kept, queue, dev>>, NEW kind \in IoKinds,
           NEW lba \in Nat, NEW n \in Int, Issue("io", kind, lba, n)
    PROVE  /\ At' = kind /\ pc' # "idle" /\ (pc' \in IoKinds => ~ok')
           /\ \A c \in pend'["io"] : c.lba \in Nat
           /\ pc' = "poll" => cmd'.c.kind = kind /\ cmd'.c.lba = lba /\ cmd'.c.n = n
           /\ ~q["io"].failed => \A k \in IoKinds : ~Good(k)'
  <1>1. kind \in Kinds /\ QueueOf(kind) = "io" /\ lba \in Int /\ kind # "idle" /\ kind # "poll" /\ "io" \in Queues
    BY DEF Kinds, IoKinds, AdminKinds, QueueOf, Queues
  <1>2. pc' \in {kind, "poll"} /\ At' = kind
    BY <1>1, IssueMoves, Zenon
  <1>3. pend \in [Queues -> SUBSET Command] /\ \A c \in pend["io"] : c.lba \in Nat
    BY Zenon DEF LifeInv, Typed, DataTypes
  <1> DEFINE d == [kind |-> kind, id |-> ncmd + 1, gen |-> gen, lba |-> lba, n |-> n]
  <1>4. IF Refuses("io")
        THEN pc' = kind /\ ~ok' /\ pend' = pend
        ELSE /\ pc' = "poll" /\ cmd' = [c |-> d, x |-> "io", got |-> 0]
             /\ pend' = [pend EXCEPT !["io"] = IF dev.rdy /\ ~dev.shst THEN @ \cup {d} ELSE @]
    BY Zenon DEF Issue
  <1>5. d.kind = kind /\ d.lba = lba /\ d.n = n
    OBVIOUS
  <1> HIDE DEF d, Issue
  <1>6. CASE Refuses("io")
    BY <1>1, <1>2, <1>3, <1>4, <1>6, Zenon DEF Refuses
  <1>7. CASE ~Refuses("io")
    <2>1. pc' = "poll" /\ cmd' = [c |-> d, x |-> "io", got |-> 0]
      BY <1>4, <1>7, Zenon
    <2>2. cmd'.c = d
      BY <2>1
    <2>3. pend'["io"] \subseteq pend["io"] \cup {d}
      BY <1>1, <1>3, <1>4, <1>7, Zenon
    <2>4. ~Served'
      <3>1. ~(cqes[gen]["io"][q["io"].head].phase = q["io"].phase)
        <4>1. InStep("io") /\ ~Waits("io")
          BY <1>1, <1>7, Zenon DEF QueueInv, Synced, Using, Refuses, Waits
        <4>2. pend["io"] = {} /\ Taken("io")
          BY <4>1, Zenon DEF InStep
        <4>3. q["io"] \in [head : Slots, phase : {0, 1}, failed : BOOLEAN]
          BY <1>1, ZenonT(30) DEF QueueInv, QueueTypes
        <4>4. q["io"].head \in Slots /\ Old("io", q["io"].head) # q["io"].phase
          <5>1. q["io"].head \in Slots /\ q["io"].phase \in {0, 1} /\ ~(q["io"].head < q["io"].head)
            BY <4>3 DEF Slots
          <5> QED
            BY <5>1 DEF Old
        <4> QED
          BY <4>2, <4>4, Zenon DEF Taken
      <3>2. gen' = gen /\ q' = q /\ cqes' = cqes
        BY Zenon DEF kept, queue
      <3> QED
        BY <3>1, <3>2, Zenon DEF Served
    <2>5. \A k \in IoKinds : ~Good(k)'
      BY <2>1, <2>4 DEF Good, IoKinds
    <2>6. pc' \notin IoKinds /\ pc' # "idle"
      BY <2>1 DEF IoKinds
    <2> QED
      BY <1>2, <1>3, <1>5, <2>1, <2>2, <2>3, <2>5, <2>6, Zenon
  <1> QED
    BY <1>6, <1>7, Zenon

\* A step of nvme_init or nvme_shutdown
LEMMA DataApart ==
    ASSUME DataTypes, UNCHANGED <<buf, bounce, multi_verified, broken>>, pend'["io"] \subseteq pend["io"],
           At' \notin Reading, pc' \notin IoKinds, pc' = "idle" => ret'.op # "read"
    PROVE  DataInv'
  <1>1. DataTypes'
    BY Zenon DEF DataTypes
  <1> QED
    BY <1>1, DataElsewhere, Zenon

\* An admin command leaves the I/O queue alone
LEMMA AdminIssues ==
    ASSUME LifeInv, NEW kind \in AdminKinds, Issue("admin", kind, 0, 0), UNCHANGED <<kept, dev>>
    PROVE  At' \notin Reading /\ pc' \notin IoKinds /\ pc' # "idle" /\ pend'["io"] \subseteq pend["io"]
  <1>1. kind \in Kinds /\ QueueOf(kind) = "admin" /\ 0 \in Int
    BY DEF Kinds, QueueOf
  <1>2. pc' \in {kind, "poll"} /\ At' = kind
    BY <1>1, IssueMoves, Zenon
  <1>3. kind \notin Reading /\ pc' \notin IoKinds /\ pc' # "idle"
    BY <1>2 DEF AdminKinds, Reading, IoKinds
  <1>4. pend'["io"] = pend["io"]
    <2>1. pend \in [Queues -> SUBSET Command] /\ "io" \in Queues /\ "io" # "admin"
      BY DEF LifeInv, Typed, Queues
    <2>2. pend' = pend \/ \E v : pend' = [pend EXCEPT !["admin"] = v]
      BY Zenon DEF Issue
    <2> QED
      BY <2>1, <2>2, ZenonT(30)
  <1> QED
    BY <1>2, <1>3, <1>4, Zenon

\* nvme_init forgets what was read
LEMMA DataInits ==
    ASSUME DataInv, nvme_init
    PROVE  DataInv'
  <1>1. /\ bounce' = Junk /\ buf' = [i \in DOMAIN buf |-> Junk] /\ UNCHANGED <<pend, broken>>
        /\ multi_verified' = multi_verified \/ multi_verified' = FALSE
    BY Zenon DEF nvme_init, device
  <1>2. buf \in [0..MaxCount - 1 -> Int] /\ DataTypes
    BY Zenon DEF DataInv, DataTypes
  <1>3. buf' \in [0..MaxCount - 1 -> Int] /\ bounce' \in Int \ {Fill}
    BY <1>1, <1>2 DEF Junk, Fill
  <1>4. broken' \in BOOLEAN /\ (multi_verified' => ~broken')
    <2>1. broken \in BOOLEAN /\ (multi_verified => ~broken)
      BY <1>2, Zenon DEF DataTypes
    <2> QED
      BY <1>1, <2>1
  <1>5. DataTypes'
    BY <1>1, <1>2, <1>3, <1>4, Zenon DEF DataTypes
  <1>6. pc' = "setup" \/ pc' = "rtkit_boot" \/ (pc' = "idle" /\ \E r : ret' = [op |-> "init", ok |-> r])
    BY Zenon DEF nvme_init, Return
  <1>7. (\E r : ret' = [op |-> "init", ok |-> r]) => ret'.op # "read"
    OBVIOUS
  <1>8. At' \notin Reading /\ pc' \notin IoKinds /\ (pc' = "idle" => ret'.op # "read")
    BY <1>6, <1>7 DEF At, Reading, IoKinds
  <1> QED
    BY <1>5, <1>8, DataElsewhere, Zenon

\* The rest of nvme_init
LEMMA DataSetsUp ==
    ASSUME LifeInv, DataInv,
           \/ (\E good \in BOOLEAN : RtkitBoot(good)) \/ BootStatus \/ SetupController \/ SetupAdminQueue
           \/ CreateQueues \/ OutDisableCtrl \/ OutShutdown \/ OutRtkit
    PROVE  DataInv'
  <1>0. DataTypes
    BY Zenon DEF DataInv
  <1>1. CASE (\E good \in BOOLEAN : RtkitBoot(good)) \/ BootStatus \/ SetupController \/ SetupAdminQueue \/ OutDisableCtrl
    <2>1. UNCHANGED <<buf, bounce, multi_verified, broken, pend>>
      BY <1>1, Zenon DEF RtkitBoot, BootStatus, SetupController, SetupAdminQueue, OutDisableCtrl, reading, device
    <2>2. pc' \in Early \cup {"wait_enabled", "out_shutdown", "out_wait_shutdown", "out_wait_disabled"}
      BY <1>1 DEF RtkitBoot, BootStatus, SetupController, SetupAdminQueue, OutDisableCtrl, Early
    <2>3. At' \notin Reading /\ pc' \notin IoKinds /\ pc' # "idle"
      BY <2>2 DEF At, Early, Reading, IoKinds
    <2> QED
      BY <1>0, <2>1, <2>3, DataApart, Zenon
  <1>2. CASE OutShutdown \/ OutRtkit
    <2>1. UNCHANGED <<buf, bounce, multi_verified, broken>> /\ pend' \in {pend, Nothing}
      BY <1>2, Zenon DEF OutShutdown, OutRtkit, Reset, reading, device, Nothing
    <2>2. pc' = "idle" /\ ret' = [op |-> "init", ok |-> FALSE]
      BY <1>2, Zenon DEF OutShutdown, OutRtkit, Return
    <2>3. At' \notin Reading /\ pc' \notin IoKinds /\ ret'.op # "read"
      BY <2>2 DEF At, Reading, IoKinds
    <2>4. pend'["io"] \subseteq pend["io"]
      BY <2>1 DEF Nothing, Queues
    <2> QED
      BY <1>0, <2>1, <2>3, <2>4, DataApart, Zenon
  <1>3. CASE CreateQueues
    <2>1. UNCHANGED <<buf, bounce, multi_verified, broken>> /\ UNCHANGED <<type, adopting, gen, alloced, ngen>>
      BY <1>3, Zenon DEF CreateQueues, reading, memory
    <2>2. \/ \E kind \in Creating : Issue("admin", kind, 0, 0) /\ UNCHANGED <<session, dev>>
          \/ pc' = "out_disable_ctrl" /\ pend' = pend
          \/ Return("init", TRUE) /\ pend' = pend
      BY <1>3, Zenon DEF CreateQueues, Creating
    <2>3. ASSUME NEW kind \in Creating, Issue("admin", kind, 0, 0), UNCHANGED <<session, dev>>
          PROVE  DataInv'
      <3>1. kind \in AdminKinds
        BY DEF Creating, AdminKinds
      <3>2. UNCHANGED <<kept, dev>>
        BY <2>1, <2>3, Zenon DEF kept, session
      <3>3. At' \notin Reading /\ pc' \notin IoKinds /\ pc' # "idle" /\ pend'["io"] \subseteq pend["io"]
        BY <2>3, <3>1, <3>2, AdminIssues, Zenon
      <3> QED
        BY <1>0, <2>1, <3>3, DataApart, Zenon
    <2>4. ASSUME pc' = "out_disable_ctrl" \/ Return("init", TRUE), pend' = pend
          PROVE  DataInv'
      <3>1. pc' = "out_disable_ctrl" \/ (pc' = "idle" /\ ret' = [op |-> "init", ok |-> TRUE])
        BY <2>4, Zenon DEF Return
      <3>2. At' \notin Reading /\ pc' \notin IoKinds /\ (pc' = "idle" => ret'.op # "read")
        BY <3>1 DEF At, Reading, IoKinds
      <3> QED
        BY <1>0, <2>1, <2>4, <3>2, DataApart, Zenon
    <2> QED
      BY <2>2, <2>3, <2>4, Zenon
  <1> QED
    BY <1>1, <1>2, <1>3, Zenon

\* nvme_shutdown
LEMMA DataShutsDown ==
    ASSUME LifeInv, DataInv, (\E keep \in BOOLEAN : nvme_shutdown(keep)) \/ ShutdownStep \/ ShutdownEnd
    PROVE  DataInv'
  <1>0. DataTypes
    BY Zenon DEF DataInv
  <1>1. ASSUME NEW kind \in AdminKinds, Issue("admin", kind, 0, 0), UNCHANGED <<type, session, memory, adopting, dev>>,
               UNCHANGED <<buf, bounce, multi_verified, broken>>
        PROVE  DataInv'
    <2>1. UNCHANGED <<kept, dev>>
      BY <1>1, Zenon DEF kept, session, memory
    <2>2. At' \notin Reading /\ pc' \notin IoKinds /\ pc' # "idle" /\ pend'["io"] \subseteq pend["io"]
      BY <1>1, <2>1, AdminIssues, Zenon
    <2> QED
      BY <1>0, <1>1, <2>2, DataApart, Zenon
  <1>2. ASSUME pc' \in {"wait_shutdown", "wait_off"} \/ (pc' = "idle" /\ ret'.op # "read"), pend' \in {pend, Nothing},
               UNCHANGED <<buf, bounce, multi_verified, broken>>
        PROVE  DataInv'
    <2>1. At' \notin Reading /\ pc' \notin IoKinds /\ (pc' = "idle" => ret'.op # "read")
      BY <1>2 DEF At, Reading, IoKinds
    <2>2. pend'["io"] \subseteq pend["io"]
      BY <1>2 DEF Nothing, Queues
    <2> QED
      BY <1>0, <1>2, <2>1, <2>2, DataApart, Zenon
  <1>3. "delete_sq" \in AdminKinds /\ "delete_cq" \in AdminKinds
    BY DEF AdminKinds
  <1>4. ASSUME NEW keep \in BOOLEAN, nvme_shutdown(keep)
        PROVE  DataInv'
    <2>1. UNCHANGED <<buf, bounce, multi_verified, broken>> /\ UNCHANGED <<type, memory, adopting, dev>>
      BY <1>4, Zenon DEF nvme_shutdown, reading
    <2>2. \/ Issue("admin", "delete_sq", 0, 0) /\ UNCHANGED session
          \/ pend' = pend /\ pc' = "idle" /\ \E r : ret' = [op |-> "none", ok |-> r] \/ ret' = [op |-> "handoff", ok |-> r]
      BY <1>4, Zenon DEF nvme_shutdown, Return
    <2>3. (\E r : ret' = [op |-> "none", ok |-> r] \/ ret' = [op |-> "handoff", ok |-> r]) => ret'.op # "read"
      OBVIOUS
    <2> QED
      BY <1>1, <1>2, <1>3, <2>1, <2>2, <2>3, Zenon
  <1>5. CASE ShutdownStep
    <2>1. UNCHANGED <<buf, bounce, multi_verified, broken>> /\ UNCHANGED <<type, session, memory, adopting>>
      BY <1>5, Zenon DEF ShutdownStep, reading
    <2>2. \/ Issue("admin", "delete_cq", 0, 0) /\ dev' = dev
          \/ pend' = pend /\ pc' \in {"wait_shutdown", "wait_off"}
      BY <1>5, Zenon DEF ShutdownStep
    <2> QED
      BY <1>1, <1>2, <1>3, <2>1, <2>2, Zenon
  <1>6. CASE ShutdownEnd
    <2>1. UNCHANGED <<buf, bounce, multi_verified, broken>> /\ pend' \in {pend, Nothing}
      BY <1>6, Zenon DEF ShutdownEnd, Reset, reading, device, Nothing
    <2>2. pc' = "idle" /\ \E r : ret' = [op |-> "shutdown", ok |-> r]
      BY <1>6, Zenon DEF ShutdownEnd, Return
    <2>3. ret'.op # "read"
      BY <2>2
    <2> QED
      BY <1>2, <2>1, <2>2, <2>3, Zenon
  <1> QED
    BY <1>4, <1>5, <1>6, Zenon

\* nvme_flush
LEMMA DataFlushes ==
    ASSUME LifeInv, QueueInv, DataInv, nvme_flush
    PROVE  DataInv'
  <1>0. DataTypes
    BY Zenon DEF DataInv
  <1>1. UNCHANGED <<buf, bounce, multi_verified, broken>> /\ UNCHANGED <<kept, queue, dev>> /\ pc # "poll"
    BY Zenon DEF nvme_flush, reading, kept, session, memory
  <1>2. CASE Issue("io", "flush", 0, 0) /\ initialized
    <2>1. "flush" \in IoKinds /\ 0 \in Nat /\ 0 \in Int
      BY DEF IoKinds
    <2>2. At' = "flush" /\ pc' # "idle" /\ (pc' \in IoKinds => ~ok') /\ \A c \in pend'["io"] : c.lba \in Nat
      BY <1>0, <1>1, <1>2, <2>1, DataIssues, Zenon
    <2>3. At' \notin Reading
      BY <2>2 DEF Reading
    <2>4. DataTypes'
      BY <1>0, <1>1, <2>2, Zenon DEF DataTypes
    <2> QED
      BY <2>2, <2>3, <2>4, DataElsewhere, Zenon
  <1>3. CASE ~(Issue("io", "flush", 0, 0) /\ initialized)
    <2>1. pc' = "idle" /\ (\E r : ret' = [op |-> "flush", ok |-> r]) /\ pend' = pend
      BY <1>3, Zenon DEF nvme_flush, Return
    <2>2. At' \notin Reading /\ pc' \notin IoKinds /\ ret'.op # "read"
      BY <2>1 DEF At, Reading, IoKinds
    <2> QED
      BY <1>0, <1>1, <2>1, <2>2, DataApart, Zenon
  <1> QED
    BY <1>2, <1>3, Zenon

\* nvme_read_blocks returns
LEMMA DataReturns ==
    ASSUME DataTypes', NEW r, Return("read", r),
           r = TRUE => initialized' /\ ~q'["io"].failed /\ \A j \in 0..req'.n - 1 : Done(j)'
    PROVE  DataInv'
  <1>1. pc' = "idle" /\ ret' = [op |-> "read", ok |-> r]
    BY ZenonT(30) DEF Return
  <1>2. Multi' /\ Single' /\ Argument' /\ Working'
    BY <1>1 DEF At, Multi, Single, Argument, Working, IoKinds
  <1>3. ret'.ok = r /\ [op |-> "read", ok |-> TRUE].ok = TRUE
    BY <1>1
  <1>4. Delivered'
    BY <1>3, Zenon DEF Delivered
  <1> QED
    BY <1>2, <1>4, Zenon DEF DataInv

\* ... or issues the next command
LEMMA DataAsks ==
    ASSUME LifeInv, QueueInv, DataTypes, initialized, pc # "poll", UNCHANGED <<kept, queue, dev>>, NEW kind \in Reading,
           NEW lba \in Nat, NEW n \in Int, Issue("io", kind, lba, n),
           buf' \in [0..MaxCount - 1 -> Int], bounce' \in Int \ {Fill}, UNCHANGED <<multi_verified, broken>>,
           kind = "multi" => lba = req'.lba /\ n = req'.n,
           kind = "single" => lba = req'.lba + req'.i /\ n = req'.i,
           kind # "single" /\ ~q["io"].failed =>
               /\ req'.n \in 2..MaxCount
               /\ broken => buf'[req'.n - 1] = Fill
               /\ ~broken /\ kind = "verify" => \A j \in 0..req'.n - 1 : Done(j)',
           kind = "single" /\ ~q["io"].failed =>
               /\ req'.i < req'.n /\ req'.n \in 1..MaxCount
               /\ \A j \in 0..req'.i - 1 : Done(j)'
    PROVE  DataInv'
  <1>1. kind \in IoKinds /\ "multi" \in IoKinds /\ "single" \in IoKinds
    BY DEF Reading, IoKinds
  <1>2. /\ At' = kind /\ pc' # "idle" /\ (pc' \in IoKinds => ~ok')
        /\ \A c \in pend'["io"] : c.lba \in Nat
        /\ pc' = "poll" => cmd'.c.kind = kind /\ cmd'.c.lba = lba /\ cmd'.c.n = n
        /\ ~q["io"].failed => \A k \in IoKinds : ~Good(k)'
    BY <1>1, DataIssues, Zenon
  <1>3. q' = q
    BY Zenon DEF queue
  <1>4. DataTypes'
    BY <1>2, Zenon DEF DataTypes
  <1>5. Argument'
    BY <1>2, Zenon DEF Argument
  <1>6. Delivered' /\ Working'
    BY <1>2, Zenon DEF Delivered, Working
  <1>7. Multi'
    <2>1. CASE kind = "single"
      BY <1>2, <2>1 DEF Multi
    <2>2. CASE kind # "single" /\ ~q["io"].failed
      <3>1. ~Good("multi")'
        BY <1>1, <1>2, <2>2, Zenon
      <3> QED
        BY <1>2, <2>2, <3>1, Zenon DEF Multi
    <2>3. CASE q["io"].failed
      BY <1>3, <2>3, Zenon DEF Multi
    <2> QED
      BY <2>1, <2>2, <2>3, ZenonT(30)
  <1>8. Single'
    <2>1. CASE kind = "single" /\ ~q["io"].failed
      <3>1. ~Good("single")'
        BY <1>1, <1>2, <2>1, Zenon
      <3> QED
        BY <2>1, <3>1, Zenon DEF Single
    <2>2. CASE kind # "single" \/ q["io"].failed
      BY <1>2, <1>3, <2>2, Zenon DEF Single
    <2> QED
      BY <2>1, <2>2, Zenon
  <1> QED
    BY <1>4, <1>5, <1>6, <1>7, <1>8, ZenonT(30) DEF DataInv

\* nvme_read_blocks begins
LEMMA DataReads ==
    ASSUME Sane, LifeInv, QueueInv, DataInv, NEW lba \in Lbas, NEW n \in 1..MaxCount, NEW mem \in BOOLEAN,
           nvme_read_blocks(lba, n, mem)
    PROVE  DataInv'
  <1>0. DataTypes /\ lba \in Nat /\ n \in Int /\ 0 \in Int /\ MaxCount \in Nat
    BY SMTT(30) DEF DataInv, Sane
  <1>1. /\ UNCHANGED <<kept, queue, dev>> /\ UNCHANGED <<multi_verified, broken, bounce>> /\ pc # "poll"
        /\ req' = [lba |-> lba, n |-> n, i |-> 0]
    BY DEF nvme_read_blocks, kept, session, memory
  <1>2. req'.lba = lba /\ req'.n = n /\ req'.i = 0
    BY <1>1, SMTT(30)
  <1>3. bounce' \in Int \ {Fill} /\ (broken => ~multi_verified) /\ DOMAIN buf = 0..MaxCount - 1
    BY <1>0, <1>1, Zenon DEF DataTypes
  <1>4. CASE Return("read", FALSE) /\ UNCHANGED pend /\ buf' = [i \in DOMAIN buf |-> Junk]
    <2>1. buf' \in [0..MaxCount - 1 -> Int]
      BY <1>3, <1>4 DEF Junk
    <2>2. DataTypes'
      BY <1>0, <1>1, <1>4, <2>1, Zenon DEF DataTypes
    <2> QED
      BY <1>4, <2>2, DataReturns, Zenon
  <1>5. CASE /\ initialized /\ n > 1 /\ Issue("io", "multi", lba, n)
             /\ buf' = [i \in DOMAIN buf |-> IF ~multi_verified /\ i < n THEN Fill ELSE Junk]
    <2>1. buf' \in [0..MaxCount - 1 -> Int]
      BY <1>3, <1>5 DEF Junk, Fill
    <2>2. req'.n \in 2..MaxCount /\ (broken => buf'[req'.n - 1] = Fill)
      BY <1>0, <1>2, <1>3, <1>5
    <2>3. "multi" \in Reading /\ "multi" # "single" /\ "multi" # "verify"
      BY DEF Reading
    <2> QED
      BY <1>0, <1>1, <1>2, <1>3, <1>5, <2>1, <2>2, <2>3, DataAsks, ZenonT(30)
  <1>6. CASE /\ initialized /\ Issue("io", "single", lba, 0) /\ buf' = [i \in DOMAIN buf |-> Junk]
    <2>1. buf' \in [0..MaxCount - 1 -> Int]
      BY <1>3, <1>6 DEF Junk
    <2>2. /\ req'.i < req'.n /\ req'.n \in 1..MaxCount /\ lba = req'.lba + req'.i
          /\ \A j \in 0..req'.i - 1 : Done(j)'
      BY <1>0, <1>2
    <2>3. "single" \in Reading /\ "multi" # "single"
      BY DEF Reading
    <2> QED
      BY <1>0, <1>1, <1>2, <1>3, <1>6, <2>1, <2>2, <2>3, DataAsks, ZenonT(30)
  <1> QED
    BY <1>4, <1>5, <1>6, Zenon DEF nvme_read_blocks

\* ... goes on after a single block
LEMMA DataReadsSingle ==
    ASSUME Sane, LifeInv, QueueInv, DataInv, req \in Request, ReadSingle
    PROVE  DataInv'
  <1>0. DataTypes /\ Single /\ Working /\ MaxCount \in Nat /\ req.lba \in Nat /\ req.n \in Nat /\ req.i \in Nat
    BY DEF DataInv, Sane, Request
  <1>1. /\ UNCHANGED <<kept, queue, dev>> /\ UNCHANGED <<multi_verified, broken, bounce, buf>> /\ pc = "single" /\ pc # "poll"
        /\ At = "single" /\ q' = q /\ initialized' = initialized
    BY DEF ReadSingle, kept, session, memory, At, queue
  <1>2. buf' \in [0..MaxCount - 1 -> Int] /\ bounce' \in Int \ {Fill}
    BY <1>0, <1>1, Zenon DEF DataTypes
  <1>3. initialized /\ "single" \in IoKinds /\ "single" \in Reading
    BY <1>1, ReadUses DEF IoKinds, Reading
  <1>4. ok => /\ ~q["io"].failed /\ req.i < req.n /\ req.n \in 1..MaxCount
              /\ (\A j \in 0..req.i - 1 : Done(j)) /\ Done(req.i)
    BY <1>0, <1>1, <1>3, Zenon DEF Single, Working, Good
  <1>5. CASE /\ ok /\ req.i + 1 < req.n /\ req' = [req EXCEPT !.i = @ + 1]
             /\ Issue("io", "single", req.lba + req.i + 1, req.i + 1)
    <2>1. req'.i = req.i + 1 /\ req'.n = req.n /\ req'.lba = req.lba
      BY <1>5 DEF Request
    <2>2. /\ req.lba + req.i + 1 \in Nat /\ req.i + 1 \in Int
          /\ req.lba + req.i + 1 = req'.lba + req'.i /\ req.i + 1 = req'.i
      BY <1>0, <2>1
    <2>3. req'.i < req'.n /\ req'.n \in 1..MaxCount
      BY <1>4, <1>5, <2>1
    <2>4. \A j \in 0..req'.i - 1 : Done(j)'
      <3>1. ASSUME NEW j \in 0..req.i
            PROVE  buf[j] = req.lba + j
        <4>1. j \in 0..req.i - 1 \/ j = req.i
          BY <1>0
        <4> QED
          BY <1>4, <1>5, <4>1, Zenon DEF Done
      <3>2. req'.i - 1 = req.i
        BY <1>0, <2>1
      <3> QED
        BY <1>1, <2>1, <3>1, <3>2, Zenon DEF Done
    <2>5. "multi" # "single"
      OBVIOUS
    <2> QED
      BY <1>0, <1>1, <1>2, <1>3, <1>5, <2>2, <2>3, <2>4, <2>5, DataAsks, ZenonT(30)
  <1>6. CASE ~(ok /\ req.i + 1 < req.n) /\ Return("read", ok) /\ req' = req /\ pend' = pend
    <2>1. DataTypes'
      BY <1>0, <1>1, <1>6, Zenon DEF DataTypes
    <2>2. ASSUME ok
          PROVE  \A j \in 0..req'.n - 1 : Done(j)'
      <3>1. req.n - 1 = req.i
        BY <1>0, <1>4, <1>6, <2>2
      <3>2. ASSUME NEW j \in 0..req.i
            PROVE  buf[j] = req.lba + j
        <4>1. j \in 0..req.i - 1 \/ j = req.i
          BY <1>0
        <4> QED
          BY <1>4, <2>2, <4>1, Zenon DEF Done
      <3> QED
        BY <1>1, <1>6, <3>1, <3>2, Zenon DEF Done
    <2> QED
      BY <1>1, <1>3, <1>4, <1>6, <2>1, <2>2, DataReturns, Zenon
  <1> QED
    BY <1>5, <1>6, Zenon DEF ReadSingle

\* ... goes on after the blocks, or after a read that verifies them
LEMMA DataReadsMulti ==
    ASSUME Sane, LifeInv, QueueInv, DataInv, req \in Request, ReadMulti
    PROVE  DataInv'
  <1>0. DataTypes /\ Multi /\ Working /\ MaxCount \in Nat /\ req.lba \in Nat /\ req.n \in Nat /\ req.i \in Nat
    BY DEF DataInv, Sane, Request
  <1>1. /\ UNCHANGED <<kept, queue, dev>> /\ UNCHANGED <<broken, buf>> /\ pc \in {"multi", "verify"}
        /\ q' = q /\ initialized' = initialized
    BY Zenon DEF ReadMulti, kept, session, memory, queue
  <1>2. At = pc /\ pc # "poll" /\ At \in IoKinds /\ pc \in IoKinds
    BY <1>1 DEF At, IoKinds
  <1>3. initialized /\ {"verify", "single"} \subseteq Reading
    BY <1>2, ReadUses DEF Reading
  <1>4. buf' \in [0..MaxCount - 1 -> Int] /\ bounce \in Int \ {Fill} /\ FillBounce \in Int \ {Fill}
    BY <1>0, <1>1 DEF DataTypes, Fill, FillBounce
  <1>5. ~q["io"].failed =>
            /\ req.n \in 2..MaxCount
            /\ broken => buf[req.n - 1] = Fill
            /\ ~broken /\ (pc = "verify" \/ ok) => \A j \in 0..req.n - 1 : Done(j)
    <2>1. pc = "verify" \/ (pc = "multi" /\ (ok => Good("multi")))
      BY <1>1 DEF Good
    <2> QED
      BY <1>0, <1>1, <1>2, <2>1, ZenonT(30) DEF Multi
  <1>6. ok => ~q["io"].failed
    BY <1>0, <1>2, Zenon DEF Working
  <1>7. ASSUME Return("read", TRUE), ok, ~broken, req' = req, pend' = pend, bounce' = bounce
        PROVE  DataInv'
    <2>1. DataTypes'
      BY <1>0, <1>1, <1>7, Zenon DEF DataTypes
    <2>2. ~q["io"].failed /\ \A j \in 0..req.n - 1 : Done(j)
      BY <1>5, <1>6, <1>7, Zenon
    <2>3. \A j \in 0..req'.n - 1 : Done(j)'
      BY <1>1, <1>7, <2>2, Zenon DEF Done
    <2> QED
      BY <1>1, <1>3, <1>7, <2>1, <2>2, <2>3, DataReturns, Zenon
  <1>8. ASSUME NEW i \in {0, 1}, VerifyRead(i), ok, multi_verified' = multi_verified
        PROVE  DataInv'
    <2>1. /\ bounce' = FillBounce /\ req' = [req EXCEPT !.i = i]
          /\ Issue("io", "verify", req.lba + Compared(i), 0)
      BY <1>8, Zenon DEF VerifyRead
    <2>2. req'.n = req.n /\ req'.lba = req.lba
      BY <2>1 DEF Request
    <2>3. ~q["io"].failed /\ req.n \in 2..MaxCount
      BY <1>5, <1>6, <1>8, Zenon
    <2>4. req.lba + Compared(i) \in Nat /\ 0 \in Int
      BY <1>0, <2>3 DEF Compared
    <2>5. ~broken => \A j \in 0..req'.n - 1 : Done(j)'
      BY <1>1, <1>5, <1>8, <2>2, <2>3, Zenon DEF Done
    <2>6. /\ req'.n \in 2..MaxCount
          /\ broken => buf'[req'.n - 1] = Fill
      BY <1>1, <1>5, <2>2, <2>3, Zenon
    <2>7. "verify" # "multi" /\ "verify" # "single" /\ "verify" \in Reading /\ bounce' \in Int \ {Fill}
      BY <1>3, <1>4, <2>1
    <2> QED
      BY <1>0, <1>1, <1>2, <1>3, <1>4, <1>8, <2>1, <2>4, <2>5, <2>6, <2>7, DataAsks, ZenonT(30)
  <1>9. ASSUME Return("read", FALSE), req' = req, pend' = pend, UNCHANGED <<multi_verified, bounce>>
        PROVE  DataInv'
    <2>1. DataTypes'
      BY <1>0, <1>1, <1>9, Zenon DEF DataTypes
    <2> QED
      BY <1>9, <2>1, DataReturns, Zenon
  <1>10. ASSUME req' = [req EXCEPT !.i = 0], Issue("io", "single", req.lba, 0), UNCHANGED <<multi_verified, bounce>>
         PROVE  DataInv'
    <2>1. req'.n = req.n /\ req'.lba = req.lba /\ req'.i = 0 /\ 0 \in Int
      BY <1>10 DEF Request
    <2>2. req.lba = req'.lba + req'.i /\ \A j \in 0..req'.i - 1 : Done(j)'
      BY <1>0, <2>1
    <2>3. ~q["io"].failed => req'.i < req'.n /\ req'.n \in 1..MaxCount
      BY <1>0, <1>5, <2>1
    <2>4. "single" # "multi" /\ "single" \in Reading /\ bounce' \in Int \ {Fill}
      BY <1>3, <1>4, <1>10
    <2> QED
      BY <1>0, <1>1, <1>2, <1>3, <1>4, <1>10, <2>1, <2>2, <2>3, <2>4, DataAsks, ZenonT(30)
  <1>11. ASSUME pc = "verify", ok, bounce = buf[Compared(req.i)], req.i = 1
         PROVE  ~broken
    BY <1>4, <1>5, <1>6, <1>11 DEF Compared
  <1>12. CASE pc = "multi" /\ ok /\ multi_verified /\ Return("read", TRUE) /\ UNCHANGED <<multi_verified, bounce, req, pend>>
    BY <1>0, <1>7, <1>12, Zenon DEF DataTypes
  <1>13. CASE /\ pc = "verify" /\ ok /\ bounce = buf[Compared(req.i)] /\ req.i = 1
              /\ Return("read", TRUE) /\ UNCHANGED <<bounce, req, pend>>
    BY <1>7, <1>11, <1>13, Zenon
  <1>14. CASE ok /\ (VerifyRead(0) \/ VerifyRead(1)) /\ multi_verified' = multi_verified
    BY <1>8, <1>14
  <1>15. CASE Return("read", FALSE) /\ UNCHANGED <<req, pend, multi_verified, bounce>>
    BY <1>9, <1>15, Zenon
  <1>16. CASE req' = [req EXCEPT !.i = 0] /\ Issue("io", "single", req.lba, 0) /\ UNCHANGED <<multi_verified, bounce>>
    BY <1>10, <1>16, Zenon
  <1> QED
    BY <1>12, <1>13, <1>14, <1>15, <1>16, Zenon DEF ReadMulti

\* The controller without executing a command, or nobody at all
LEMMA DataDevices ==
    ASSUME LifeInv, QueueInv, DataInv, DevBoot \/ DevReady \/ DevShutdown \/ DevFatal \/ UNCHANGED vars
    PROVE  DataInv'
  <1>1. /\ UNCHANGED <<pc, cmd, ok, req, ret, initialized, gen, q, buf, bounce, broken, multi_verified>> /\ cqes' = cqes
        /\ pend' \in {pend, Nothing}
    BY Zenon DEF DevBoot, DevReady, DevShutdown, DevFatal, vars, session, memory, queue, reading, locals, device, Nothing
  <1>2. pend'["io"] \subseteq pend["io"]
    BY <1>1 DEF Nothing, Queues
  <1> QED
    BY <1>1, <1>2, DataRests, Zenon

\* DataInv is inductive
LEMMA DataStep ==
    ASSUME Sane, LifeInv, QueueInv, DataInv, req \in Request, [Next]_vars
    PROVE  DataInv'
  <1>1. CASE Device
    BY <1>1, DataDevices, DataExecutes, Zenon DEF Device
  <1>2. CASE Driver
    BY <1>2, DataPolls, DataInits, DataSetsUp, DataShutsDown, DataFlushes, DataReads, DataReadsMulti, DataReadsSingle,
       ZenonT(30) DEF Driver
  <1> QED
    BY <1>1, <1>2, DataDevices, Zenon DEF Next

\* ... and true at the start
LEMMA DataInit ==
    ASSUME Sane, Init
    PROVE  DataInv
  <1>1. pc = "idle" /\ At = "idle" /\ ret.op = "none"
    BY DEF Init, At, InCall
  <1>2. DataTypes
    <2>1. buf \in [0..MaxCount - 1 -> Int] /\ bounce \in Int \ {Fill}
      BY DEF Init, Junk, Fill
    <2>2. \A c \in pend["io"] : c.lba \in Nat
      BY DEF Init, Queues
    <2>3. broken \in BOOLEAN
      BY Zenon DEF Init
    <2>4. multi_verified => ~broken
      <3>1. multi_verified = FALSE
        BY Zenon DEF Init
      <3> QED
        BY <3>1
    <2> QED
      BY <2>1, <2>2, <2>3, <2>4, ZenonT(30) DEF DataTypes
  <1>3. Multi /\ Single /\ Argument /\ Working
    BY <1>1 DEF Multi, Single, Argument, Working, IoKinds
  <1>4. Delivered
    BY <1>1 DEF Delivered
  <1> QED
    BY <1>2, <1>3, <1>4, ZenonT(30) DEF DataInv

\* For any requests, queues, sessions and faults, the controller that transfers only the first block of a
\* multi-block read included, nvme_read_blocks returns true only with the requested blocks in the buffer, and they stay there
\* as long as no reset of ANS has failed (nvme_read_blocks with its verification and its fall-back to single blocks)
THEOREM ReadTheorem ==
    ASSUME Sane
    PROVE  Spec => [](unreset \/ ReadCorrect)
  <1> DEFINE Inv == Elder /\ (unreset \/ (LifeInv /\ req \in Request /\ QueueInv /\ DataInv))
  <1>1. Init => Inv
    BY LifeInit, QueueInit, DataInit, ElderInit, Zenon
  <1>2. Inv /\ [Next]_vars => Inv'
    BY LifeStep, RequestStep, QueueStep, DataStep, ElderStep, Zenon
  <1>3. Inv => unreset \/ ReadCorrect
    BY Zenon DEF DataInv, Delivered, ReadCorrect, Done
  <1> QED
    BY <1>1, <1>2, <1>3, PTL DEF Spec
=============================================================================
