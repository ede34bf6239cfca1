------------------------------- MODULE Nvme -------------------------------
(***************************************************************************)
(* The NVMe driver of src/nvme.c and the ANS coprocessor it talks to: the  *)
(* controller's life from nvme_init to nvme_shutdown on both controller    *)
(* types, commands with time-outs and late completions, the completion     *)
(* queues with their phase bit, and multi-block reads.                     *)
(*                                                                         *)
(* Every nvme_init that gets as far allocates one set of queue memory,     *)
(* which is called by its number (0 is none).  All commands use tag 0.     *)
(* The controller may answer late, never, with an error status or with a   *)
(* wrong tag.  rtkit_boot, rtkit_sleep and the polls of the mailbox are    *)
(* the subject of Rtkit: here the first two succeed or fail.               *)
(***************************************************************************)
EXTENDS Integers, FiniteSets

CONSTANTS
    Types,      \* controller generations: subset of {"t8103", "t8132"}
    QueueSize,  \* NVME_QUEUE_SIZE
    MaxCount,   \* NVME_MAX_READ_BLOCKS
    Lbas,       \* block addresses that are read
    Faults,     \* what the controller may do wrong: "status", "tag", "multi", "fatal"
    MaxInits,   \* bound: sets of queue memory
    MaxCmds     \* bound: a call that starts after so many commands issues none

Queues == {"admin", "io"}
Gens == 1..MaxInits
Junk == -1       \* what the buffer held before
Fill == -2       \* memset(buffer, 0xa5)
FillBounce == -3 \* memset(nvme_verify_bounce, 0x5a)

VARIABLES
    type,                        \* nvme_type
    initialized, reboot_required, adopt_live_session,
    gen, alloced, ngen,          \* memory of adminq and ioq; all memory not yet freed; count
    q,                           \* adminq and ioq: cq_head, cq_phase, failed
    cqes,                        \* the completion queues in memory
    cmd_timed_out, multi_enabled, multi_verified,
    buf, bounce,                 \* the caller's buffer, nvme_verify_bounce
    pc, adopting, cmd, ok,       \* the call in progress: its locals, result of the last step
    req,                         \* nvme_read_blocks: its arguments and loop counter
    ret,                         \* the last call and what it returned
    dev,                         \* the controller's registers
    dq, pend, broken,            \* its queue positions, commands it holds, its defect
    unreset,                     \* history: a reset of ANS has failed, which nothing records
    ncmd

session == <<initialized, reboot_required, adopt_live_session>>
memory == <<gen, alloced, ngen>>
queue == <<q, cqes>>
reading == <<multi_enabled, multi_verified, buf, bounce, req>>
locals == <<pc, adopting, cmd, ok, ret>>
device == <<dev, dq, pend, broken, unreset>>
vars == <<type, session, memory, queue, cmd_timed_out, reading, locals, device, ncmd>>

Empty == [phase |-> 0, id |-> 0, tag |-> 0, good |-> FALSE]
NoCmd == [c |-> [kind |-> "none", id |-> 0, gen |-> 0, lba |-> 0, n |-> 0], x |-> "io", got |-> 0]
NoReq == [lba |-> 0, n |-> 0, i |-> 0]
InCall == [op |-> "none", ok |-> TRUE]
NewQueue == [head |-> 0, phase |-> 1, failed |-> FALSE]

\* ANS after a power-on reset
Off == [run |-> FALSE, boot |-> FALSE, cfs |-> FALSE, en |-> FALSE, rdy |-> FALSE, shn |-> FALSE,
        shst |-> FALSE, tcbs |-> 0, asq |-> 0, iocq |-> 0, iosq |-> 0, ioreg |-> 0]
\* ANS as a previous boot stage leaves it for adoption: controller disabled, or still enabled on
\* queues of that stage
Foreign == -1
HandedOver == {[Off EXCEPT !.run = TRUE, !.boot = TRUE],
               [Off EXCEPT !.run = TRUE, !.boot = TRUE, !.en = TRUE, !.rdy = TRUE, !.tcbs = Foreign,
                           !.asq = Foreign, !.iocq = Foreign, !.iosq = Foreign]}
Start == [x \in Queues |-> [tail |-> 0, phase |-> 1]]

Init ==
    /\ type \in Types
    /\ initialized = FALSE /\ reboot_required = FALSE
    /\ gen = 0 /\ alloced = {} /\ ngen = 0
    /\ q = [x \in Queues |-> NewQueue]
    /\ cqes = [g \in Gens |-> [x \in Queues |-> [i \in 0..QueueSize - 1 |-> Empty]]]
    /\ cmd_timed_out = FALSE /\ multi_enabled = TRUE /\ multi_verified = FALSE
    /\ buf = [i \in 0..MaxCount - 1 |-> Junk] /\ bounce = Junk
    /\ pc = "idle" /\ adopting = FALSE /\ cmd = NoCmd /\ ok = TRUE
    /\ req = NoReq
    /\ ret = InCall
    /\ \/ adopt_live_session = FALSE /\ dev = Off
       \/ type = "t8132" /\ adopt_live_session = TRUE /\ dev \in HandedOver
    /\ dq = Start /\ pend = [x \in Queues |-> {}]
    /\ broken \in IF "multi" \in Faults THEN BOOLEAN ELSE {FALSE}
    /\ unreset = FALSE /\ ncmd = 0

-----------------------------------------------------------------------------
(* The controller (external: modelled from how nvme.c uses it)             *)

\* The ANS firmware comes up and writes BOOT_STATUS
DevBoot ==
    /\ dev.run /\ ~dev.boot
    /\ dev' = [dev EXCEPT !.boot = TRUE]
    /\ UNCHANGED <<type, session, memory, queue, cmd_timed_out, reading, locals, dq, pend, broken, unreset,
                   ncmd>>

\* CC.EN is followed by CSTS.RDY; disabling drops commands and I/O queues
DevReady ==
    /\ dev.boot /\ ~dev.cfs /\ dev.en # dev.rdy
    /\ IF dev.en
       THEN /\ dev' = [dev EXCEPT !.rdy = TRUE, !.shst = FALSE]
            /\ UNCHANGED pend
       ELSE /\ dev' = [dev EXCEPT !.rdy = FALSE, !.iocq = 0, !.iosq = 0]
            /\ pend' = [x \in Queues |-> {}]
    /\ dq' = Start
    /\ UNCHANGED <<type, session, memory, queue, cmd_timed_out, reading, locals, broken, unreset, ncmd>>

\* CC.SHN is followed by CSTS.SHST; a controller that is shut down takes no commands
DevShutdown ==
    /\ dev.rdy /\ ~dev.cfs /\ dev.shn /\ ~dev.shst
    /\ dev' = [dev EXCEPT !.shst = TRUE]
    /\ pend' = [x \in Queues |-> {}]
    /\ UNCHANGED <<type, session, memory, queue, cmd_timed_out, reading, locals, dq, broken, unreset, ncmd>>

\* A fatal error: nothing is executed any more
DevFatal ==
    /\ "fatal" \in Faults
    /\ dev.boot /\ ~dev.cfs
    /\ dev' = [dev EXCEPT !.cfs = TRUE]
    /\ UNCHANGED <<type, session, memory, queue, cmd_timed_out, reading, locals, dq, pend, broken, unreset,
                   ncmd>>

\* The memory a queue's completions go to, if the queue exists
CqMemory(x) == CASE x = "admin" -> dev.asq
                 [] x = "io" /\ type = "t8103" -> dev.iocq
                 [] x = "io" /\ type = "t8132" /\ dev.iocq = dev.ioreg -> dev.iocq
                 [] OTHER -> 0

\* What a read delivers: a controller with the "multi" defect stops after the first block
Blocks(c) == IF broken THEN {0} ELSE 0..c.n - 1

\* A command is executed, now or long after the driver gave up on it, and its completion written
DevExecute(x, c, good, tag) ==
    /\ dev.rdy /\ ~dev.cfs /\ ~dev.shst
    /\ c \in pend[x]
    /\ CqMemory(x) # 0
    /\ good \/ "status" \in Faults
    /\ tag = 0 \/ "tag" \in Faults
    /\ pend' = [pend EXCEPT ![x] = @ \ {c}]
    /\ LET g == CqMemory(x)
           t == dq[x].tail
       IN  /\ cqes' = [cqes EXCEPT ![g][x][t] = [phase |-> dq[x].phase, id |-> c.id, tag |-> tag,
                                                  good |-> good]]
           /\ dq' = [dq EXCEPT ![x] = IF t + 1 = QueueSize
                                      THEN [tail |-> 0, phase |-> 1 - @.phase]
                                      ELSE [@ EXCEPT !.tail = t + 1]]
    /\ dev' = CASE good /\ c.kind = "create_cq" -> [dev EXCEPT !.iocq = c.gen]
                [] good /\ c.kind = "create_sq" -> [dev EXCEPT !.iosq = c.gen]
                [] good /\ c.kind = "delete_sq" -> [dev EXCEPT !.iosq = 0]
                [] good /\ c.kind \in {"delete_cq", "undo_cq"} -> [dev EXCEPT !.iocq = 0]
                [] OTHER -> dev
    /\ IF good /\ c.kind \in {"multi", "single"}
       THEN buf' = [i \in DOMAIN buf |->
                        IF c.kind = "multi" THEN IF i \in Blocks(c) THEN c.lba + i ELSE buf[i]
                                            ELSE IF i = c.n THEN c.lba ELSE buf[i]]
       ELSE UNCHANGED buf
    /\ bounce' = IF good /\ c.kind = "verify" THEN c.lba ELSE bounce
    /\ UNCHANGED <<type, session, memory, q, cmd_timed_out, multi_enabled, multi_verified, req,
                   locals, broken, unreset, ncmd>>

-----------------------------------------------------------------------------
(* nvme_exec_command                                                       *)

\* Mutant: a failed queue is used again
RefusesNone(x) == FALSE

\* A timed-out command may still own slot 0 and its DMA mappings
Refuses(x) == q[x].failed

\* One completion is taken off the queue
Advance(c) == IF c.head + 1 = QueueSize THEN [c EXCEPT !.head = 0, !.phase = 1 - @]
                                        ELSE [c EXCEPT !.head = @ + 1]

\* Up to the doorbell.  A failed queue takes no command; otherwise the command is copied to slot 0
\* and rung.  The call comes back at pc = kind with its result in ok.
Issue(x, kind, lba, n) ==
    IF Refuses(x)
    THEN /\ pc' = kind /\ ok' = FALSE
         /\ UNCHANGED <<cmd_timed_out, cmd, pend, ncmd>>
    ELSE /\ LET c == [kind |-> kind, id |-> ncmd + 1, gen |-> gen, lba |-> lba, n |-> n]
            IN  /\ cmd' = [c |-> c, x |-> x, got |-> 0]
                /\ pend' = [pend EXCEPT ![x] = IF dev.rdy /\ ~dev.shst THEN @ \cup {c} ELSE @]
         /\ cmd_timed_out' = FALSE
         /\ pc' = "poll" /\ ncmd' = ncmd + 1
         /\ UNCHANGED ok

\* The completion at the head of the queue has the phase that is waited for.  Once it is taken only
\* its phase matters, and only that is kept.
ExecComplete ==
    /\ pc = "poll"
    /\ LET x == cmd.x
           cqe == cqes[gen][x][q[x].head]
           found == cqe.tag = 0
       IN  /\ cqe.phase = q[x].phase
           /\ q' = [q EXCEPT ![x] = [Advance(@) EXCEPT !.failed = ~found]]
           /\ cqes' = [cqes EXCEPT ![gen][x][q[x].head] = [Empty EXCEPT !.phase = cqe.phase]]
           /\ cmd_timed_out' = FALSE
           /\ ok' = (found /\ cqe.good)
           /\ cmd' = [cmd EXCEPT !.got = cqe.id]
    /\ pc' = cmd.c.kind
    /\ UNCHANGED <<type, session, memory, reading, adopting, ret, device, ncmd>>

\* The time is over before the next look at the queue
ExecTimeout ==
    /\ pc = "poll"
    /\ q' = [q EXCEPT ![cmd.x].failed = TRUE]
    /\ cmd_timed_out' = TRUE
    /\ ok' = FALSE
    /\ pc' = cmd.c.kind
    /\ UNCHANGED <<type, session, memory, cqes, reading, adopting, cmd, ret, device, ncmd>>

\* A call returns; its locals are forgotten
Return(op, r) ==
    /\ pc' = "idle"
    /\ ret' = [op |-> op, ok |-> r]
    /\ cmd' = NoCmd /\ ok' = TRUE

-----------------------------------------------------------------------------
(* nvme_init                                                               *)

\* Both queues are freed and their descriptors cleared
FreeQueues ==
    /\ alloced' = alloced \ {gen}
    /\ gen' = 0
    /\ q' = [x \in Queues |-> NewQueue]
    /\ cqes' = [cqes EXCEPT ![gen] = [x \in Queues |-> [i \in 0..QueueSize - 1 |-> Empty]]]
    /\ UNCHANGED ngen

\* Mutant: nvme_reboot_required is not looked at
RefusesNoInit == FALSE

RefusesInit == reboot_required

\* Up to asc_init; an adopted session must be alive, otherwise the queues are freed again.  The
\* missing nodes, registers and allocations that fail before are left out.  Buffers of earlier reads are
\* forgotten.
nvme_init ==
    /\ pc = "idle"
    /\ \/ /\ RefusesInit \/ initialized
          /\ Return("init", ~RefusesInit)
          /\ UNCHANGED <<memory, queue, multi_enabled, multi_verified, adopting>>
       \/ /\ ~RefusesInit /\ ~initialized
          /\ multi_enabled' = TRUE /\ multi_verified' = FALSE
          /\ adopting' = (type = "t8132" /\ adopt_live_session)
          /\ q' = [x \in Queues |-> NewQueue]
          /\ IF adopting' /\ ~(dev.run /\ dev.boot /\ ~dev.cfs)
             THEN /\ Return("init", FALSE)
                  /\ gen' = 0
                  /\ UNCHANGED <<alloced, ngen>>
             ELSE /\ ngen < MaxInits /\ ncmd < MaxCmds
                  /\ pc' = IF adopting' THEN "setup" ELSE "rtkit_boot"
                  /\ ngen' = ngen + 1
                  /\ gen' = ngen + 1 /\ alloced' = alloced \cup {ngen + 1}
                  /\ ret' = InCall
                  /\ UNCHANGED <<cmd, ok>>
          /\ UNCHANGED cqes
    /\ bounce' = Junk
    /\ buf' = [i \in DOMAIN buf |-> Junk] /\ req' = NoReq
    /\ UNCHANGED <<type, session, cmd_timed_out, device, ncmd>>

\* rtkit_boot starts the coprocessor; it may fail before or after that
RtkitBoot(good) ==
    /\ pc = "rtkit_boot"
    /\ dev' \in IF good THEN {[dev EXCEPT !.run = TRUE]} ELSE {dev, [dev EXCEPT !.run = TRUE]}
    /\ pc' = IF good THEN "boot_status" ELSE "out_rtkit"
    /\ UNCHANGED <<type, session, memory, queue, cmd_timed_out, reading, adopting, cmd, ok, ret, dq,
                   pend, broken, unreset, ncmd>>

\* poll32(NVME_BOOT_STATUS): comes back with success or, at any time, with a time-out
BootStatus ==
    /\ pc = "boot_status"
    /\ pc' = IF dev.boot THEN "setup" ELSE "out_shutdown"
    /\ UNCHANGED <<type, session, memory, queue, cmd_timed_out, reading, adopting, cmd, ok, ret,
                   device, ncmd>>

\* The NVMMU gets the new queues, then nvme_ctrl_disable clears CC.EN
SetupController ==
    /\ pc = "setup"
    /\ dev' = [dev EXCEPT !.tcbs = gen, !.en = FALSE]
    /\ pc' = "wait_disabled"
    /\ UNCHANGED <<type, session, memory, queue, cmd_timed_out, reading, adopting, cmd, ok, ret, dq,
                   pend, broken, unreset, ncmd>>

\* The result of nvme_ctrl_disable
CtrlDisabled == ~dev.rdy

\* ... and waits for CSTS.RDY to clear; then the admin queue is set up and nvme_ctrl_enable begins
SetupAdminQueue ==
    /\ pc = "wait_disabled"
    /\ IF ~CtrlDisabled
       THEN pc' = "out_shutdown" /\ UNCHANGED dev
       ELSE /\ dev' = [dev EXCEPT !.asq = gen, !.shn = FALSE, !.en = TRUE]
            /\ pc' = "wait_enabled"
    /\ UNCHANGED <<type, session, memory, queue, cmd_timed_out, reading, adopting, cmd, ok, ret, dq,
                   pend, broken, unreset, ncmd>>

\* The end of nvme_ctrl_enable, and the commands that create the I/O queues
CreateQueues ==
    /\ \/ /\ pc = "wait_enabled" /\ dev.rdy
          /\ Issue("admin", "create_cq", 0, 0)
          /\ UNCHANGED <<session, ret, dev>>
       \/ /\ \/ pc = "wait_enabled" /\ ~dev.rdy
             \/ pc = "create_cq" /\ ~ok
             \/ pc = "undo_cq"
          /\ pc' = "out_disable_ctrl"
          /\ UNCHANGED <<session, cmd_timed_out, cmd, ok, ret, dev, pend, ncmd>>
       \/ /\ pc = "create_cq" /\ ok
          /\ Issue("admin", "create_sq", 0, 0)
          /\ UNCHANGED <<session, ret, dev>>
       \/ /\ pc = "create_sq" /\ ~ok
          /\ Issue("admin", "undo_cq", 0, 0)
          /\ UNCHANGED <<session, ret, dev>>
       \/ /\ pc = "create_sq" /\ ok
          /\ dev' = IF type = "t8132" THEN [dev EXCEPT !.ioreg = gen] ELSE dev
          /\ initialized' = TRUE
          /\ Return("init", TRUE)
          /\ UNCHANGED <<reboot_required, adopt_live_session, cmd_timed_out, pend, ncmd>>
    /\ UNCHANGED <<type, memory, queue, reading, adopting, dq, broken, unreset>>

\* out_disable_ctrl: nvme_ctrl_shutdown and nvme_ctrl_disable, whose results do not matter
OutDisableCtrl ==
    /\ \/ /\ pc = "out_disable_ctrl"
          /\ dev' = [dev EXCEPT !.shn = TRUE]
          /\ pc' = "out_wait_shutdown"
       \/ /\ pc = "out_wait_shutdown"
          /\ dev' = [dev EXCEPT !.en = FALSE]
          /\ pc' = "out_wait_disabled"
       \/ /\ pc = "out_wait_disabled"
          /\ pc' = "out_shutdown"
          /\ UNCHANGED dev
    /\ UNCHANGED <<type, session, memory, queue, cmd_timed_out, reading, adopting, cmd, ok, ret, dq,
                   pend, broken, unreset, ncmd>>

\* Mutant: ANS is not reset
ResetNothing == UNCHANGED device

\* pmgr_reset of ANS and ANS2.  It fails when neither is found, or the one that is may not be written
\* or is not on; nobody looks at the result.
Reset ==
    /\ \/ /\ dev' = Off /\ dq' = Start
          /\ pend' = [x \in Queues |-> {}]
          /\ UNCHANGED unreset
       \/ /\ unreset' = TRUE
          /\ UNCHANGED <<dev, dq, pend>>
    /\ UNCHANGED broken

\* out_shutdown and what follows: a coprocessor that may still use the queues keeps them
OutShutdown ==
    /\ pc = "out_shutdown"
    /\ IF adopting \/ (type = "t8132" /\ dev.run)
       THEN /\ reboot_required' = TRUE
            /\ UNCHANGED <<memory, queue, device>>
       ELSE /\ FreeQueues
            /\ IF type = "t8103" THEN Reset ELSE UNCHANGED device
            /\ UNCHANGED reboot_required
    /\ Return("init", FALSE)
    /\ UNCHANGED <<type, initialized, adopt_live_session, cmd_timed_out, reading, adopting,
                   ncmd>>

\* out_rtkit, straight after a failed rtkit_boot
OutRtkit ==
    /\ pc = "out_rtkit"
    /\ IF type = "t8132" /\ dev.run
       THEN /\ reboot_required' = TRUE
            /\ UNCHANGED <<memory, queue>>
       ELSE /\ FreeQueues
            /\ UNCHANGED reboot_required
    /\ Return("init", FALSE)
    /\ UNCHANGED <<type, initialized, adopt_live_session, cmd_timed_out, reading, adopting,
                   device, ncmd>>

-----------------------------------------------------------------------------
(* nvme_shutdown                                                           *)

\* keep is nvme_keep_running_for_linux
nvme_shutdown(keep) ==
    /\ pc = "idle"
    /\ \/ /\ reboot_required \/ ~initialized
          /\ Return("none", ~reboot_required)
          /\ UNCHANGED <<session, cmd_timed_out, pend, ncmd>>
       \/ /\ ~reboot_required /\ initialized /\ type = "t8132" /\ keep
          /\ LET live == dev.run /\ dev.boot /\ dev.en /\ dev.rdy /\ ~dev.cfs
             IN  /\ Return("handoff", live)
                 /\ adopt_live_session' = (adopt_live_session \/ live)
                 /\ initialized' = ~live
          /\ UNCHANGED <<reboot_required, cmd_timed_out, pend, ncmd>>
       \/ /\ ~reboot_required /\ initialized /\ ~(type = "t8132" /\ keep)
          /\ ncmd < MaxCmds
          /\ Issue("admin", "delete_sq", 0, 0)
          /\ ret' = InCall
          /\ UNCHANGED session
    /\ UNCHANGED <<type, memory, queue, reading, adopting, dev, dq, broken, unreset>>

\* The rest of the shutdown sequence, where only a controller that stays enabled counts as a failure
ShutdownStep ==
    \/ /\ pc = "delete_sq"
       /\ Issue("admin", "delete_cq", 0, 0)
       /\ UNCHANGED <<type, session, memory, queue, reading, adopting, ret, dev, dq, broken, unreset>>
    \/ /\ pc = "delete_cq"
       /\ dev' = [dev EXCEPT !.shn = TRUE]
       /\ pc' = "wait_shutdown"
       /\ UNCHANGED <<type, session, memory, queue, cmd_timed_out, reading, adopting, cmd, ok, ret,
                      dq, pend, broken, unreset, ncmd>>
    \/ /\ pc = "wait_shutdown"
       /\ dev' = [dev EXCEPT !.ioreg = IF type = "t8132" THEN 0 ELSE @, !.en = FALSE]
       /\ pc' = "wait_off"
       /\ UNCHANGED <<type, session, memory, queue, cmd_timed_out, reading, adopting, cmd, ok, ret,
                      dq, pend, broken, unreset, ncmd>>

ShutdownEnd ==
    /\ pc = "wait_off"
    /\ IF type = "t8132"
       THEN /\ Return("shutdown", CtrlDisabled)
            /\ adopt_live_session' = (adopt_live_session \/ CtrlDisabled)
            /\ initialized' = ~CtrlDisabled
            /\ UNCHANGED <<memory, queue, device>>
       ELSE /\ Reset
            /\ FreeQueues
            /\ initialized' = FALSE
            /\ Return("shutdown", TRUE)
            /\ UNCHANGED adopt_live_session
    /\ UNCHANGED <<type, reboot_required, cmd_timed_out, reading, adopting, ncmd>>

-----------------------------------------------------------------------------
(* nvme_flush and nvme_read_blocks                                         *)

nvme_flush ==
    /\ \/ /\ pc = "idle" /\ ~initialized
          /\ Return("flush", FALSE)
          /\ UNCHANGED <<cmd_timed_out, pend, ncmd>>
       \/ /\ pc = "idle" /\ initialized /\ ncmd < MaxCmds
          /\ Issue("io", "flush", 0, 0)
          /\ ret' = InCall
       \/ /\ pc = "flush"
          /\ Return("flush", ok)
          /\ UNCHANGED <<cmd_timed_out, pend, ncmd>>
    /\ UNCHANGED <<type, session, memory, queue, reading, adopting, dev, dq, broken, unreset>>

\* mem: the bounce buffer and the PRP list are or can be allocated.  What the caller's buffer held
\* before does not matter.
nvme_read_blocks(lba, n, mem) ==
    /\ pc = "idle"
    /\ req' = [lba |-> lba, n |-> n, i |-> 0]
    /\ IF ~initialized \/ q["io"].failed
       THEN /\ Return("read", FALSE)
            /\ UNCHANGED <<cmd_timed_out, pend, ncmd>>
            /\ buf' = [i \in DOMAIN buf |-> Junk]
       ELSE /\ ncmd < MaxCmds
            /\ ret' = InCall
            /\ IF n > 1 /\ multi_enabled /\ mem
               THEN /\ buf' = [i \in DOMAIN buf |->
                                 IF ~multi_verified /\ i < n THEN Fill ELSE Junk]
                    /\ Issue("io", "multi", lba, n)
               ELSE /\ Issue("io", "single", lba, 0)
                    /\ buf' = [i \in DOMAIN buf |-> Junk]
    /\ UNCHANGED <<type, session, memory, queue, multi_enabled, multi_verified, bounce, adopting,
                   dev, dq, broken, unreset>>

\* The block compared in round i of the verification
Compared(i) == IF i = 0 THEN 0 ELSE req.n - 1

\* One verification read, into the bounce buffer
VerifyRead(i) ==
    /\ bounce' = FillBounce
    /\ req' = [req EXCEPT !.i = i]
    /\ Issue("io", "verify", req.lba + Compared(i), 0)

\* After the multi-block read, and after each of the two reads that verify it
ReadMulti ==
    /\ \/ /\ pc = "multi" /\ ok /\ multi_verified
          /\ Return("read", TRUE)
          /\ UNCHANGED <<cmd_timed_out, multi_enabled, multi_verified, bounce, req, pend,
                         ncmd>>
       \/ /\ pc = "multi" /\ ok /\ ~multi_verified
          /\ VerifyRead(0)
          /\ UNCHANGED <<multi_enabled, multi_verified, ret>>
       \/ LET same == ok /\ bounce = buf[Compared(req.i)]
          IN  \/ /\ pc = "verify" /\ same /\ req.i = 0
                 /\ VerifyRead(1)
                 /\ UNCHANGED <<multi_enabled, multi_verified, ret>>
              \/ /\ pc = "verify" /\ same /\ req.i = 1
                 /\ multi_verified' = TRUE
                 /\ Return("read", TRUE)
                 /\ UNCHANGED <<cmd_timed_out, multi_enabled, bounce, req, pend, ncmd>>
              \/ /\ \/ pc = "multi" /\ ~ok
                    \/ pc = "verify" /\ ~same
                 /\ IF cmd_timed_out
                    THEN /\ Return("read", FALSE)
                         /\ UNCHANGED <<cmd_timed_out, multi_enabled, req, pend, ncmd>>
                    ELSE /\ multi_enabled' = FALSE
                         /\ req' = [req EXCEPT !.i = 0]
                         /\ Issue("io", "single", req.lba, 0)
                         /\ UNCHANGED ret
                 /\ UNCHANGED <<multi_verified, bounce>>
    /\ UNCHANGED <<type, session, memory, queue, buf, adopting, dev, dq, broken, unreset>>

\* After each read of a single block
ReadSingle ==
    /\ pc = "single"
    /\ IF ok /\ req.i + 1 < req.n
       THEN /\ req' = [req EXCEPT !.i = @ + 1]
            /\ Issue("io", "single", req.lba + req.i + 1, req.i + 1)
            /\ UNCHANGED ret
       ELSE /\ Return("read", ok)
            /\ UNCHANGED <<cmd_timed_out, req, pend, ncmd>>
    /\ UNCHANGED <<type, session, memory, queue, multi_enabled, multi_verified, buf, bounce, adopting,
                   dev, dq, broken, unreset>>

-----------------------------------------------------------------------------
Device ==
    \/ DevBoot \/ DevReady \/ DevShutdown \/ DevFatal
    \/ \E x \in Queues : \E c \in pend[x], good \in BOOLEAN, tag \in {0, 1} : DevExecute(x, c, good, tag)

Driver ==
    \/ ExecComplete \/ ExecTimeout
    \/ nvme_init \/ \E good \in BOOLEAN : RtkitBoot(good)
    \/ BootStatus \/ SetupController \/ SetupAdminQueue \/ CreateQueues
    \/ OutDisableCtrl \/ OutShutdown \/ OutRtkit
    \/ \E keep \in BOOLEAN : nvme_shutdown(keep)
    \/ ShutdownStep \/ ShutdownEnd
    \/ nvme_flush
    \/ \E lba \in Lbas, n \in 1..MaxCount, mem \in BOOLEAN : nvme_read_blocks(lba, n, mem)
    \/ ReadMulti \/ ReadSingle

Next == Device \/ Driver

Spec == Init /\ [][Next]_vars

-----------------------------------------------------------------------------
Pcs == {"idle", "poll", "rtkit_boot", "boot_status", "setup", "wait_disabled", "wait_enabled",
        "create_cq", "create_sq", "undo_cq", "out_disable_ctrl", "out_wait_shutdown",
        "out_wait_disabled", "out_shutdown", "out_rtkit", "delete_sq", "delete_cq", "wait_shutdown",
        "wait_off", "flush", "multi", "verify", "single"}

(* Types: the head of each completion queue stays inside the queue, the    *)
(* session flags exclude each other.                                       *)
TypeOK ==
    /\ type \in Types /\ pc \in Pcs
    /\ gen \in 0..MaxInits /\ alloced \subseteq Gens /\ ngen \in 0..MaxInits
    /\ q \in [Queues -> [head : 0..QueueSize - 1, phase : {0, 1}, failed : BOOLEAN]]
    /\ ~(initialized /\ reboot_required)

(* DMA safety: while the controller is enabled or still ready, every queue *)
(* this image gave it is allocated.  Guards the error paths of nvme_init   *)
(* and the end of nvme_shutdown, which free the queues only after a reset  *)
(* of ANS and otherwise preserve them.  The result of the reset is not     *)
(* looked at: when it failed the queues are freed all the same, and this   *)
(* and the next three are stated for the time before (~unreset).           *)
DmaSafe ==
    dev.en \/ dev.rdy => {dev.tcbs, dev.asq, dev.iocq, dev.iosq} \ {0, Foreign} \subseteq alloced

(* A command succeeds only by its own completion, never by the late one of *)
(* an earlier command that timed out: all commands use tag 0, and only     *)
(* q->failed and the phase bit tell them apart.                            *)
CompletionMatches == pc = cmd.c.kind /\ ok => cmd.got = cmd.c.id

(* nvme_read_blocks returns true only with the requested blocks in the     *)
(* buffer, whatever the controller does with multi-block reads, and they   *)
(* stay there: no command of an earlier read writes to it any more.        *)
ReadCorrect ==
    pc = "idle" /\ ret = [op |-> "read", ok |-> TRUE]
        => \A i \in 0..req.n - 1 : buf[i] = req.lba + i

(* After a successful nvme_shutdown that is not a hand-over of the running *)
(* controller, the controller is off and holds no command: nothing writes  *)
(* to memory that the next boot stage owns.                                *)
QuietAfterShutdown ==
    pc = "idle" /\ ret = [op |-> "shutdown", ok |-> TRUE]
        => ~dev.en /\ ~dev.rdy /\ \A x \in Queues : pend[x] = {}

(* On the older controllers a failed nvme_init and a shutdown give back    *)
(* all queue memory.                                                       *)
NoLeak == type = "t8103" /\ pc = "idle" /\ ~initialized => alloced = {} /\ gen = 0

(* Once a set-up failed with ANS running, the driver never touches the     *)
(* controller or the preserved queues again.                               *)
Preserved ==
    reboot_required =>
        /\ reboot_required' /\ ~initialized'
        /\ gen' = gen /\ alloced' = alloced
        /\ <<dev.en, dev.shn, dev.tcbs, dev.asq, dev.ioreg>>'
              = <<dev.en, dev.shn, dev.tcbs, dev.asq, dev.ioreg>>
=============================================================================
